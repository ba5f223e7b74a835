------------------------- MODULE AlertPipeline_proof -------------------------
(***************************************************************************)
(* Proofs about AlertPipeline: for any number of servers, whatever the     *)
(* size of the queue and of the receive buffer, with every fault.          *)
(***************************************************************************)
EXTENDS AlertPipeline, TLAPS, SequenceTheorems, FiniteSetTheorems

-----------------------------------------------------------------------------
(***************************************************************************)
(* Types.                                                                  *)
(***************************************************************************)
\* A part of a sequence is a sequence of the same elements.
LEMMA CutType ==
  ASSUME NEW S, NEW s \in Seq(S), NEW m \in 1..(Len(s) + 1), NEW n \in 0..Len(s)
  PROVE  SubSeq(s, m, n) \in Seq(S)
  <1>1. \A i \in m..n : s[i] \in S
    BY ElementOfSeq, LenProperties
  <1>2. QED
    BY <1>1, SubSeqProperties, LenProperties

LEMMA PrefixOfCells ==
  ASSUME NEW text \in Seq(Cells), NEW n \in 0..Len(text)
  PROVE  Prefix(text, n) \in Seq(Cells)
  BY CutType, LenProperties DEF Prefix

\* Counting one more.
LEMMA CountType ==
  ASSUME NEW S, NEW f \in [S -> Nat], NEW x \in S
  PROVE  [f EXCEPT ![x] = @ + 1] \in [S -> Nat]
  OBVIOUS

\* A line of text is three cells.
LEMMA FormatType ==
  ASSUME NEW r \in Readings
  PROVE  Format(r) \in Seq(Cells) /\ Len(Format(r)) = 3
  BY DEF Format, Cells

LEMMA InitType == Init => TypeOK
  <1>1. /\ <<>> \in Seq(Cells) /\ <<>> \in Seq(Messages) /\ <<>> \in Seq(Seq(Cells))
        /\ Len(<<>>) = 0
    BY EmptySeq
  <1>2. QueueInit => QueueTypeOK
    <2>1. QueueInit => queueOpen \in BOOLEAN
      BY Zenon DEF QueueInit
    <2>2. QueueInit => queue \in Seq(Messages) /\ Len(queue) <= MaxMessages
      BY <1>1, QueueAssumption DEF QueueInit
    <2>3. QED
      BY <2>1, <2>2 DEF QueueTypeOK
  <1>3. ClientInit => ClientTypeOK
    BY <1>1, QueueAssumption DEF ClientInit, ClientTypeOK, NoOwner
  <1>4. QED
    BY <1>1, <1>2, <1>3 DEF Init, TypeOK, DisplayInit, Leds

\* What is behind the first k of a sequence.
LEMMA RestOfSeq ==
  ASSUME NEW S, NEW s \in Seq(S), NEW k \in 0..Len(s)
  PROVE  /\ SubSeq(s, k + 1, Len(s)) \in Seq(S)
         /\ Len(SubSeq(s, k + 1, Len(s))) = Len(s) - k
         /\ \A i \in 1..(Len(s) - k) : SubSeq(s, k + 1, Len(s))[i] = s[k + i]
  <1>1. Len(s) \in Nat /\ k \in Nat /\ k <= Len(s) /\ \A i \in 1..Len(s) : s[i] \in S
    BY LenProperties, ElementOfSeq
  <1>2. \A i \in (k + 1)..Len(s) : s[i] \in S
    BY <1>1
  <1>3. /\ SubSeq(s, k + 1, Len(s)) \in Seq(S)
        /\ Len(SubSeq(s, k + 1, Len(s))) =
             IF k + 1 <= Len(s) THEN Len(s) - (k + 1) + 1 ELSE 0
        /\ \A i \in 1..(Len(s) - (k + 1) + 1) :
             SubSeq(s, k + 1, Len(s))[i] = s[k + 1 + i - 1]
    BY <1>1, <1>2, SubSeqProperties
  <1>4. \A i \in 1..(Len(s) - k) : SubSeq(s, k + 1, Len(s))[i] = s[k + i]
    <2> TAKE i \in 1..(Len(s) - k)
    <2>1. i \in 1..(Len(s) - (k + 1) + 1) /\ k + 1 + i - 1 = k + i
      BY <1>1
    <2>2. QED
      BY <1>3, <2>1
  <1>5. QED
    BY <1>1, <1>3, <1>4

\* What recv() can still return.
LEMMA InFlightType ==
  ASSUME ClientTypeOK, NEW c \in Servers
  PROVE  /\ InFlight(c) \in Seq(Cells)
         /\ Len(InFlight(c)) = Len(sent[c]) - taken[c]
         /\ \A i \in 1..(Len(sent[c]) - taken[c]) : InFlight(c)[i] = sent[c][taken[c] + i]
  <1>1. sent[c] \in Seq(Cells) /\ taken[c] \in 0..Len(sent[c]) /\ Len(sent[c]) \in Nat
    BY LenProperties DEF ClientTypeOK
  <1>2. QED
    BY <1>1, RestOfSeq DEF InFlight

\* write() takes a part of the text, or all of it.
LEMMA WritesAPart ==
  ASSUME ClientTypeOK, NEW c \in Servers, Write(c) \/ WriteShort(c)
  PROVE  \E part \in Seq(Cells) : WriteTakes(c, part)
  <1>1. chunk[c] \in Seq(Cells) /\ Len(chunk[c]) \in Nat
    BY LenProperties DEF ClientTypeOK
  <1>2. CASE Write(c)
    BY <1>1, <1>2 DEF Write
  <1>3. CASE WriteShort(c)
    <2>1. PICK n \in ShortWrites : n < Len(chunk[c]) /\ WriteTakes(c, Prefix(chunk[c], n))
      BY <1>3 DEF WriteShort
    <2>2. n \in 0..Len(chunk[c])
      BY <1>1, <2>1, ClientAssumption
    <2>3. Prefix(chunk[c], n) \in Seq(Cells)
      BY <1>1, <2>2, PrefixOfCells
    <2>4. QED
      BY <2>1, <2>3
  <1>4. QED
    BY <1>2, <1>3

LEMMA ClientType == TypeOK /\ Client => TypeOK'
  <1> SUFFICES ASSUME TypeOK, ClientNext, UNCHANGED displayOwn PROVE TypeOK'
    BY DEF Client
  <1> USE DEF TypeOK, QueueTypeOK, ClientTypeOK, queueVars, linkVars, displayOwn, CAt
  <1>1. CASE ClientStart
    BY <1>1 DEF ClientStart
  <1>2. CASE ConnectFails
    BY <1>2 DEF ConnectFails
  <1>3. CASE ClientSignal
    BY <1>3 DEF ClientSignal
  <1>4. ASSUME NEW c \in Servers, Connect(c) PROVE TypeOK'
    <2>1. next' \in 1..(ServerCount + 1)
      BY <1>4, QueueAssumption DEF Connect, Servers
    <2>2. link' \in [Servers -> {"none", "open", "closed", "refused"}]
      BY <1>4 DEF Connect
    <2>3. QED
      BY <1>4, <2>1, <2>2 DEF Connect
  <1>5. ASSUME NEW c \in Servers, Recv(c) PROVE TypeOK'
    <2>1. PICK n \in 1..ChunkCells :
            /\ taken[c] + n <= Len(sent[c])
            /\ chunk' = [chunk EXCEPT ![c] = Prefix(InFlight(c), n)]
            /\ taken' = [taken EXCEPT ![c] = @ + n]
      BY <1>5 DEF Recv
    <2>2. Len(sent[c]) \in Nat /\ taken[c] \in Nat /\ n \in Nat
      BY LenProperties, ClientAssumption
    <2>3. /\ InFlight(c) \in Seq(Cells)
          /\ Len(InFlight(c)) = Len(sent[c]) - taken[c]
      BY <2>1, <2>2, InFlightType
    <2>4. Prefix(InFlight(c), n) \in Seq(Cells)
      <3>1. n \in 0..Len(InFlight(c))
        BY <2>1, <2>2, <2>3
      <3> HIDE DEF TypeOK, QueueTypeOK, ClientTypeOK, queueVars, linkVars, displayOwn
      <3>2. QED
        BY <2>3, <3>1, PrefixOfCells
    <2>5. \A d \in Servers : taken'[d] \in 0..Len(sent'[d])
      <3>1. UNCHANGED sent
        BY <1>5 DEF Recv
      <3>2. \A d \in Servers : taken[d] \in 0..Len(sent[d])
        OBVIOUS
      <3>3. taken[c] + n \in 0..Len(sent[c])
        BY <2>1, <2>2, ClientAssumption
      <3>4. taken' = [taken EXCEPT ![c] = taken[c] + n] /\ taken \in [Servers -> Nat]
        BY <2>1
      <3> HIDE DEF TypeOK, QueueTypeOK, ClientTypeOK, queueVars, linkVars, displayOwn
      <3>5. QED
        BY <3>1, <3>2, <3>3, <3>4
    <2>6. taken' \in [Servers -> Nat] /\ chunk' \in [Servers -> Seq(Cells)]
      BY <2>1, <2>2, <2>4
    <2>7. /\ cpc' = [cpc EXCEPT ![c] = "lock"]
          /\ UNCHANGED <<sent, link, queueVars, cproc, next, filelock, logged, alerts>>
      BY <1>5 DEF Recv
    <2>8. QED
      BY <2>5, <2>6, <2>7
  <1>6. ASSUME NEW c \in Servers, RecvNothing(c) PROVE TypeOK'
    <2>1. /\ cpc' = [cpc EXCEPT ![c] = "lock"] /\ chunk' = [chunk EXCEPT ![c] = <<>>]
          /\ UNCHANGED <<sent, taken, link, queueVars, cproc, next, filelock, logged, alerts>>
          /\ UNCHANGED displayOwn
      BY <1>6 DEF RecvNothing
    <2>2. chunk' \in [Servers -> Seq(Cells)]
      BY <2>1, EmptySeq
    <2>3. QED
      BY <2>1, <2>2
  <1>7. ASSUME NEW c \in Servers PROVE LockFile(c) => TypeOK'
    BY DEF LockFile
  <1>8. ASSUME NEW c \in Servers, NEW part \in Seq(Cells), WriteTakes(c, part) PROVE TypeOK'
    <2>1. logged[c] \o part \in Seq(Cells)
      BY ConcatProperties
    <2>2. Append(alerts[c], chunk[c]) \in Seq(Seq(Cells))
      BY AppendProperties
    <2>3. alerts' \in [Servers -> Seq(Seq(Cells))]
      BY <1>8, <2>2 DEF WriteTakes
    <2>4. logged' \in [Servers -> Seq(Cells)]
      BY <1>8, <2>1 DEF WriteTakes
    <2>5. /\ cpc' = [cpc EXCEPT ![c] = "written"]
          /\ UNCHANGED <<linkVars, queueVars, cproc, next, chunk, filelock>>
      BY <1>8 DEF WriteTakes
    <2>6. QED
      BY <2>3, <2>4, <2>5
  <1>9. ASSUME NEW c \in Servers PROVE WriteFails(c) => TypeOK'
    BY DEF WriteFails
  <1>10. ASSUME NEW c \in Servers PROVE UnlockFile(c) => TypeOK'
    BY DEF UnlockFile
  <1>11. ASSUME NEW c \in Servers, Forward(c) PROVE TypeOK'
    <2>1. [from |-> c, no |-> Len(alerts[c]), text |-> chunk[c]] \in Messages
      BY LenProperties DEF Messages
    <2>2. queue' \in Seq(Messages) /\ Len(queue') <= MaxMessages
      BY <1>11, <2>1, AppendProperties, LenProperties, QueueAssumption DEF Forward, MqSend
    <2>3. QED
      BY <1>11, <2>2 DEF Forward, MqSend
  <1>12. ASSUME NEW c \in Servers, Write(c) \/ WriteShort(c) PROVE TypeOK'
    BY <1>8, <1>12, WritesAPart
  <1>13. QED
    BY <1>1, <1>2, <1>3, <1>4, <1>5, <1>6, <1>7, <1>9, <1>10, <1>11, <1>12
    DEF ClientNext, ClientThread

LEMMA DisplayType == TypeOK /\ Display => TypeOK'
  <1> SUFFICES ASSUME TypeOK, DisplayNext, UNCHANGED <<linkVars, ownVars>> PROVE TypeOK'
    BY DEF Display
  <1> USE DEF TypeOK, QueueTypeOK, ClientTypeOK, queueVars, linkVars, ownVars, DAt
  <1>1. CASE DisplayStart
    BY <1>1, EmptySeq DEF DisplayStart
  <1>2. CASE DisplayCrash
    BY <1>2 DEF DisplayCrash
  <1>3. CASE Receive
    <2>1. Head(queue) \in Messages /\ Tail(queue) \in Seq(Messages)
          /\ Len(Tail(queue)) = Len(queue) - 1
      BY <1>3, HeadTailProperties DEF Receive, MqReceive
    <2>2. Head(queue).text \in Seq(Cells) /\ Head(queue).from \in Servers
      BY <2>1 DEF Messages
    <2>3. queue' \in Seq(Messages) /\ Len(queue') <= MaxMessages
      BY <1>3, <2>1, LenProperties, QueueAssumption DEF Receive, MqReceive
    <2>4. received' \in [Servers -> Nat]
      <3>1. PICK c \in Servers : received' = [received EXCEPT ![c] = @ + 1]
        BY <1>3, <2>2, Zenon DEF Receive
      <3>2. received \in [Servers -> Nat]
        OBVIOUS
      <3>3. QED
        BY <3>1, <3>2, CountType
    <2>5. QED
      BY <1>3, <2>2, <2>3, <2>4 DEF Receive, MqReceive
  <1>4. CASE PrintOnLcd
    <2>1. \A h \in 1..Len(in_buffer) : in_buffer[h] \in Cells
      BY ElementOfSeq
    <2>2. \A h \in OnLcd(in_buffer) : in_buffer[h].of \in Readings
      BY <2>1 DEF OnLcd, Places, Cells
    <2>3. QED
      BY <1>4, <2>2 DEF PrintOnLcd
  <1>5. CASE LedOn
    BY <1>5 DEF LedOn
  <1>6. CASE LedOff
    BY <1>6 DEF LedOff
  <1>7. QED
    BY <1>1, <1>2, <1>3, <1>4, <1>5, <1>6 DEF DisplayNext

LEMMA ServerType ==
  ASSUME TypeOK, NEW c \in Servers, Emit(c) \/ ServerEnds(c)
  PROVE  TypeOK'
  <1> USE DEF TypeOK, QueueTypeOK, ClientTypeOK, queueVars, ownVars, displayOwn
  <1>1. CASE Emit(c)
    <2>1. PICK r \in Readings, n \in Cuts :
            sent' = [sent EXCEPT ![c] = @ \o Prefix(Format(r), n)]
      BY <1>1 DEF Emit
    <2>2. n \in 1..3
      BY PipelineAssumption
    <2>3. Prefix(Format(r), n) \in Seq(Cells)
      BY <2>2, FormatType, CutType DEF Prefix
    <2>4. /\ sent[c] \o Prefix(Format(r), n) \in Seq(Cells)
          /\ Len(sent[c] \o Prefix(Format(r), n)) >= Len(sent[c])
      BY <2>3, ConcatProperties, LenProperties
    <2>5. \A d \in Servers : taken[d] \in 0..Len(sent'[d])
      BY <2>1, <2>4, LenProperties
    <2>6. QED
      BY <1>1, <2>1, <2>4, <2>5 DEF Emit
  <1>2. CASE ServerEnds(c)
    BY <1>2 DEF ServerEnds
  <1>3. QED
    BY <1>1, <1>2

LEMMA StutterType == TypeOK /\ UNCHANGED vars => TypeOK'
  BY DEF TypeOK, QueueTypeOK, ClientTypeOK, vars, clientVars, linkVars, queueVars, ownVars,
     displayOwn

LEMMA TypeStep == TypeOK /\ [Next]_vars => TypeOK'
  BY ClientType, DisplayType, ServerType, StutterType DEF Next

\* Every variable of the pipeline keeps its type, and the queue its limit.
THEOREM TypeCorrect == Spec => []TypeOK
  BY InitType, TypeStep, PTL DEF Spec
-----------------------------------------------------------------------------
(***************************************************************************)
(* Alerts between the log and the display.  A thread that has an alert in  *)
(* hand has the newest of its server, which is in nobody else's.           *)
(***************************************************************************)
HandInv ==
  \A c \in Servers : InHand(c) =>
    /\ received[c] < Len(alerts[c])
    /\ chunk[c] = alerts[c][Len(alerts[c])]
    /\ \A i \in 1..Len(queue) : queue[i].from = c => queue[i].no < Len(alerts[c])

ReceivedInv == \A c \in Servers : received[c] <= Len(alerts[c])

\* A server main() has not come to has no thread.
ThreadInv == \A c \in Servers : next <= c => cpc[c] = "none"

AlertInv == AlertsConserved /\ HandInv /\ ReceivedInv

LEMMA ThreadStep == TypeOK /\ ThreadInv /\ [Next]_vars => ThreadInv'
  <1> SUFFICES ASSUME TypeOK, ThreadInv, [Next]_vars PROVE ThreadInv'
    OBVIOUS
  <1> USE DEF ThreadInv, TypeOK, ClientTypeOK, CAt
  <1>1. ASSUME NEW c \in Servers, Connect(c) PROVE ThreadInv'
    BY <1>1 DEF Connect, Servers
  <1>2. ASSUME NEW c \in Servers, ClientThread(c) PROVE ThreadInv'
    BY <1>2 DEF ClientThread, Recv, RecvNothing, LockFile, Write, WriteShort, WriteTakes,
       WriteFails, UnlockFile, Forward
  <1>3. CASE UNCHANGED <<next, cpc>>
    BY <1>3
  <1>4. QED
    BY <1>1, <1>2, <1>3 DEF Next, Client, ClientNext, ClientStart, ConnectFails, ClientSignal,
       Display, Emit, ServerEnds, vars, clientVars, ownVars

LEMMA ThreadInvariant == Spec => []ThreadInv
  <1>1. Init => ThreadInv
    BY DEF Init, ClientInit, ThreadInv
  <1>2. QED
    BY <1>1, ThreadStep, TypeCorrect, PTL DEF Spec

\* The invariant follows when nothing it speaks of changes.
LEMMA AlertsUntouched ==
  ASSUME TypeOK, AlertInv, UNCHANGED <<queue, alerts, received>>,
         \A c \in Servers : InHand(c)' <=> InHand(c),
         \A c \in Servers : InHand(c) => chunk'[c] = chunk[c]
  PROVE  AlertInv'
  BY DEF AlertInv, AlertsConserved, QueueInOrder, NothingMissing, HandInv, ReceivedInv

\* A message of the queue.
LEMMA QueueMessage ==
  ASSUME TypeOK, NEW i \in 1..Len(queue)
  PROVE  queue[i] \in Messages /\ queue[i].from \in Servers /\ queue[i].no \in Nat
  <1>1. queue[i] \in Messages
    BY ElementOfSeq DEF TypeOK, QueueTypeOK
  <1>2. QED
    BY <1>1 DEF Messages

\* Lengths are numbers.
LEMMA Lengths ==
  ASSUME TypeOK
  PROVE  /\ Len(queue) \in Nat
         /\ \A c \in Servers : Len(alerts[c]) \in Nat /\ received[c] \in Nat
  BY LenProperties DEF TypeOK, QueueTypeOK, ClientTypeOK

\* A write() that takes anything: an alert becomes the newest of its server, and is in
\* hand.
LEMMA WriteKeepsAlerts ==
  ASSUME TypeOK, AlertInv, NEW c \in Servers, NEW part, WriteTakes(c, part),
         UNCHANGED displayOwn
  PROVE  AlertInv'
  <1>1. /\ cpc[c] = "write" /\ ~ InHand(c)
        /\ \A d \in Servers \ {c} : InHand(d)' <=> InHand(d)
        /\ UNCHANGED <<queue, chunk, received>>
    BY DEF WriteTakes, CAt, InHand, HasBang, queueVars, displayOwn, TypeOK, ClientTypeOK
  <1>2. CASE ~ HasBang(chunk[c])
    <2>1. UNCHANGED alerts /\ ~ InHand(c)'
      BY <1>1, <1>2 DEF WriteTakes, InHand, HasBang, TypeOK, ClientTypeOK
    <2>2. QED
      BY <1>1, <2>1, AlertsUntouched
  <1>3. CASE HasBang(chunk[c])
    <2>1. InHand(c)'
      BY <1>1, <1>3 DEF WriteTakes, InHand, HasBang, TypeOK, ClientTypeOK
    <2>2. /\ \A d \in Servers \ {c} : alerts'[d] = alerts[d]
          /\ alerts'[c] = Append(alerts[c], chunk[c])
      BY <1>3 DEF WriteTakes, TypeOK, ClientTypeOK
    <2>3. /\ Len(alerts'[c]) = Len(alerts[c]) + 1
          /\ alerts'[c][Len(alerts[c]) + 1] = chunk[c]
          /\ \A n \in 1..Len(alerts[c]) : alerts'[c][n] = alerts[c][n]
      BY <2>2, AppendProperties, Lengths DEF TypeOK, ClientTypeOK
    <2>4. QueueInOrder'
      <3> SUFFICES ASSUME NEW i \in 1..Len(queue)
                   PROVE  /\ queue[i].no \in
                               (received[queue[i].from] + 1)..Len(alerts'[queue[i].from])
                          /\ queue[i].text = alerts'[queue[i].from][queue[i].no]
                          /\ \A j \in 1..(i - 1) :
                               queue[j].from = queue[i].from => queue[j].no < queue[i].no
        BY <1>1 DEF QueueInOrder
      <3>1. /\ queue[i].no \in (received[queue[i].from] + 1)..Len(alerts[queue[i].from])
            /\ queue[i].text = alerts[queue[i].from][queue[i].no]
            /\ \A j \in 1..(i - 1) :
                 queue[j].from = queue[i].from => queue[j].no < queue[i].no
        BY DEF AlertInv, AlertsConserved, QueueInOrder
      <3>2. queue[i].from \in Servers
        BY QueueMessage
      <3>3. CASE queue[i].from # c
        BY <2>2, <3>1, <3>2, <3>3
      <3>4. CASE queue[i].from = c
        <4>1. /\ queue[i].no \in (received[c] + 1)..Len(alerts[c])
              /\ queue[i].no \in Nat /\ Len(alerts[c]) \in Nat /\ received[c] \in Nat
          BY <3>1, <3>4, QueueMessage, Lengths
        <4>2. /\ queue[i].no \in (received[c] + 1)..Len(alerts'[c])
              /\ alerts'[c][queue[i].no] = alerts[c][queue[i].no]
          BY <2>3, <4>1
        <4>3. QED
          BY <3>1, <3>4, <4>2
      <3>5. QED
        BY <3>3, <3>4
    <2>5. NothingMissing'
      <3> SUFFICES ASSUME NEW d \in Servers, NEW n \in (received[d] + 1)..Len(alerts'[d])
                   PROVE  \/ \E i \in 1..Len(queue) : queue[i].from = d /\ queue[i].no = n
                          \/ InHand(d)' /\ n = Len(alerts'[d])
        BY <1>1 DEF NothingMissing
      <3>1. \A e \in Servers : \A k \in (received[e] + 1)..Len(alerts[e]) :
              \/ \E i \in 1..Len(queue) : queue[i].from = e /\ queue[i].no = k
              \/ InHand(e) /\ k = Len(alerts[e])
        BY DEF AlertInv, AlertsConserved, NothingMissing
      <3>2. CASE d # c
        BY <1>1, <2>2, <3>1, <3>2
      <3>3. CASE d = c /\ n = Len(alerts'[c])
        BY <2>1, <3>3
      <3>4. CASE d = c /\ n # Len(alerts'[c])
        <4>1. n \in (received[c] + 1)..Len(alerts[c])
          BY <2>3, <3>4, Lengths
        <4>2. QED
          BY <1>1, <3>1, <3>4, <4>1
      <3>5. QED
        BY <3>2, <3>3, <3>4
    <2>6. HandInv'
      <3> SUFFICES ASSUME NEW d \in Servers, InHand(d)'
                   PROVE  /\ received[d] < Len(alerts'[d])
                          /\ chunk[d] = alerts'[d][Len(alerts'[d])]
                          /\ \A i \in 1..Len(queue) :
                               queue[i].from = d => queue[i].no < Len(alerts'[d])
        BY <1>1 DEF HandInv
      <3>1. CASE d # c
        BY <1>1, <2>2, <3>1 DEF AlertInv, HandInv
      <3>2. CASE d = c
        <4>1. \A i \in 1..Len(queue) : queue[i].from = c => queue[i].no <= Len(alerts[c])
          BY Lengths, QueueMessage DEF AlertInv, AlertsConserved, QueueInOrder
        <4>2. QED
          BY <2>3, <3>2, <4>1, Lengths, QueueMessage DEF AlertInv, ReceivedInv
      <3>3. QED
        BY <3>1, <3>2
    <2>7. ReceivedInv'
      BY <1>1, <2>2, <2>3, Lengths DEF AlertInv, ReceivedInv
    <2>8. QED
      BY <2>4, <2>5, <2>6, <2>7 DEF AlertInv, AlertsConserved
  <1>4. QED
    BY <1>2, <1>3

\* Forward: the alert in hand becomes the last message of the queue.
LEMMA ForwardKeepsAlerts ==
  ASSUME TypeOK, AlertInv, NEW c \in Servers, Forward(c), UNCHANGED displayOwn
  PROVE  AlertInv'
  <1> DEFINE last == Len(alerts[c])
             m == [from |-> c, no |-> last, text |-> chunk[c]]
  <1>1. /\ InHand(c) /\ ~ InHand(c)'
        /\ \A d \in Servers \ {c} : InHand(d)' <=> InHand(d)
        /\ UNCHANGED <<chunk, alerts, received>>
    BY DEF Forward, CAt, InHand, HasBang, displayOwn, TypeOK, ClientTypeOK
  <1>2. /\ received[c] < last /\ chunk[c] = alerts[c][last]
        /\ \A i \in 1..Len(queue) : queue[i].from = c => queue[i].no < last
        /\ last \in Nat /\ received[c] \in Nat
    BY <1>1, Lengths DEF AlertInv, HandInv
  <1>3. m \in Messages
    BY <1>2 DEF Messages, TypeOK, ClientTypeOK
  <1>4. /\ Len(queue') = Len(queue) + 1 /\ Len(queue) \in Nat
        /\ queue'[Len(queue) + 1] = m
        /\ \A i \in 1..Len(queue) : queue'[i] = queue[i]
    BY <1>3, AppendProperties, Lengths DEF Forward, MqSend, TypeOK, QueueTypeOK
  <1> HIDE DEF last
  <1>5. QueueInOrder'
    <2> SUFFICES ASSUME NEW i \in 1..Len(queue')
                 PROVE  /\ queue'[i].no \in
                             (received[queue'[i].from] + 1)..Len(alerts[queue'[i].from])
                        /\ queue'[i].text = alerts[queue'[i].from][queue'[i].no]
                        /\ \A j \in 1..(i - 1) :
                             queue'[j].from = queue'[i].from => queue'[j].no < queue'[i].no
      BY <1>1 DEF QueueInOrder
    <2>1. CASE i \in 1..Len(queue)
      <3>1. \A j \in 1..(i - 1) : queue'[j] = queue[j]
        BY <1>4, <2>1
      <3>2. QED
        BY <1>4, <2>1, <3>1 DEF AlertInv, AlertsConserved, QueueInOrder
    <2>2. CASE i = Len(queue) + 1
      BY <1>2, <1>4, <2>2 DEF last
    <2>3. QED
      BY <1>4, <2>1, <2>2
  <1>6. NothingMissing'
    <2> SUFFICES ASSUME NEW d \in Servers, NEW n \in (received[d] + 1)..Len(alerts[d])
                 PROVE  \/ \E i \in 1..Len(queue') : queue'[i].from = d /\ queue'[i].no = n
                        \/ InHand(d)' /\ n = Len(alerts[d])
      BY <1>1 DEF NothingMissing
    <2>1. CASE \E i \in 1..Len(queue) : queue[i].from = d /\ queue[i].no = n
      BY <1>4, <2>1
    <2>2. CASE InHand(d) /\ n = Len(alerts[d]) /\ d # c
      BY <1>1, <2>2
    <2>3. CASE n = Len(alerts[d]) /\ d = c
      BY <1>4, <2>3 DEF last
    <2>4. QED
      BY <2>1, <2>2, <2>3 DEF AlertInv, AlertsConserved, NothingMissing
  <1>7. HandInv'
    <2> SUFFICES ASSUME NEW d \in Servers, InHand(d)'
                 PROVE  /\ received[d] < Len(alerts[d])
                        /\ chunk[d] = alerts[d][Len(alerts[d])]
                        /\ \A i \in 1..Len(queue') :
                             queue'[i].from = d => queue'[i].no < Len(alerts[d])
      BY <1>1 DEF HandInv
    <2>1. d # c /\ InHand(d)
      BY <1>1
    <2>2. QED
      BY <1>4, <2>1 DEF AlertInv, HandInv
  <1>8. ReceivedInv'
    BY <1>1 DEF AlertInv, ReceivedInv
  <1>9. QED
    BY <1>5, <1>6, <1>7, <1>8 DEF AlertInv, AlertsConserved

\* The oldest message of the queue is the first of its server's alerts that the
\* display has not taken.
LEMMA OldestFirst ==
  ASSUME TypeOK, AlertInv, queue # <<>>
  PROVE  /\ 1 \in 1..Len(queue) /\ queue[1].from \in Servers
         /\ queue[1].no = received[queue[1].from] + 1
         /\ queue[1].no <= Len(alerts[queue[1].from])
         /\ queue[1].text = alerts[queue[1].from][queue[1].no]
  <1> DEFINE c == queue[1].from
  <1>1. /\ Len(queue) \in Nat \ {0}
        /\ c \in Servers /\ queue[1].no \in Nat
        /\ Len(alerts[c]) \in Nat /\ received[c] \in Nat
    BY Lengths, QueueMessage, EmptySeq DEF TypeOK, QueueTypeOK
  <1>2. /\ queue[1].no \in (received[c] + 1)..Len(alerts[c])
        /\ queue[1].text = alerts[c][queue[1].no]
    BY <1>1 DEF AlertInv, AlertsConserved, QueueInOrder
  <1>3. received[c] + 1 \in (received[c] + 1)..Len(alerts[c])
    BY <1>1, <1>2
  <1>4. CASE \E i \in 1..Len(queue) : queue[i].from = c /\ queue[i].no = received[c] + 1
    <2>1. PICK i \in 1..Len(queue) : queue[i].from = c /\ queue[i].no = received[c] + 1
      BY <1>4
    <2>2. i > 1 => queue[1].no < queue[i].no
      BY <1>1, <2>1 DEF AlertInv, AlertsConserved, QueueInOrder
    <2>3. QED
      BY <1>1, <1>2, <2>1, <2>2
  <1>5. CASE InHand(c) /\ received[c] + 1 = Len(alerts[c])
    BY <1>1, <1>2, <1>5 DEF AlertInv, HandInv
  <1>6. QED
    BY <1>1, <1>2, <1>3, <1>4, <1>5 DEF AlertInv, AlertsConserved, NothingMissing

\* Receive: the oldest message of the queue is the first one its server's alerts
\* that the display has not taken.
LEMMA ReceiveKeepsAlerts ==
  ASSUME TypeOK, AlertInv, Receive, UNCHANGED <<linkVars, ownVars>>
  PROVE  AlertInv'
  <1> DEFINE c == queue[1].from
  <1>1. /\ UNCHANGED <<chunk, alerts>>
        /\ \A d \in Servers : InHand(d)' <=> InHand(d)
    BY DEF InHand, HasBang, ownVars
  <1>2. /\ Len(queue) \in Nat \ {0}
        /\ c \in Servers /\ queue[1].no \in Nat
        /\ \A d \in Servers : Len(alerts[d]) \in Nat /\ received[d] \in Nat
    BY Lengths, QueueMessage, EmptySeq DEF Receive, MqReceive, TypeOK, QueueTypeOK
  <1>3. /\ received'[c] = received[c] + 1
        /\ \A d \in Servers \ {c} : received'[d] = received[d]
    BY <1>2 DEF Receive, TypeOK
  <1>4. /\ Len(queue') = Len(queue) - 1
        /\ \A i \in 1..(Len(queue) - 1) : queue'[i] = queue[i + 1]
    BY <1>2, HeadTailProperties DEF Receive, MqReceive, TypeOK, QueueTypeOK
  <1>5. queue[1].no = received[c] + 1
    BY OldestFirst DEF Receive, MqReceive
  <1> HIDE DEF c
  <1>6. QueueInOrder'
    <2> SUFFICES ASSUME NEW i \in 1..Len(queue')
                 PROVE  /\ queue'[i].no \in
                             (received'[queue'[i].from] + 1)..Len(alerts[queue'[i].from])
                        /\ queue'[i].text = alerts[queue'[i].from][queue'[i].no]
                        /\ \A j \in 1..(i - 1) :
                             queue'[j].from = queue'[i].from => queue'[j].no < queue'[i].no
      BY <1>1 DEF QueueInOrder
    <2>1. /\ i + 1 \in 1..Len(queue) /\ queue'[i] = queue[i + 1]
          /\ \A j \in 1..(i - 1) : queue'[j] = queue[j + 1] /\ j + 1 \in 1..i
      BY <1>2, <1>4
    <2>2. /\ queue[i + 1].no \in (received[queue[i + 1].from] + 1)..Len(alerts[queue[i + 1].from])
          /\ queue[i + 1].text = alerts[queue[i + 1].from][queue[i + 1].no]
          /\ \A j \in 1..i : queue[j].from = queue[i + 1].from => queue[j].no < queue[i + 1].no
          /\ queue[i + 1].from \in Servers /\ queue[i + 1].no \in Nat
      BY <2>1, QueueMessage DEF AlertInv, AlertsConserved, QueueInOrder
    <2>3. queue[i + 1].no \in
            (received'[queue[i + 1].from] + 1)..Len(alerts[queue[i + 1].from])
      <3>1. CASE queue[i + 1].from = c
        <4>1. queue[1].no < queue[i + 1].no
          BY <2>2, <3>1 DEF c
        <4>2. QED
          BY <1>2, <1>3, <1>5, <2>2, <3>1, <4>1
      <3>2. CASE queue[i + 1].from # c
        BY <1>3, <2>2, <3>2
      <3>3. QED
        BY <3>1, <3>2
    <2>4. QED
      BY <2>1, <2>2, <2>3
  <1>7. NothingMissing'
    <2> SUFFICES ASSUME NEW d \in Servers, NEW n \in (received'[d] + 1)..Len(alerts[d])
                 PROVE  \/ \E i \in 1..Len(queue') : queue'[i].from = d /\ queue'[i].no = n
                        \/ InHand(d) /\ n = Len(alerts[d])
      BY <1>1 DEF NothingMissing
    <2>1. n \in (received[d] + 1)..Len(alerts[d]) /\ (d = c => n # queue[1].no)
      BY <1>2, <1>3, <1>5
    <2>2. CASE \E i \in 1..Len(queue) : queue[i].from = d /\ queue[i].no = n
      <3>1. PICK i \in 1..Len(queue) : queue[i].from = d /\ queue[i].no = n
        BY <2>2
      <3>2. i # 1
        BY <2>1, <3>1 DEF c
      <3>3. i - 1 \in 1..(Len(queue) - 1) /\ (i - 1) + 1 = i
        BY <1>2, <3>2
      <3>4. QED
        BY <1>4, <3>1, <3>3
    <2>3. QED
      BY <2>1, <2>2 DEF AlertInv, AlertsConserved, NothingMissing
  <1>8. HandInv'
    <2> SUFFICES ASSUME NEW d \in Servers, InHand(d)
                 PROVE  /\ received'[d] < Len(alerts[d])
                        /\ chunk[d] = alerts[d][Len(alerts[d])]
                        /\ \A i \in 1..Len(queue') :
                             queue'[i].from = d => queue'[i].no < Len(alerts[d])
      BY <1>1 DEF HandInv
    <2>1. /\ received[d] < Len(alerts[d]) /\ chunk[d] = alerts[d][Len(alerts[d])]
          /\ \A i \in 1..Len(queue) : queue[i].from = d => queue[i].no < Len(alerts[d])
      BY DEF AlertInv, HandInv
    <2>2. received'[d] < Len(alerts[d])
      BY <1>2, <1>3, <1>5, <2>1 DEF c
    <2>3. \A i \in 1..Len(queue') : i + 1 \in 1..Len(queue) /\ queue'[i] = queue[i + 1]
      BY <1>2, <1>4
    <2>4. QED
      BY <2>1, <2>2, <2>3
  <1>9. ReceivedInv'
    BY <1>1, <1>2, <1>3, <1>5 DEF AlertInv, AlertsConserved, QueueInOrder, ReceivedInv, c
  <1>10. QED
    BY <1>6, <1>7, <1>8, <1>9 DEF AlertInv, AlertsConserved

\* The other steps of the client have no alert in hand before or after, but for
\* UnlockFile, which keeps it.
LEMMA ClientKeepsAlerts ==
  ASSUME TypeOK, ThreadInv, AlertInv, ClientNext, UNCHANGED displayOwn
  PROVE  AlertInv'
  <1> USE DEF InHand, HasBang, CAt, TypeOK, ClientTypeOK, queueVars, displayOwn
  <1>1. CASE ClientStart \/ ConnectFails \/ ClientSignal
    BY <1>1, AlertsUntouched DEF ClientStart, ConnectFails, ClientSignal
  <1>2. ASSUME NEW c \in Servers, Connect(c) PROVE AlertInv'
    <2>1. cpc[c] # "written" /\ cpc[c] # "forward" => AlertInv'
      BY <1>2, AlertsUntouched DEF Connect
    <2>2. cpc[c] = "none"
      BY <1>2 DEF Connect, ThreadInv, Servers
    <2>3. QED
      BY <2>1, <2>2
  <1>3. ASSUME NEW c \in Servers, Recv(c) \/ RecvNothing(c) PROVE AlertInv'
    BY <1>3, AlertsUntouched DEF Recv, RecvNothing
  <1>4. ASSUME NEW c \in Servers, LockFile(c) \/ WriteFails(c) PROVE AlertInv'
    BY <1>4, AlertsUntouched DEF LockFile, WriteFails
  <1>5. ASSUME NEW c \in Servers, UnlockFile(c) PROVE AlertInv'
    BY <1>5, AlertsUntouched DEF UnlockFile
  <1>6. ASSUME NEW c \in Servers, Forward(c) PROVE AlertInv'
    BY <1>6, ForwardKeepsAlerts
  <1>7. ASSUME NEW c \in Servers, Write(c) \/ WriteShort(c) PROVE AlertInv'
    BY <1>7, WritesAPart, WriteKeepsAlerts
  <1>8. QED
    BY <1>1, <1>2, <1>3, <1>4, <1>5, <1>6, <1>7 DEF ClientNext, ClientThread

LEMMA DisplayKeepsAlerts ==
  ASSUME TypeOK, AlertInv, DisplayNext, UNCHANGED <<linkVars, ownVars>>
  PROVE  AlertInv'
  <1>1. CASE Receive
    BY <1>1, ReceiveKeepsAlerts
  <1>2. CASE DisplayStart \/ DisplayCrash \/ PrintOnLcd \/ LedOn \/ LedOff
    BY <1>2, AlertsUntouched
    DEF DisplayStart, DisplayCrash, PrintOnLcd, LedOn, LedOff, queueVars, ownVars, InHand, HasBang
  <1>3. QED
    BY <1>1, <1>2 DEF DisplayNext

LEMMA OthersKeepAlerts ==
  ASSUME TypeOK, AlertInv,
         UNCHANGED vars \/ \E c \in Servers : Emit(c) \/ ServerEnds(c)
  PROVE  AlertInv'
  BY AlertsUntouched
  DEF Emit, ServerEnds, vars, clientVars, queueVars, ownVars, displayOwn, InHand, HasBang

LEMMA AlertStep == TypeOK /\ ThreadInv /\ AlertInv /\ [Next]_vars => AlertInv'
  BY ClientKeepsAlerts, DisplayKeepsAlerts, OthersKeepAlerts DEF Next, Client, Display

LEMMA AlertInit == Init => AlertInv
  <1>1. Len(<<>>) = 0
    BY EmptySeq
  <1>2. QED
    BY <1>1 DEF Init, QueueInit, ClientInit, DisplayInit, AlertInv, AlertsConserved, QueueInOrder,
       NothingMissing, HandInv, ReceivedInv, InHand

\* For every number of servers, size of the queue, cut and fault: what was logged
\* with a '!' reaches the display once and in the order of its server.
THEOREM AlertsReachDisplay == Spec => []AlertsConserved
  <1>1. AlertInv => AlertsConserved
    BY DEF AlertInv
  <1>2. QED
    BY AlertInit, AlertStep, TypeCorrect, ThreadInvariant, <1>1, PTL DEF Spec

-----------------------------------------------------------------------------
(***************************************************************************)
(* Client, queue and display implement AlertPath.                          *)
(***************************************************************************)
\* While none of a server's alerts is in a thread's hands, those that wait are in the
\* queue, each in a place of its own: they are no more than the queue holds.
LEMMA WaitingFits ==
  ASSUME TypeOK, AlertInv, NEW c \in Servers, ~ InHand(c)
  PROVE  Len(alerts[c]) - received[c] <= MaxMessages
  <1> DEFINE S == (received[c] + 1)..Len(alerts[c])
             T == 1..Len(queue)
             f == [n \in S |-> CHOOSE i \in T : queue[i].from = c /\ queue[i].no = n]
  <1>1. /\ Len(queue) \in Nat /\ Len(queue) <= MaxMessages /\ MaxMessages \in Nat
        /\ Len(alerts[c]) \in Nat /\ received[c] \in Nat /\ received[c] <= Len(alerts[c])
    BY Lengths, QueueAssumption DEF TypeOK, QueueTypeOK, AlertInv, ReceivedInv
  <1>2. /\ IsFiniteSet(S) /\ Cardinality(S) = Len(alerts[c]) - received[c]
        /\ IsFiniteSet(T) /\ Cardinality(T) = Len(queue)
    <2>1. received[c] + 1 \in Int /\ Len(alerts[c]) \in Int /\ 1 \in Int /\ Len(queue) \in Int
      BY <1>1
    <2>2. IsFiniteSet(S) /\ Cardinality(S) =
            IF received[c] + 1 > Len(alerts[c]) THEN 0
            ELSE Len(alerts[c]) - (received[c] + 1) + 1
      BY <2>1, FS_Interval
    <2>3. IsFiniteSet(T) /\ Cardinality(T) = IF 1 > Len(queue) THEN 0 ELSE Len(queue) - 1 + 1
      BY <2>1, FS_Interval
    <2> HIDE DEF S, T
    <2>4. QED
      BY <1>1, <2>2, <2>3
  <1>3. \A n \in S : f[n] \in T /\ queue[f[n]].no = n
    <2>1. \A n \in S : \E i \in T : queue[i].from = c /\ queue[i].no = n
      BY DEF AlertInv, AlertsConserved, NothingMissing
    <2>2. QED
      BY <2>1
  <1>4. f \in [S -> T]
    BY <1>3
  <1> HIDE DEF S, T, f
  <1>5. ~ (Cardinality(T) < Cardinality(S))
    <2>1. SUFFICES ASSUME Cardinality(T) < Cardinality(S) PROVE FALSE
      OBVIOUS
    <2>2. PICK m, n \in S : m # n /\ f[m] = f[n]
      BY <1>2, <1>4, <2>1, FS_PigeonHole
    <2>3. QED
      BY <1>3, <2>2
  <1>6. QED
    BY <1>1, <1>2, <1>5

\* Logging a text with a '!' raises an alert; any other changes nothing of the path.
LEMMA WriteRaises ==
  ASSUME TypeOK, AlertInv, NEW c \in Servers, NEW part, WriteTakes(c, part),
         UNCHANGED displayOwn
  PROVE  [Path!Next]_Path!vars
  <1>1. ~ InHand(c)
    BY DEF WriteTakes, CAt, InHand
  <1>2. CASE ~ HasBang(chunk[c])
    BY <1>2 DEF WriteTakes, Path!vars, displayOwn
  <1>3. CASE HasBang(chunk[c])
    <2>1. alerts' = [alerts EXCEPT ![c] = Append(@, chunk[c])] /\ UNCHANGED <<received, in_buffer>>
      BY <1>3 DEF WriteTakes, displayOwn
    <2>2. alerts \in [Servers -> Seq(Seq(Cells))] /\ chunk[c] \in Seq(Cells)
      BY DEF TypeOK, ClientTypeOK
    <2>3. /\ Len(alerts'[c]) = Len(alerts[c]) + 1
          /\ alerts'[c][Len(alerts[c]) + 1] = chunk[c]
      BY <2>1, <2>2, AppendProperties
    <2>4. Path!Raise(c)
      BY <1>1, <1>3, <2>1, <2>2, <2>3, WaitingFits DEF Path!Raise
    <2>5. QED
      BY <2>4 DEF Path!Next
  <1>4. QED
    BY <1>2, <1>3

\* mq_receive() takes the next alert of the server it comes from.
LEMMA ReceiveTakes ==
  ASSUME TypeOK, AlertInv, Receive, UNCHANGED <<linkVars, ownVars>>
  PROVE  Path!Next
  <1>1. queue # <<>> /\ Head(queue) = queue[1]
    BY HeadTailProperties DEF Receive, MqReceive, TypeOK, QueueTypeOK
  <1>2. PICK c \in Servers : c = queue[1].from
    BY <1>1, OldestFirst
  <1>3. /\ received' = [received EXCEPT ![c] = @ + 1]
        /\ in_buffer' = queue[1].text
        /\ UNCHANGED alerts
    BY <1>1, <1>2 DEF Receive, ownVars
  <1>4. /\ received[c] < Len(alerts[c])
        /\ queue[1].text = alerts[c][received[c] + 1]
    BY <1>1, <1>2, OldestFirst, Lengths
  <1>5. Path!Take(c)
    BY <1>3, <1>4 DEF Path!Take
  <1>6. QED
    BY <1>5 DEF Path!Next

LEMMA PathStep ==
  TypeOK /\ AlertInv /\ [Next]_vars => [Path!Next]_Path!vars
  <1> SUFFICES ASSUME TypeOK, AlertInv, [Next]_vars PROVE [Path!Next]_Path!vars
    OBVIOUS
  <1>1. ASSUME NEW c \in Servers, Write(c) \/ WriteShort(c), UNCHANGED displayOwn
        PROVE  [Path!Next]_Path!vars
    BY <1>1, WritesAPart, WriteRaises DEF TypeOK
  <1>2. CASE Receive /\ UNCHANGED <<linkVars, ownVars>>
    BY <1>2, ReceiveTakes
  <1>3. CASE DisplayStart /\ UNCHANGED <<linkVars, ownVars>>
    BY <1>3 DEF DisplayStart, ownVars, Path!Next, Path!Forget
  <1>4. CASE UNCHANGED <<alerts, received, in_buffer>>
    BY <1>4 DEF Path!vars
  <1>5. ASSUME NEW c \in Servers, Connect(c) \/ ClientThread(c), UNCHANGED displayOwn
        PROVE  [Path!Next]_Path!vars
    BY <1>1, <1>4, <1>5
    DEF Connect, ClientThread, Recv, RecvNothing, LockFile, WriteFails, UnlockFile, Forward,
        displayOwn
  <1>6. CASE Display
    BY <1>2, <1>3, <1>4, <1>6
    DEF Display, DisplayNext, DisplayCrash, PrintOnLcd, LedOn, LedOff, ownVars
  <1>7. CASE Client
    BY <1>4, <1>5, <1>7
    DEF Client, ClientNext, ClientStart, ConnectFails, ClientSignal, displayOwn
  <1>8. QED
    BY <1>4, <1>6, <1>7 DEF Next, Emit, ServerEnds, vars, clientVars, ownVars, displayOwn

LEMMA PathInit == Init => Path!Init
  BY DEF Init, ClientInit, DisplayInit, Path!Init

LEMMA AlertInvariant == Spec => []AlertInv
  BY AlertInit, AlertStep, TypeCorrect, ThreadInvariant, PTL DEF Spec

\* For every number of servers, size of the queue, cut and fault, client, queue and
\* display implement AlertPath: the display takes each server's alerts as they were
\* logged, in their order, and the log is never more than the full queue and one
\* alert ahead of it.
THEOREM AlertsTakeThePath == Spec => PathPromise
  BY PathInit, PathStep, AlertInvariant, TypeCorrect, PTL DEF Spec, PathPromise, Path!Spec
=============================================================================
