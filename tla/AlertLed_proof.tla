--------------------------- MODULE AlertLed_proof ---------------------------
(***************************************************************************)
(* Proofs of LedTruth and LedsTellAlerts: where recv() cuts the lines of   *)
(* the servers, and joins them, never makes the display light another      *)
(* sensor's LED, as long as send() took whole lines; and an LED that stays *)
(* on belongs to an alert that was shown.                                  *)
(***************************************************************************)
EXTENDS AlertPipeline_proof, WellFoundedInduction

-----------------------------------------------------------------------------
(***************************************************************************)
(* What the display finds in a text.                                       *)
(***************************************************************************)
\* The digit of a sensor stands behind the mark of the same reading.
IdFollows(text) ==
  \A i \in 1..Len(text) : \A j \in 1..Len(text) :
    j = i + 1 /\ text[j].part = "id" => text[i].part = "mark" /\ text[i].of = text[j].of

\* And behind a mark stands nothing else.
MarkLeads(text) ==
  \A i \in 1..Len(text) : \A j \in 1..Len(text) :
    j = i + 1 /\ text[i].part = "mark" => text[j].part = "id"

\* A set of natural numbers has a smallest one.
LEMMA Smallest ==
  ASSUME NEW T, T \subseteq Nat, T # {}
  PROVE  \E m \in T : \A k \in T : m <= k
  <1>1. PICK m \in T : \A k \in T : ~ (<<k, m>> \in OpToRel(<, Nat))
    BY NatLessThanWellFounded, WFMin, Zenon
  <1>2. \A k \in T : ~ (k < m)
    BY <1>1 DEF OpToRel
  <1>3. QED
    BY <1>2

LEMMA BangFound ==
  ASSUME NEW text \in Seq(Cells), HasBang(text)
  PROVE  BangPlace(text) \in 1..Len(text) /\ Bang(text[BangPlace(text)])
  <1> DEFINE T == {h \in 1..Len(text) : Bang(text[h])}
  <1>1. Len(text) \in Nat
    BY LenProperties
  <1>2. T \subseteq Nat /\ T # {}
    BY DEF HasBang
  <1>3. PICK m \in T : \A k \in T : m <= k
    <2> HIDE DEF T
    <2>1. QED
      BY <1>2, Smallest
  <1>4. /\ m \in 1..(Len(text) + 1)
        /\ m <= Len(text) => Bang(text[m])
        /\ \A h \in 1..(m - 1) : ~ Bang(text[h])
    BY <1>1, <1>3
  <1>5. /\ BangPlace(text) \in 1..(Len(text) + 1)
        /\ BangPlace(text) <= Len(text) => Bang(text[BangPlace(text)])
        /\ \A h \in 1..(BangPlace(text) - 1) : ~ Bang(text[h])
    <2> DEFINE P(i) == /\ i <= Len(text) => Bang(text[i])
                       /\ \A h \in 1..(i - 1) : ~ Bang(text[h])
    <2>1. \E i \in 1..(Len(text) + 1) : P(i)
      BY <1>4
    <2>2. BangPlace(text) = CHOOSE i \in 1..(Len(text) + 1) : P(i)
      BY DEF BangPlace
    <2> HIDE DEF P
    <2>3. BangPlace(text) \in 1..(Len(text) + 1) /\ P(BangPlace(text))
      BY <2>1, <2>2, Zenon
    <2>4. QED
      BY <2>3 DEF P
  <1>6. BangPlace(text) # Len(text) + 1
    BY <1>1, <1>3, <1>5
  <1>7. QED
    BY <1>1, <1>5, <1>6

\* From the mark of an alert on, the first digit is its sensor's, if there is one.
LEMMA LedOfAlert ==
  ASSUME NEW text \in Seq(Cells), HasBang(text), IdFollows(text), MarkLeads(text),
         LedOf(text) # 0
  PROVE  /\ LedOf(text) = text[BangPlace(text)].of.sensor
         /\ BangPlace(text) <= DigitPlace(text)
  <1> DEFINE b == BangPlace(text)
             P(j) == /\ j <= Len(text) => text[j].part # "mark"
                     /\ \A h \in b..(j - 1) : text[h].part = "mark"
  <1>1. /\ Len(text) \in Nat /\ b \in 1..Len(text)
        /\ text[b].part = "mark"
    BY LenProperties, BangFound DEF Bang
  <1>2. DigitPlace(text) = CHOOSE j \in b..(Len(text) + 1) : P(j)
    BY DEF DigitPlace
  <1> HIDE DEF b
  <1>3. b + 1 <= Len(text) => text[b + 1].part = "id" /\ text[b + 1].of = text[b].of
    <2>1. SUFFICES ASSUME b + 1 <= Len(text)
                   PROVE  text[b + 1].part = "id" /\ text[b + 1].of = text[b].of
      OBVIOUS
    <2>2. b + 1 \in 1..Len(text)
      BY <1>1, <2>1
    <2>3. QED
      BY <1>1, <2>2 DEF IdFollows, MarkLeads
  <1>4. b + 1 \in b..(Len(text) + 1) /\ P(b + 1)
    BY <1>1, <1>3
  <1>5. \A j \in b..(Len(text) + 1) : P(j) => j = b + 1
    <2>1. SUFFICES ASSUME NEW j \in b..(Len(text) + 1), P(j), j # b + 1 PROVE FALSE
      OBVIOUS
    <2>2. CASE j = b
      BY <1>1, <2>1, <2>2
    <2>3. CASE j > b + 1
      <3>1. b + 1 \in b..(j - 1) /\ b + 1 <= Len(text)
        BY <1>1, <2>1, <2>3
      <3>2. QED
        BY <1>3, <2>1, <3>1
    <2>4. QED
      BY <1>1, <2>1, <2>2, <2>3
  <1> HIDE DEF P
  <1>6. DigitPlace(text) = b + 1
    BY <1>2, <1>4, <1>5, Zenon
  <1>7. b + 1 <= Len(text)
    BY <1>1, <1>6 DEF LedOf
  <1>8. QED
    BY <1>1, <1>3, <1>6, <1>7 DEF LedOf, b

-----------------------------------------------------------------------------
(***************************************************************************)
(* What the servers send.                                                  *)
(***************************************************************************)
\* Whole lines: a digit behind each mark.
LEMMA WholeLinesMark ==
  ASSUME NEW text \in Seq(Cells), WholeLines(text)
  PROVE  MarkLeads(text)
  <1> SUFFICES ASSUME NEW i \in 1..Len(text), NEW j \in 1..Len(text),
                      j = i + 1, text[i].part = "mark"
               PROVE  text[j].part = "id"
    BY DEF MarkLeads
  <1>1. i \in Nat /\ i >= 1 /\ Len(text) \in Nat
    BY LenProperties
  <1>2. /\ text[i].part = <<"stamp", "mark", "id">>[((i - 1) % 3) + 1]
        /\ text[j].part = <<"stamp", "mark", "id">>[((j - 1) % 3) + 1]
    BY DEF WholeLines
  <1>3. (i - 1) % 3 \in 0..2 /\ j - 1 = (i - 1) + 1
    BY <1>1
  <1>4. (i - 1) % 3 = 1
    BY <1>2, <1>3
  <1>5. (j - 1) % 3 = 2
    BY <1>1, <1>3, <1>4
  <1>6. QED
    BY <1>2, <1>5

\* A cut of a line, behind what was sent.
LEMMA LineFollows ==
  ASSUME NEW text \in Seq(Cells), IdFollows(text), NEW r \in Readings, NEW n \in 1..3
  PROVE  /\ IdFollows(text \o Prefix(Format(r), n))
         /\ WholeLines(text \o Prefix(Format(r), n)) => WholeLines(text)
  <1> DEFINE cut == Prefix(Format(r), n)
             more == text \o cut
  <1>1. /\ cut \in Seq(Cells) /\ Len(cut) = n /\ \A i \in 1..n : cut[i] = Format(r)[i]
    <2>1. \A i \in 1..n : Format(r)[i] \in Cells
      BY FormatType, ElementOfSeq
    <2>2. QED
      BY <2>1, SubSeqProperties DEF Prefix
  <1> HIDE DEF cut
  <1>2. /\ Len(text) \in Nat
        /\ Len(more) = Len(text) + n
        /\ \A i \in 1..Len(text) : more[i] = text[i]
        /\ \A i \in 1..n : more[Len(text) + i] = cut[i]
    BY <1>1, ConcatProperties, LenProperties
  <1> HIDE DEF more
  <1>3. IdFollows(more)
    <2> SUFFICES ASSUME NEW i \in 1..Len(more), NEW j \in 1..Len(more),
                        j = i + 1, more[j].part = "id"
                 PROVE  more[i].part = "mark" /\ more[i].of = more[j].of
      BY DEF IdFollows
    <2>1. CASE j <= Len(text)
      <3>1. i \in 1..Len(text) /\ j \in 1..Len(text)
        BY <1>2, <2>1
      <3>2. QED
        BY <1>2, <3>1 DEF IdFollows
    <2>2. CASE j > Len(text)
      <3>1. PICK k \in 1..n : j = Len(text) + k
        <4>1. j - Len(text) \in 1..n /\ j = Len(text) + (j - Len(text))
          BY <1>2, <2>2
        <4>2. QED
          BY <4>1
      <3>2. more[j] = Format(r)[k]
        BY <1>1, <1>2, <3>1
      <3>3. k = 3
        BY <3>2 DEF Format
      <3>4. 2 \in 1..n /\ i = Len(text) + 2
        BY <1>2, <3>1, <3>3
      <3>5. more[i] = Format(r)[2]
        BY <1>1, <1>2, <3>4
      <3>6. QED
        BY <3>2, <3>3, <3>5 DEF Format
    <2>3. QED
      BY <1>2, <2>1, <2>2
  <1>4. WholeLines(more) => WholeLines(text)
    BY <1>2 DEF WholeLines
  <1>5. QED
    BY <1>3, <1>4 DEF more, cut

\* A part of what was sent.
LEMMA PartFollows ==
  ASSUME NEW text \in Seq(Cells), NEW k \in Nat, NEW part \in Seq(Cells),
         k + Len(part) <= Len(text),
         \A i \in 1..Len(part) : part[i] = text[k + i]
  PROVE  /\ IdFollows(text) => IdFollows(part)
         /\ MarkLeads(text) => MarkLeads(part)
  <1>1. Len(text) \in Nat /\ Len(part) \in Nat
    BY LenProperties
  <1>2. \A i \in 1..Len(part) : k + i \in 1..Len(text)
    BY <1>1
  <1>3. \A i \in 1..Len(part) : \A j \in 1..Len(part) : j = i + 1 => k + j = (k + i) + 1
    BY <1>1
  <1>4. IdFollows(text) => IdFollows(part)
    BY <1>2, <1>3 DEF IdFollows
  <1>5. MarkLeads(text) => MarkLeads(part)
    <2> SUFFICES ASSUME MarkLeads(text), NEW i \in 1..Len(part), NEW j \in 1..Len(part),
                        j = i + 1, part[i].part = "mark"
                 PROVE  part[j].part = "id"
      BY DEF MarkLeads
    <2>1. /\ part[i] = text[k + i] /\ part[j] = text[k + j]
          /\ k + i \in 1..Len(text) /\ k + j \in 1..Len(text) /\ k + j = (k + i) + 1
      BY <1>2, <1>3
    <2>2. QED
      BY <2>1 DEF MarkLeads
  <1>6. QED
    BY <1>4, <1>5

-----------------------------------------------------------------------------
(***************************************************************************)
(* The invariant: every text on its way is like what its server sent.      *)
(***************************************************************************)
Reads(c, text) ==
  IdFollows(text) /\ (WholeLines(sent[c]) => MarkLeads(text))

AtHand ==
  \E c \in Servers : Reads(c, in_buffer) /\ HasBang(in_buffer)

LedInv ==
  /\ \A c \in Servers : IdFollows(sent[c]) /\ Reads(c, chunk[c])
  /\ \A c \in Servers : \A n \in 1..Len(alerts[c]) :
       Reads(c, alerts[c][n]) /\ HasBang(alerts[c][n])
  /\ dpc # "receive" => AtHand
  /\ dpc \in {"on", "off"} => LedOf(in_buffer) # 0

LEMMA LedInvHolds == TypeOK /\ LedInv => LedTruth
  <1> SUFFICES ASSUME TypeOK, LedInv, dpc \in {"on", "off"},
                      \A c \in Servers : WholeLines(sent[c])
               PROVE  LedOf(in_buffer) = in_buffer[BangPlace(in_buffer)].of.sensor
    BY DEF LedTruth
  <1>1. PICK c \in Servers : Reads(c, in_buffer) /\ HasBang(in_buffer)
    BY DEF LedInv, AtHand
  <1>2. in_buffer \in Seq(Cells) /\ LedOf(in_buffer) # 0
    BY DEF TypeOK, LedInv
  <1>3. QED
    BY <1>1, <1>2, LedOfAlert DEF Reads

LEMMA EmptyReads == ASSUME NEW c \in Servers PROVE Reads(c, <<>>)
  <1>1. Len(<<>>) = 0
    BY EmptySeq
  <1>2. QED
    BY <1>1 DEF Reads, IdFollows, MarkLeads

LEMMA LedInit == Init => LedInv
  <1> SUFFICES ASSUME Init PROVE LedInv
    OBVIOUS
  <1>1. /\ dpc = "receive" /\ Len(<<>>) = 0
        /\ \A c \in Servers : sent[c] = <<>> /\ chunk[c] = <<>> /\ alerts[c] = <<>>
    BY EmptySeq DEF Init, ClientInit, DisplayInit
  <1>2. QED
    BY <1>1, EmptyReads DEF LedInv, Reads

\* Nothing but the threads and the display's steps touch the texts on their way.
LEMMA LedUntouched ==
  ASSUME LedInv, UNCHANGED <<sent, chunk, alerts, dpc, in_buffer>>
  PROVE  LedInv'
  BY DEF LedInv, AtHand, Reads

\* What was sent of whole lines was whole lines before.
LEMMA EmitFollows ==
  ASSUME TypeOK, LedInv, NEW c \in Servers, Emit(c)
  PROVE  \A d \in Servers :
           IdFollows(sent'[d]) /\ (WholeLines(sent'[d]) => WholeLines(sent[d]))
  <1>1. PICK r \in Readings, n \in Cuts :
          sent' = [sent EXCEPT ![c] = @ \o Prefix(Format(r), n)]
    BY DEF Emit
  <1>2. n \in 1..3 /\ sent[c] \in Seq(Cells) /\ IdFollows(sent[c])
    BY PipelineAssumption DEF TypeOK, ClientTypeOK, LedInv
  <1> TAKE d \in Servers
  <1>3. CASE d = c
    <2>1. sent'[c] = sent[c] \o Prefix(Format(r), n)
      BY <1>1 DEF TypeOK, ClientTypeOK
    <2>2. QED
      BY <1>2, <1>3, <2>1, LineFollows
  <1>4. CASE d # c
    BY <1>1, <1>4 DEF TypeOK, ClientTypeOK, LedInv
  <1>5. QED
    BY <1>3, <1>4

LEMMA EmitKeepsLed ==
  ASSUME TypeOK, LedInv, NEW c \in Servers, Emit(c)
  PROVE  LedInv'
  <1>1. \A d \in Servers :
          IdFollows(sent'[d]) /\ (WholeLines(sent'[d]) => WholeLines(sent[d]))
    BY EmitFollows
  <1>2. UNCHANGED <<chunk, alerts, dpc, in_buffer>>
    BY DEF Emit, ownVars, displayOwn
  <1>3. AtHand => AtHand'
    BY <1>1, <1>2 DEF AtHand, Reads
  <1>4. QED
    BY <1>1, <1>2, <1>3 DEF LedInv, Reads

LEMMA ThreadKeepsLed ==
  ASSUME TypeOK, LedInv, NEW c \in Servers, Connect(c) \/ ClientThread(c), UNCHANGED displayOwn
  PROVE  LedInv'
  <1> USE DEF linkVars, displayOwn
  <1>1. CASE Recv(c)
    <2>1. PICK n \in 1..ChunkCells :
            /\ taken[c] + n <= Len(sent[c])
            /\ chunk' = [chunk EXCEPT ![c] = Prefix(InFlight(c), n)]
      BY <1>1 DEF Recv
    <2>2. /\ n \in Nat /\ taken[c] \in Nat /\ Len(sent[c]) \in Nat /\ sent[c] \in Seq(Cells)
      BY LenProperties, ClientAssumption DEF TypeOK, ClientTypeOK
    <2>3. /\ \A i \in 1..(Len(sent[c]) - taken[c]) : InFlight(c)[i] = sent[c][taken[c] + i]
          /\ InFlight(c) \in Seq(Cells) /\ Len(InFlight(c)) = Len(sent[c]) - taken[c]
      BY InFlightType DEF TypeOK
    <2> DEFINE part == Prefix(InFlight(c), n)
    <2>4. part \in Seq(Cells) /\ Len(part) = n /\ \A i \in 1..n : part[i] = InFlight(c)[i]
      <3>1. \A i \in 1..n : InFlight(c)[i] \in Cells
        BY <2>1, <2>2, <2>3, ElementOfSeq
      <3>2. QED
        BY <2>2, <3>1, SubSeqProperties DEF Prefix
    <2> HIDE DEF part
    <2>5. \A i \in 1..Len(part) : part[i] = sent[c][taken[c] + i]
      BY <2>1, <2>2, <2>3, <2>4
    <2>6. Reads(c, part)
      <3>1. taken[c] + Len(part) <= Len(sent[c])
        BY <2>1, <2>4
      <3>2. /\ IdFollows(sent[c]) => IdFollows(part)
            /\ MarkLeads(sent[c]) => MarkLeads(part)
        BY <2>2, <2>4, <2>5, <3>1, PartFollows
      <3>3. QED
        BY <2>2, <3>2, WholeLinesMark DEF Reads, LedInv
    <2>7. /\ UNCHANGED <<sent, alerts, dpc, in_buffer>>
          /\ chunk'[c] = part /\ \A d \in Servers \ {c} : chunk'[d] = chunk[d]
      BY <1>1, <2>1 DEF Recv, ownVars, TypeOK, ClientTypeOK, part
    <2>8. \A d \in Servers : Reads(d, chunk'[d])
      BY <2>6, <2>7 DEF LedInv
    <2>9. QED
      BY <2>7, <2>8 DEF LedInv, Reads, AtHand
  <1>2. CASE RecvNothing(c)
    <2>1. /\ UNCHANGED <<sent, alerts, dpc, in_buffer>>
          /\ chunk'[c] = <<>> /\ \A d \in Servers \ {c} : chunk'[d] = chunk[d]
      BY <1>2 DEF RecvNothing, TypeOK, ClientTypeOK
    <2>2. \A d \in Servers : Reads(d, chunk'[d])
      BY <2>1, EmptyReads DEF LedInv
    <2>3. QED
      BY <2>1, <2>2 DEF LedInv, Reads, AtHand
  <1>3. ASSUME NEW part, WriteTakes(c, part), HasBang(chunk[c]) PROVE LedInv'
    <2>1. /\ UNCHANGED <<sent, chunk, dpc, in_buffer>>
          /\ alerts'[c] = Append(alerts[c], chunk[c])
          /\ \A d \in Servers \ {c} : alerts'[d] = alerts[d]
      BY <1>3 DEF WriteTakes, TypeOK, ClientTypeOK
    <2>2. /\ Len(alerts[c]) \in Nat
          /\ Len(alerts'[c]) = Len(alerts[c]) + 1
          /\ alerts'[c][Len(alerts[c]) + 1] = chunk[c]
          /\ \A n \in 1..Len(alerts[c]) : alerts'[c][n] = alerts[c][n]
      BY <2>1, AppendProperties, Lengths DEF TypeOK, ClientTypeOK
    <2>3. \A d \in Servers : \A n \in 1..Len(alerts'[d]) :
            Reads(d, alerts'[d][n]) /\ HasBang(alerts'[d][n])
      <3> TAKE d \in Servers
      <3> TAKE n \in 1..Len(alerts'[d])
      <3>1. CASE d # c
        BY <2>1, <3>1 DEF LedInv
      <3>2. CASE d = c /\ n = Len(alerts[c]) + 1
        BY <1>3, <2>2, <3>2 DEF LedInv
      <3>3. CASE d = c /\ n # Len(alerts[c]) + 1
        <4>1. n \in 1..Len(alerts[c])
          BY <2>2, <3>3
        <4>2. QED
          BY <2>2, <3>3, <4>1 DEF LedInv
      <3>4. QED
        BY <3>1, <3>2, <3>3
    <2>4. QED
      BY <2>1, <2>3 DEF LedInv, Reads, AtHand
  <1>4. ASSUME NEW part, WriteTakes(c, part), ~ HasBang(chunk[c]) PROVE LedInv'
    BY <1>4, LedUntouched DEF WriteTakes
  <1>5. CASE Connect(c) \/ LockFile(c) \/ WriteFails(c) \/ UnlockFile(c) \/ Forward(c)
    BY <1>5, LedUntouched DEF Connect, LockFile, WriteFails, UnlockFile, Forward
  <1>6. CASE Write(c) \/ WriteShort(c)
    BY <1>3, <1>4, <1>6, WritesAPart DEF TypeOK
  <1>7. QED
    BY <1>1, <1>2, <1>5, <1>6 DEF ClientThread

LEMMA DisplayKeepsLed ==
  ASSUME TypeOK, AlertInv, LedInv, DisplayNext, UNCHANGED <<linkVars, ownVars>>
  PROVE  LedInv'
  <1> USE DEF linkVars, ownVars
  <1>1. CASE Receive
    <2>1. queue # <<>> /\ Head(queue) = queue[1]
      BY <1>1, HeadTailProperties DEF Receive, MqReceive, TypeOK, QueueTypeOK
    <2>2. PICK c \in Servers : c = queue[1].from
      BY <2>1, OldestFirst
    <2>3. /\ received[c] + 1 \in 1..Len(alerts[c])
          /\ in_buffer' = alerts[c][received[c] + 1]
      BY <1>1, <2>1, <2>2, OldestFirst, Lengths DEF Receive
    <2>4. UNCHANGED <<sent, chunk, alerts>> /\ dpc' = "print"
      BY <1>1 DEF Receive
    <2>5. Reads(c, in_buffer') /\ HasBang(in_buffer')
      BY <2>3 DEF LedInv
    <2>6. AtHand'
      BY <2>4, <2>5 DEF AtHand, Reads
    <2>7. QED
      BY <2>4, <2>6 DEF LedInv, Reads
  <1>2. CASE DisplayStart
    BY <1>2 DEF DisplayStart, LedInv, Reads
  <1>3. CASE PrintOnLcd
    <2>1. /\ UNCHANGED <<sent, chunk, alerts, in_buffer>> /\ dpc = "print"
          /\ dpc' = IF LedOf(in_buffer) = 0 THEN "receive" ELSE "on"
      BY <1>3 DEF PrintOnLcd, DAt
    <2>2. LedOf(in_buffer)' = LedOf(in_buffer)
      BY <2>1
    <2>3. QED
      BY <2>1, <2>2 DEF LedInv, AtHand, Reads
  <1>4. CASE LedOn
    <2>1. /\ UNCHANGED <<sent, chunk, alerts, in_buffer>>
          /\ dpc = "on" /\ dpc' \in {"off", "receive"}
      BY <1>4 DEF LedOn, DAt
    <2>2. QED
      BY <2>1 DEF LedInv, AtHand, Reads
  <1>5. CASE LedOff
    <2>1. UNCHANGED <<sent, chunk, alerts, in_buffer>> /\ dpc' = "receive"
      BY <1>5 DEF LedOff
    <2>2. QED
      BY <2>1 DEF LedInv, Reads
  <1>6. CASE DisplayCrash
    BY <1>6, LedUntouched DEF DisplayCrash
  <1>7. QED
    BY <1>1, <1>2, <1>3, <1>4, <1>5, <1>6 DEF DisplayNext

LEMMA LedStep == TypeOK /\ AlertInv /\ LedInv /\ [Next]_vars => LedInv'
  <1> SUFFICES ASSUME TypeOK, AlertInv, LedInv, [Next]_vars PROVE LedInv'
    OBVIOUS
  <1>1. CASE \E c \in Servers : Emit(c)
    BY <1>1, EmitKeepsLed
  <1>2. ASSUME NEW c \in Servers, Connect(c) \/ ClientThread(c), UNCHANGED displayOwn
        PROVE  LedInv'
    BY <1>2, ThreadKeepsLed
  <1>3. CASE Display
    BY <1>3, DisplayKeepsLed DEF Display
  <1>4. CASE UNCHANGED <<sent, chunk, alerts, dpc, in_buffer>>
    BY <1>4, LedUntouched
  <1>5. QED
    BY <1>1, <1>2, <1>3, <1>4
    DEF Next, Client, ClientNext, ClientStart, ConnectFails, ClientSignal, ServerEnds, vars,
        clientVars, linkVars, ownVars, displayOwn

\* For every number of servers and size of the queue and the receive buffer, with every
\* fault: when send() took whole lines, the LED that is lit is the one of the sensor
\* whose alert is on the LCD, wherever recv() cut the lines and joined them.
THEOREM LedIsTrue == Spec => []LedTruth
  <1>1. Spec => []AlertInv
    BY AlertInit, AlertStep, TypeCorrect, ThreadInvariant, PTL DEF Spec
  <1>2. QED
    BY LedInit, LedStep, LedInvHolds, TypeCorrect, <1>1, PTL DEF Spec

-----------------------------------------------------------------------------
(***************************************************************************)
(* The LEDs that stay on.  Between the print and the LED, the alert whose  *)
(* LED it is has been shown.                                               *)
(***************************************************************************)
Whole == \A c \in Servers : WholeLines(sent[c])

FirstShown == in_buffer[BangPlace(in_buffer)].of \in shown

LitInv ==
  Whole =>
    /\ \A s \in Leds : led[s] = 1 => \E r \in shown : r.alert /\ r.sensor = s
    /\ dpc \in {"on", "off"} => FirstShown

LEMMA LitInit == Init => LitInv
  BY DEF Init, DisplayInit, LitInv

\* What the display has in its hands is an alert's, when the lines were whole.
LEMMA HandOfAlert ==
  ASSUME TypeOK, LedInv, Whole, dpc # "receive"
  PROVE  /\ BangPlace(in_buffer) \in 1..Len(in_buffer)
         /\ Bang(in_buffer[BangPlace(in_buffer)])
         /\ LedOf(in_buffer) # 0 =>
              /\ LedOf(in_buffer) = in_buffer[BangPlace(in_buffer)].of.sensor
              /\ BangPlace(in_buffer) <= DigitPlace(in_buffer)
  <1>1. PICK c \in Servers : Reads(c, in_buffer) /\ HasBang(in_buffer)
    BY DEF LedInv, AtHand
  <1>2. in_buffer \in Seq(Cells) /\ IdFollows(in_buffer) /\ MarkLeads(in_buffer)
    BY <1>1 DEF TypeOK, Reads, Whole
  <1>3. QED
    BY <1>1, <1>2, BangFound, LedOfAlert

\* No LED goes on, and what is in hand and what was shown stays.
LEMMA LitUntouched ==
  ASSUME LitInv, Whole' => Whole, UNCHANGED <<dpc, in_buffer, shown>>,
         \A s \in Leds : led'[s] = 1 => led[s] = 1
  PROVE  LitInv'
  BY DEF LitInv, FirstShown

LEMMA DisplayKeepsLit ==
  ASSUME TypeOK, LedInv, LitInv, DisplayNext, UNCHANGED <<linkVars, ownVars>>
  PROVE  LitInv'
  <1>1. UNCHANGED sent /\ (Whole' => Whole)
    BY DEF linkVars, Whole
  <1>2. CASE Receive
    BY <1>1, <1>2 DEF Receive, LitInv
  <1>3. CASE DisplayStart
    BY <1>1, <1>3 DEF DisplayStart, LitInv
  <1>4. CASE DisplayCrash
    BY <1>1, <1>4, LitUntouched DEF DisplayCrash
  <1>5. CASE PrintOnLcd
    <2> SUFFICES ASSUME Whole
                 PROVE  /\ \A s \in Leds : led'[s] = 1 =>
                             \E r \in shown' : r.alert /\ r.sensor = s
                        /\ dpc' \in {"on", "off"} => FirstShown'
      BY <1>1 DEF LitInv
    <2>1. /\ dpc = "print" /\ UNCHANGED <<in_buffer, led>>
          /\ dpc' = IF LedOf(in_buffer) = 0 THEN "receive" ELSE "on"
          /\ shown' = shown \cup {in_buffer[h].of : h \in OnLcd(in_buffer)}
      BY <1>5 DEF PrintOnLcd, DAt
    <2>2. LedOf(in_buffer) # 0 => BangPlace(in_buffer) \in OnLcd(in_buffer)
      BY <2>1, HandOfAlert DEF OnLcd, Places
    <2>3. LedOf(in_buffer) # 0 => FirstShown'
      BY <2>1, <2>2 DEF FirstShown
    <2>4. QED
      BY <2>1, <2>3 DEF LitInv
  <1>6. CASE LedOn
    <2> SUFFICES ASSUME Whole
                 PROVE  /\ \A s \in Leds : led'[s] = 1 =>
                             \E r \in shown' : r.alert /\ r.sensor = s
                        /\ dpc' \in {"on", "off"} => FirstShown'
      BY <1>1 DEF LitInv
    <2> DEFINE r == in_buffer[BangPlace(in_buffer)].of
    <2>1. /\ dpc = "on" /\ UNCHANGED <<in_buffer, shown>>
          /\ led' = [led EXCEPT ![LedOf(in_buffer)] = 1] \/ led' = led
      BY <1>6 DEF LedOn, DAt
    <2>2. r \in shown /\ r.alert /\ LedOf(in_buffer) = r.sensor
      BY <2>1, HandOfAlert DEF LitInv, FirstShown, LedInv, Bang
    <2> HIDE DEF r
    <2>3. FirstShown'
      BY <2>1, <2>2 DEF FirstShown, r
    <2>4. \A s \in Leds : led'[s] = 1 => \E q \in shown : q.alert /\ q.sensor = s
      BY <2>1, <2>2 DEF LitInv, TypeOK
    <2>5. QED
      BY <2>1, <2>3, <2>4
  <1>7. CASE LedOff
    <2>1. /\ dpc' = "receive" /\ UNCHANGED <<in_buffer, shown>>
          /\ led' = [led EXCEPT ![LedOf(in_buffer)] = 0] \/ led' = led
      BY <1>7 DEF LedOff
    <2>2. \A s \in Leds : led'[s] = 1 => led[s] = 1
      BY <2>1 DEF TypeOK
    <2>3. QED
      BY <1>1, <2>1, <2>2 DEF LitInv
  <1>8. QED
    BY <1>2, <1>3, <1>4, <1>5, <1>6, <1>7 DEF DisplayNext

LEMMA LitStep == TypeOK /\ LedInv /\ LitInv /\ [Next]_vars => LitInv'
  <1> SUFFICES ASSUME TypeOK, LedInv, LitInv, [Next]_vars PROVE LitInv'
    OBVIOUS
  <1>1. ASSUME NEW c \in Servers, Emit(c) PROVE LitInv'
    <2>1. Whole' => Whole
      BY <1>1, EmitFollows DEF Whole
    <2>2. QED
      BY <1>1, <2>1, LitUntouched DEF Emit, displayOwn
  <1>2. CASE Display
    BY <1>2, DisplayKeepsLit DEF Display
  <1>3. CASE UNCHANGED <<sent, displayOwn>>
    BY <1>3, LitUntouched DEF displayOwn, Whole
  <1>4. CASE Client
    <2>1. ASSUME NEW c \in Servers, Connect(c) \/ ClientThread(c) PROVE UNCHANGED sent
      BY <2>1 DEF Connect, ClientThread, Recv, RecvNothing, LockFile, Write, WriteShort,
         WriteTakes, WriteFails, UnlockFile, Forward, linkVars
    <2>2. UNCHANGED sent
      BY <1>4, <2>1 DEF Client, ClientNext, ClientStart, ConnectFails, ClientSignal, linkVars
    <2>3. QED
      BY <1>3, <1>4, <2>2 DEF Client
  <1>5. QED
    BY <1>1, <1>2, <1>3, <1>4 DEF Next, ServerEnds, vars, clientVars, linkVars

\* For every number of servers and size of the queue and the receive buffer, with every
\* failing pin, killed display and fault: when send() took whole lines, an LED that is
\* on, however long it stays so, is the one of a sensor whose alert was shown.
THEOREM LedsAreAlerts == Spec => []LedsTellAlerts
  <1>1. Spec => []AlertInv
    BY AlertInit, AlertStep, TypeCorrect, ThreadInvariant, PTL DEF Spec
  <1>2. Spec => []LedInv
    BY LedInit, LedStep, TypeCorrect, <1>1, PTL DEF Spec
  <1>3. LitInv => LedsTellAlerts
    BY DEF LitInv, LedsTellAlerts, Whole
  <1>4. QED
    BY LitInit, LitStep, <1>2, <1>3, TypeCorrect, PTL DEF Spec
=============================================================================
