--------------------------- MODULE PipelineLog_proof ---------------------------
(***************************************************************************)
(* The log file: with a disk that takes every write(), it is, of every     *)
(* server, the text that its thread received and is not about to write.    *)
(***************************************************************************)
EXTENDS AlertPipeline_proof

\* What a thread has received and not yet written.
Unwritten(c) == IF BeforeWrite(c) THEN chunk[c] ELSE <<>>
LogOf(c) == logged[c] \o Unwritten(c) = Prefix(sent[c], taken[c])

\* Text between two places of a text, as recv() cuts it.
LEMMA PrefixGrows ==
  ASSUME NEW text \in Seq(Cells), NEW k \in 0..Len(text), NEW n \in Nat, k + n <= Len(text)
  PROVE  Prefix(text, k) \o Prefix(SubSeq(text, k + 1, Len(text)), n) = Prefix(text, k + n)
  <1> DEFINE rest == SubSeq(text, k + 1, Len(text))
             cut == SubSeq(text, k + 1, k + n)
  <1>1. Len(text) \in Nat /\ k \in Nat /\ \A i \in 1..Len(text) : text[i] \in Cells
    BY LenProperties, ElementOfSeq
  <1>2. rest \in Seq(Cells) /\ Len(rest) = Len(text) - k
        /\ \A i \in 1..(Len(text) - k) : rest[i] = text[k + i]
    BY RestOfSeq
  <1>3. cut \in Seq(Cells) /\ Len(cut) = n /\ \A i \in 1..n : cut[i] = text[k + i]
    <2>1. \A i \in (k + 1)..(k + n) : text[i] \in Cells
      BY <1>1
    <2>2. /\ cut \in Seq(Cells)
          /\ Len(cut) = IF k + 1 <= k + n THEN k + n - (k + 1) + 1 ELSE 0
          /\ \A i \in 1..(k + n - (k + 1) + 1) : cut[i] = text[k + 1 + i - 1]
      BY <1>1, <2>1, SubSeqProperties
    <2>3. \A i \in 1..n : cut[i] = text[k + i]
      <3> TAKE i \in 1..n
      <3>1. i \in 1..(k + n - (k + 1) + 1) /\ k + 1 + i - 1 = k + i
        BY <1>1
      <3>2. QED
        BY <2>2, <3>1
    <2>4. QED
      BY <1>1, <2>2, <2>3
  <1> HIDE DEF rest, cut
  <1>4. /\ Prefix(rest, n) \in Seq(Cells) /\ Len(Prefix(rest, n)) = n
        /\ \A i \in 1..n : Prefix(rest, n)[i] = rest[i]
    <2>1. \A i \in 1..n : rest[i] \in Cells
      BY <1>1, <1>2, ElementOfSeq
    <2>2. QED
      BY <2>1, SubSeqProperties DEF Prefix
  <1>5. Prefix(rest, n) = cut
    <2>1. \A i \in 1..n : Prefix(rest, n)[i] = cut[i]
      <3> TAKE i \in 1..n
      <3>1. i \in 1..(Len(text) - k)
        BY <1>1
      <3>2. QED
        BY <1>2, <1>3, <1>4, <3>1
    <2>2. QED
      BY <1>3, <1>4, <2>1, SeqEqual
  <1>6. SubSeq(text, 1, k) \o cut = SubSeq(text, 1, k + n)
    <2>1. 1 \in 1..(Len(text) + 1) /\ k \in (1 - 1)..Len(text) /\ k + n \in k..Len(text)
      BY <1>1
    <2>2. QED
      BY <2>1, ConcatAdjacentSubSeq DEF cut
  <1>7. QED
    BY <1>5, <1>6 DEF Prefix, rest

\* What a server sends later is behind what was received.
LEMMA PrefixStays ==
  ASSUME NEW text \in Seq(Cells), NEW more \in Seq(Cells), NEW k \in 0..Len(text)
  PROVE  Prefix(text \o more, k) = Prefix(text, k)
  <1>1. CASE k = 0
    BY <1>1, SubSeqEmpty DEF Prefix
  <1>2. CASE k # 0
    <2>1. 1 \in 1..Len(text) /\ k \in 1..Len(text)
      BY <1>2, LenProperties
    <2>2. QED
      BY <2>1, SubSeqOfConcat1 DEF Prefix
  <1>3. QED
    BY <1>1, <1>2
-----------------------------------------------------------------------------
\* Nothing changes of a server but what its connection will bring.
LEMMA LogUntouched ==
  ASSUME NEW c \in Servers, LogOf(c),
         logged'[c] = logged[c], chunk'[c] = chunk[c],
         BeforeWrite(c)' <=> BeforeWrite(c), Prefix(sent'[c], taken'[c]) = Prefix(sent[c], taken[c])
  PROVE  LogOf(c)'
  BY DEF LogOf, Unwritten

LEMMA RecvKeepsLog ==
  ASSUME TypeOK, NEW c \in Servers, LogOf(c), Recv(c)
  PROVE  LogOf(c)'
  <1>1. PICK n \in 1..ChunkCells :
          /\ taken[c] + n <= Len(sent[c])
          /\ chunk' = [chunk EXCEPT ![c] = Prefix(InFlight(c), n)]
          /\ taken' = [taken EXCEPT ![c] = @ + n]
    BY DEF Recv
  <1>2. cpc[c] = "recv" /\ cpc' = [cpc EXCEPT ![c] = "lock"] /\ UNCHANGED <<sent, logged>>
    BY DEF Recv, CAt
  <1>3. /\ sent[c] \in Seq(Cells) /\ logged[c] \in Seq(Cells) /\ taken[c] \in 0..Len(sent[c])
        /\ n \in Nat
    BY ClientAssumption DEF TypeOK, ClientTypeOK
  <1>4. /\ chunk'[c] = Prefix(SubSeq(sent[c], taken[c] + 1, Len(sent[c])), n)
        /\ taken'[c] = taken[c] + n /\ cpc'[c] = "lock"
    BY <1>1, <1>2 DEF InFlight, TypeOK, ClientTypeOK
  <1>5. logged[c] = Prefix(sent[c], taken[c])
    BY <1>2, <1>3, ConcatEmptySeq DEF LogOf, Unwritten, BeforeWrite
  <1>6. Prefix(sent[c], taken[c]) \o chunk'[c] = Prefix(sent[c], taken[c] + n)
    BY <1>1, <1>3, <1>4, PrefixGrows
  <1>7. QED
    BY <1>2, <1>4, <1>5, <1>6 DEF LogOf, Unwritten, BeforeWrite

LEMMA WriteKeepsLog ==
  ASSUME TypeOK, NEW c \in Servers, LogOf(c), Write(c)
  PROVE  LogOf(c)'
  <1>1. /\ cpc[c] = "write" /\ cpc'[c] = "written"
        /\ logged'[c] = logged[c] \o chunk[c] /\ UNCHANGED <<sent, taken>>
    BY DEF Write, WriteTakes, CAt, linkVars, TypeOK, ClientTypeOK
  <1>2. logged[c] \o chunk[c] \in Seq(Cells)
    BY ConcatProperties DEF TypeOK, ClientTypeOK
  <1>3. QED
    BY <1>1, <1>2, ConcatEmptySeq DEF LogOf, Unwritten, BeforeWrite

\* The other steps of a thread, and those of main(): the log stays, and so does
\* what there is to write.
LEMMA ThreadKeepsLog ==
  ASSUME TypeOK, ThreadInv, NEW c \in Servers, LogOf(c),
         "write" \notin ClientFaults, ShortWrites = {}, Connect(c) \/ ClientThread(c)
  PROVE  LogOf(c)'
  <1> USE DEF TypeOK, ClientTypeOK, CAt, BeforeWrite, linkVars
  <1>1. CASE Connect(c)
    <2>1. cpc[c] = "none"
      BY <1>1 DEF Connect, ThreadInv
    <2>2. cpc'[c] = "recv" /\ UNCHANGED <<sent, taken, chunk, logged>>
      BY <1>1 DEF Connect
    <2>3. QED
      BY <2>1, <2>2, LogUntouched
  <1>2. CASE Recv(c)
    BY <1>2, RecvKeepsLog
  <1>3. CASE RecvNothing(c)
    <2>1. /\ cpc[c] = "recv" /\ cpc'[c] = "lock" /\ chunk'[c] = <<>>
          /\ UNCHANGED <<sent, taken, logged>>
      BY <1>3 DEF RecvNothing
    <2>2. QED
      BY <2>1 DEF LogOf, Unwritten
  <1>4. CASE LockFile(c)
    <2>1. cpc[c] = "lock" /\ cpc'[c] = "write" /\ UNCHANGED <<sent, taken, chunk, logged>>
      BY <1>4 DEF LockFile
    <2>2. QED
      BY <2>1, LogUntouched
  <1>5. CASE Write(c)
    BY <1>5, WriteKeepsLog
  <1>6. CASE WriteFails(c) \/ WriteShort(c)
    BY <1>6 DEF WriteFails, WriteShort
  <1>7. CASE UnlockFile(c)
    <2>1. /\ cpc[c] \in {"written", "unwritten"} /\ cpc'[c] \in {"forward", "recv"}
          /\ UNCHANGED <<sent, taken, chunk, logged>>
      BY <1>7 DEF UnlockFile
    <2>2. QED
      BY <2>1, LogUntouched
  <1>8. CASE Forward(c)
    <2>1. cpc[c] = "forward" /\ cpc'[c] = "recv" /\ UNCHANGED <<sent, taken, chunk, logged>>
      BY <1>8 DEF Forward
    <2>2. QED
      BY <2>1, LogUntouched
  <1>9. QED
    BY <1>1, <1>2, <1>3, <1>4, <1>5, <1>6, <1>7, <1>8 DEF ClientThread

\* A step of one thread leaves the text of the other servers alone.
LEMMA OthersKeepLog ==
  ASSUME TypeOK, NEW c \in Servers, NEW d \in Servers \ {c}, LogOf(d),
         Connect(c) \/ ClientThread(c)
  PROVE  LogOf(d)'
  <1>1. /\ logged'[d] = logged[d] /\ chunk'[d] = chunk[d] /\ cpc'[d] = cpc[d]
        /\ sent'[d] = sent[d] /\ taken'[d] = taken[d]
    <2> USE DEF TypeOK, ClientTypeOK, linkVars
    <2>1. CASE Connect(c)
      BY <2>1 DEF Connect
    <2>2. CASE Recv(c) \/ RecvNothing(c)
      BY <2>2 DEF Recv, RecvNothing
    <2>3. CASE LockFile(c) \/ UnlockFile(c) \/ Forward(c)
      BY <2>3 DEF LockFile, UnlockFile, Forward
    <2>4. CASE Write(c) \/ WriteShort(c) \/ WriteFails(c)
      BY <2>4 DEF Write, WriteShort, WriteTakes, WriteFails
    <2>5. QED
      BY <2>1, <2>2, <2>3, <2>4 DEF ClientThread
  <1>2. QED
    BY <1>1, LogUntouched DEF BeforeWrite

\* What a server sends is behind what the client received of it.
LEMMA EmitKeepsLog ==
  ASSUME TypeOK, LogFollowsStream, NEW c \in Servers, Emit(c)
  PROVE  LogFollowsStream'
  <1>1. PICK r \in Readings, n \in Cuts :
          sent' = [sent EXCEPT ![c] = @ \o Prefix(Format(r), n)]
    BY DEF Emit
  <1>2. Prefix(Format(r), n) \in Seq(Cells)
    <2>1. Format(r) \in Seq(Cells) /\ Len(Format(r)) = 3
      BY FormatType
    <2>2. n \in 0..3
      BY PipelineAssumption
    <2>3. QED
      BY <2>1, <2>2, PrefixOfCells
  <1>3. UNCHANGED <<taken, cpc, chunk, logged>>
    BY DEF Emit, ownVars
  <1>4. ASSUME NEW d \in Servers PROVE LogOf(d)'
    <2>1. Prefix(sent'[d], taken[d]) = Prefix(sent[d], taken[d])
      <3>1. sent[d] \in Seq(Cells) /\ taken[d] \in 0..Len(sent[d])
        BY DEF TypeOK, ClientTypeOK
      <3>2. sent'[d] = IF d = c THEN sent[d] \o Prefix(Format(r), n) ELSE sent[d]
        BY <1>1 DEF TypeOK, ClientTypeOK
      <3>3. QED
        BY <1>2, <3>1, <3>2, PrefixStays
    <2>2. QED
      BY <1>3, <2>1, LogUntouched DEF BeforeWrite, LogFollowsStream, LogOf, Unwritten
  <1>5. QED
    BY <1>4 DEF LogFollowsStream, LogOf, Unwritten

\* The steps that touch neither the connections nor the threads.
LEMMA QuietStep ==
  ASSUME LogFollowsStream, UNCHANGED <<sent, taken, cpc, chunk, logged>>
  PROVE  LogFollowsStream'
  BY DEF LogFollowsStream, BeforeWrite

LEMMA LogStep ==
  TypeOK /\ ThreadInv /\ LogFollowsStream /\ "write" \notin ClientFaults /\ ShortWrites = {}
    /\ [Next]_vars => LogFollowsStream'
  <1> SUFFICES ASSUME TypeOK, ThreadInv, LogFollowsStream, "write" \notin ClientFaults,
                      ShortWrites = {}, [Next]_vars
               PROVE  LogFollowsStream'
    OBVIOUS
  <1>1. ASSUME NEW c \in Servers, Connect(c) \/ ClientThread(c) PROVE LogFollowsStream'
    <2>1. \A d \in Servers : LogOf(d)
      BY DEF LogFollowsStream, LogOf, Unwritten
    <2>2. \A d \in Servers : LogOf(d)'
      BY <1>1, <2>1, ThreadKeepsLog, OthersKeepLog
    <2>3. QED
      BY <2>2 DEF LogFollowsStream, LogOf, Unwritten
  <1>2. CASE ClientStart \/ ConnectFails \/ ClientSignal
    BY <1>2, QuietStep DEF ClientStart, ConnectFails, ClientSignal, linkVars
  <1>3. CASE Display \/ UNCHANGED vars
    BY <1>3, QuietStep DEF Display, vars, clientVars, linkVars, ownVars
  <1>4. ASSUME NEW c \in Servers, Emit(c) PROVE LogFollowsStream'
    BY <1>4, EmitKeepsLog
  <1>5. ASSUME NEW c \in Servers, ServerEnds(c) PROVE LogFollowsStream'
    BY <1>5, QuietStep DEF ServerEnds, ownVars
  <1>6. QED
    BY <1>1, <1>2, <1>3, <1>4, <1>5 DEF Next, Client, ClientNext

LEMMA LogInit == Init => LogFollowsStream
  <1> SUFFICES ASSUME Init, NEW c \in Servers PROVE LogOf(c)
    BY DEF LogFollowsStream, LogOf, Unwritten
  <1>1. logged[c] = <<>> /\ sent[c] = <<>> /\ taken[c] = 0 /\ cpc[c] = "none"
    BY DEF Init, ClientInit
  <1>2. Prefix(<<>>, 0) = <<>>
    BY SubSeqEmpty DEF Prefix
  <1>3. <<>> \o <<>> = <<>>
    BY ConcatEmptySeq, EmptySeq
  <1>4. QED
    BY <1>1, <1>2, <1>3 DEF LogOf, Unwritten, BeforeWrite

\* When no write() fails or is cut short, the log holds of each server what was received, once
\* and in order, wherever recv() cut it and whatever else goes wrong.
THEOREM LogIsComplete ==
  ASSUME "write" \notin ClientFaults, ShortWrites = {}
  PROVE  Spec => []LogFollowsStream
  BY LogInit, LogStep, TypeCorrect, ThreadInvariant, PTL DEF Spec
=============================================================================
