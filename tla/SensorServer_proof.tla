------------------------- MODULE SensorServer_proof -------------------------
(***************************************************************************)
(* Proofs about SensorServer, for every set of sensors, every size of the  *)
(* send buffer and any number of readings, signals and clients.            *)
(***************************************************************************)
EXTENDS SensorServer, TLAPS, SequenceTheorems

-----------------------------------------------------------------------------
(***************************************************************************)
(* Lines of text.                                                          *)
(***************************************************************************)
\* A formatted reading is three cells of that reading.
LEMMA FormatType ==
  ASSUME NEW r \in Readings
  PROVE  /\ Format(r) \in Seq(Cells)
         /\ Len(Format(r)) = 3
         /\ \A i \in 1..3 : Format(r)[i].of = r
  <1>1. Format(r) \in Seq(Cells) /\ Len(Format(r)) = 3
    BY DEF Format, Cells
  <1>2. QED
    BY <1>1 DEF Format

\* What a send takes of a text is a text.
LEMMA PrefixType ==
  ASSUME NEW text \in Seq(Cells), NEW n \in 0..Len(text)
  PROVE  /\ Prefix(text, n) \in Seq(Cells)
         /\ Len(Prefix(text, n)) = n
         /\ \A i \in 1..n : Prefix(text, n)[i] = text[i]
  <1>1. \A i \in 1..n : text[i] \in Cells
    OBVIOUS
  <1>2. QED
    BY <1>1, SubSeqProperties DEF Prefix
-----------------------------------------------------------------------------
(***************************************************************************)
(* Types.  TypeOK alone is not inductive: what send() accepts is a cut of  *)
(* rdBuff only because the send buffer never holds more than its size.     *)
(***************************************************************************)
TypeInv == TypeOK /\ Room \in Nat

LEMMA InitType == Init => TypeInv
  BY ServerAssumption, WireAssumption, EmptySeq
  DEF Init, TypeInv, TypeOK, Room, MainPoints, ThreadPoints, Readings, Threads, Main, Nobody

\* What send() accepts of the buffer.
LEMMA AcceptedType ==
  ASSUME TypeInv
  PROVE  /\ Accepted \in 0..Len(rdBuff)
         /\ Accepted <= Room
         /\ Prefix(rdBuff, Accepted) \in Seq(Cells)
         /\ Len(Prefix(rdBuff, Accepted)) = Accepted
  <1>1. Len(rdBuff) \in Nat
    BY LenProperties DEF TypeInv, TypeOK
  <1>2. Accepted \in 0..Len(rdBuff) /\ Accepted <= Room
    BY <1>1 DEF TypeInv, Accepted
  <1>3. QED
    BY <1>2, PrefixType DEF TypeInv, TypeOK

LEMMA MainType == TypeInv /\ MainStep => TypeInv'
  <1> SUFFICES ASSUME TypeInv, MainStep PROVE TypeInv'
    OBVIOUS
  <1> USE ServerAssumption DEF TypeInv, TypeOK, Room, MainAt, sockVars, connVars, threadVars,
        sigVars
  <1>1. CASE Setup
    BY <1>1 DEF Setup, MainPoints
  <1>2. CASE SetupFails
    BY <1>2 DEF SetupFails, MainPoints
  <1>3. CASE Accept
    BY <1>3, EmptySeq DEF Accept, MainPoints
  <1>4. CASE AcceptFails
    BY <1>4 DEF AcceptFails, MainPoints
  <1>5. CASE AcceptLog
    BY <1>5 DEF AcceptLog, MainPoints, Threads
  <1>6. CASE AcceptExit
    BY <1>6 DEF AcceptExit, MainPoints
  <1>7. ASSUME NEW t \in Sensors, Spawn(t) PROVE TypeInv'
    BY <1>7 DEF Spawn, MainPoints, ThreadPoints
  <1>8. CASE SpawnFails
    BY <1>8 DEF SpawnFails, MainPoints
  <1>9. CASE StopLog
    BY <1>9 DEF StopLog, MainPoints, Threads
  <1>10. CASE StopExit
    BY <1>10 DEF StopExit
  <1>11. QED
    BY <1>1, <1>2, <1>3, <1>4, <1>5, <1>6, <1>7, <1>8, <1>9, <1>10 DEF MainStep

LEMMA ThreadType == TypeInv /\ (\E t \in Sensors : Thread(t)) => TypeInv'
  <1> SUFFICES ASSUME TypeInv, NEW t \in Sensors, Thread(t) PROVE TypeInv'
    OBVIOUS
  <1> USE DEF TypeInv, TypeOK, At, sockVars, connVars, sigVars
  <1>1. CASE Test(t)
    BY <1>1 DEF Test, ThreadPoints, Room
  <1>2. CASE ThreadExit(t)
    BY <1>2 DEF ThreadExit, ThreadPoints, MainPoints, Room
  <1>3. CASE EnterLog(t)
    BY <1>3 DEF EnterLog, ThreadPoints, Threads, Room
  <1>4. CASE LeaveLog(t)
    BY <1>4 DEF LeaveLog, ThreadPoints, Room
  <1>5. CASE Sample(t)
    BY <1>5, ServerAssumption, WireAssumption, SMTT(30) DEF Sample, ThreadPoints, Readings, Room
  <1>6. CASE Lock(t)
    BY <1>6 DEF Lock, ThreadPoints, Room
  <1>7. CASE FormatReading(t)
    BY <1>7, FormatType DEF FormatReading, ThreadPoints, Room
  <1>8. CASE Send(t)
    <2>1. sent' \in Seq(Cells) /\ Len(sent') = Len(sent) + Accepted
      BY <1>8, AcceptedType, ConcatProperties DEF Send
    <2>2. /\ Len(sent) \in Nat /\ taken \in 0..Len(sent) /\ taken' = taken
          /\ Accepted \in Nat /\ Accepted <= Room /\ SndBuf \in Nat
      BY <1>8, AcceptedType, LenProperties, ServerAssumption DEF Send
    <2>3. Room' \in Nat
      BY <2>1, <2>2 DEF Room
    <2>4. taken' \in 0..Len(sent')
      BY <2>1, <2>2
    <2>5. QED
      BY <1>8, <2>1, <2>3, <2>4 DEF Send, ThreadPoints
  <1>9. CASE SendToGone(t)
    BY <1>9 DEF SendToGone, ThreadPoints, Room
  <1>10. CASE SendRaisesSigpipe(t)
    BY <1>10 DEF SendRaisesSigpipe, threadVars, Room
  <1>11. CASE Unlock(t)
    BY <1>11 DEF Unlock, ThreadPoints, Room
  <1>12. QED
    BY <1>1, <1>2, <1>3, <1>4, <1>5, <1>6, <1>7, <1>8, <1>9, <1>10, <1>11 DEF Thread, Loop

LEMMA SignalType == TypeInv /\ (\E p \in Threads : Catch(p) \/ Handler(p)) => TypeInv'
  <1> SUFFICES ASSUME TypeInv, NEW p \in Threads, Catch(p) \/ Handler(p) PROVE TypeInv'
    OBVIOUS
  <1> USE DEF TypeInv, TypeOK, Room, sockVars, connVars, threadVars, sigVars
  <1>1. CASE Catch(p)
    BY <1>1, ServerAssumption DEF Catch
  <1>2. CASE HandlerLog(p)
    BY <1>2 DEF HandlerLog
  <1>3. CASE HandlerShutdown(p)
    BY <1>3 DEF HandlerShutdown
  <1>4. CASE HandlerExit(p)
    BY <1>4, ServerAssumption DEF HandlerExit
  <1>5. QED
    BY <1>1, <1>2, <1>3, <1>4 DEF Handler

LEMMA PeerType == TypeInv /\ Peer => TypeInv'
  <1> SUFFICES ASSUME TypeInv, Peer PROVE TypeInv'
    OBVIOUS
  <1> USE DEF TypeInv, TypeOK, sockVars, connVars, threadVars, sigVars
  <1>1. CASE Connect
    BY <1>1, ServerAssumption DEF Connect, Room
  <1>2. CASE Take
    BY <1>2, LenProperties, ServerAssumption DEF Take, Room
  <1>3. CASE PeerGone
    BY <1>3 DEF PeerGone, Room
  <1>4. CASE ResetArrives
    BY <1>4 DEF ResetArrives, Room
  <1>5. QED
    BY <1>1, <1>2, <1>3, <1>4 DEF Peer

LEMMA StutterType == TypeInv /\ UNCHANGED vars => TypeInv'
  BY DEF TypeInv, TypeOK, Room, vars, sockVars, connVars, threadVars, sigVars

LEMMA TypeStep == TypeInv /\ [Next]_vars => TypeInv'
  BY MainType, ThreadType, SignalType, PeerType, StutterType DEF Next

LEMMA TypeInvariant == Spec => []TypeInv
  BY InitType, TypeStep, PTL DEF Spec

\* Every variable keeps its type, in any execution.
THEOREM TypeCorrect == Spec => []TypeOK
  <1>1. TypeInv => TypeOK
    BY DEF TypeInv
  <1>2. QED
    BY TypeInvariant, <1>1, PTL
-----------------------------------------------------------------------------
(***************************************************************************)
(* The shared buffer.  A thread that formatted rdBuff still owns the mutex *)
(* when it sends, and no thread writes rdBuff without owning it.           *)
(***************************************************************************)
Holding(t) == pc[t] \in {"format", "send", "unlock"}
LockInv == \A t \in Sensors : Holding(t) => socklock = t
BufferInv == LockInv /\ BufferIsMine

LEMMA BufferThread ==
  ASSUME TypeInv, BufferInv, NEW t \in Sensors, Thread(t)
  PROVE  BufferInv'
  <1> USE DEF TypeInv, TypeOK, BufferInv, LockInv, BufferIsMine, Holding, At
  <1>1. CASE Test(t)
    BY <1>1 DEF Test
  <1>2. CASE ThreadExit(t)
    BY <1>2 DEF ThreadExit
  <1>3. CASE EnterLog(t)
    BY <1>3 DEF EnterLog
  <1>4. CASE LeaveLog(t)
    BY <1>4 DEF LeaveLog
  <1>5. CASE Sample(t)
    BY <1>5 DEF Sample
  <1>6. CASE Lock(t)
    BY <1>6, WireAssumption DEF Lock, Nobody
  <1>7. CASE FormatReading(t)
    BY <1>7 DEF FormatReading
  <1>8. CASE Send(t)
    BY <1>8 DEF Send
  <1>9. CASE SendToGone(t)
    BY <1>9 DEF SendToGone
  <1>10. CASE SendRaisesSigpipe(t)
    BY <1>10 DEF SendRaisesSigpipe, threadVars
  <1>11. CASE Unlock(t)
    BY <1>11 DEF Unlock
  <1>12. QED
    BY <1>1, <1>2, <1>3, <1>4, <1>5, <1>6, <1>7, <1>8, <1>9, <1>10, <1>11 DEF Thread, Loop

\* Only Spawn, of the other steps, touches a thread or the buffer at all.
LEMMA OthersKeepThreads ==
  ASSUME MainStep \/ (\E p \in Threads : Catch(p) \/ Handler(p)) \/ Peer \/ UNCHANGED vars
  PROVE  /\ UNCHANGED <<sample, rdBuff, socklock>>
         /\ UNCHANGED pc \/ \E t \in Sensors : Spawn(t)
  BY DEF MainStep, Setup, SetupFails, Accept, AcceptFails, AcceptLog, AcceptExit, Spawn,
     SpawnFails, StopLog, StopExit, Catch, Handler, HandlerLog, HandlerShutdown, HandlerExit,
     Peer, Connect, Take, PeerGone, ResetArrives, vars, threadVars

LEMMA BufferStep == TypeInv /\ BufferInv /\ [Next]_vars => BufferInv'
  <1> SUFFICES ASSUME TypeInv, BufferInv, [Next]_vars PROVE BufferInv'
    OBVIOUS
  <1>1. CASE \E t \in Sensors : Thread(t)
    BY <1>1, BufferThread
  <1>2. CASE ~ \E t \in Sensors : Thread(t)
    <2>1. /\ UNCHANGED <<sample, rdBuff, socklock>>
          /\ UNCHANGED pc \/ \E t \in Sensors : Spawn(t)
      BY <1>2, OthersKeepThreads DEF Next
    <2>2. QED
      BY <2>1 DEF BufferInv, LockInv, BufferIsMine, Holding, Spawn, TypeInv, TypeOK
  <1>3. QED
    BY <1>1, <1>2

LEMMA InitBuffer == Init => BufferInv
  BY DEF Init, BufferInv, LockInv, BufferIsMine, Holding

LEMMA BufferInvariant == Spec => []BufferInv
  BY InitBuffer, BufferStep, TypeInvariant, PTL DEF Spec

\* Two threads never overwrite each other's text between sprintf and send.
THEOREM BufferProtected == Spec => []BufferIsMine
  <1>1. BufferInv => BufferIsMine
    BY DEF BufferInv
  <1>2. QED
    BY BufferInvariant, <1>1, PTL
-----------------------------------------------------------------------------
(***************************************************************************)
(* The end of main().  Once signal_flag is 0 some thread is inside the     *)
(* handler and stays there; a sensor thread inside it is not done, so the  *)
(* joins cannot both return, and before the first connection only Main can *)
(* be inside it, so the failing accept() cannot see the flag at 0.         *)
(***************************************************************************)
BeforeClient == main \in {"setup", "accept", "failed", "logging"}

HandlerInv ==
  /\ \A t \in Sensors : hs[t] # "none" => t \in spawned /\ pc[t] # "done"
  /\ signal_flag = 0 => \E p \in Threads : hs[p] # "none"
  /\ BeforeClient => spawned = {}
  /\ MainNeverReturns

LEMMA HandlerMain ==
  ASSUME TypeInv, HandlerInv, MainStep
  PROVE  HandlerInv'
  <1> USE DEF TypeInv, TypeOK, HandlerInv, BeforeClient, MainNeverReturns, MainAt, threadVars,
        sigVars
  <1>1. CASE Setup
    BY <1>1 DEF Setup
  <1>2. CASE SetupFails
    BY <1>2 DEF SetupFails
  <1>3. CASE Accept
    BY <1>3 DEF Accept
  <1>4. CASE AcceptFails
    BY <1>4 DEF AcceptFails
  <1>5. CASE AcceptLog
    BY <1>5 DEF AcceptLog
  <1>6. CASE AcceptExit
    <2>1. signal_flag # 0
      BY <1>6 DEF AcceptExit, Threads
    <2>2. QED
      BY <1>6, <2>1 DEF AcceptExit
  <1>7. ASSUME NEW t \in Sensors, Spawn(t) PROVE HandlerInv'
    BY <1>7 DEF Spawn
  <1>8. CASE SpawnFails
    BY <1>8 DEF SpawnFails
  <1>9. CASE StopLog
    BY <1>9 DEF StopLog
  <1>10. CASE StopExit
    BY <1>10 DEF StopExit
  <1>11. QED
    BY <1>1, <1>2, <1>3, <1>4, <1>5, <1>6, <1>7, <1>8, <1>9, <1>10 DEF MainStep

LEMMA HandlerThread ==
  ASSUME TypeInv, HandlerInv, NEW t \in Sensors, Thread(t)
  PROVE  HandlerInv'
  <1> USE DEF TypeInv, TypeOK, HandlerInv, BeforeClient, MainNeverReturns, At, threadVars,
        sigVars
  <1>1. CASE Test(t)
    BY <1>1 DEF Test
  <1>2. CASE ThreadExit(t)
    <2>1. PICK p \in Threads : hs[p] # "none"
      BY <1>2 DEF ThreadExit
    <2>2. ~ (MainAt("join") /\ \A u \in Sensors : pc'[u] = "done")
      BY <1>2, <2>1 DEF ThreadExit, MainAt, Threads
    <2>3. QED
      BY <1>2, <2>2 DEF ThreadExit
  <1>3. CASE EnterLog(t)
    BY <1>3 DEF EnterLog
  <1>4. CASE LeaveLog(t)
    BY <1>4 DEF LeaveLog
  <1>5. CASE Sample(t)
    BY <1>5 DEF Sample
  <1>6. CASE Lock(t)
    BY <1>6 DEF Lock
  <1>7. CASE FormatReading(t)
    BY <1>7 DEF FormatReading
  <1>8. CASE Send(t)
    BY <1>8 DEF Send
  <1>9. CASE SendToGone(t)
    BY <1>9 DEF SendToGone
  <1>10. CASE SendRaisesSigpipe(t)
    BY <1>10 DEF SendRaisesSigpipe
  <1>11. CASE Unlock(t)
    BY <1>11 DEF Unlock
  <1>12. QED
    BY <1>1, <1>2, <1>3, <1>4, <1>5, <1>6, <1>7, <1>8, <1>9, <1>10, <1>11 DEF Thread, Loop

LEMMA HandlerSignal ==
  ASSUME TypeInv, HandlerInv, NEW p \in Threads, Catch(p) \/ Handler(p)
  PROVE  HandlerInv'
  <1> USE DEF TypeInv, TypeOK, HandlerInv, BeforeClient, MainNeverReturns, threadVars, sigVars
  <1>1. CASE Catch(p)
    BY <1>1, WireAssumption DEF Catch, CanTake, Threads, Main
  <1>2. CASE HandlerLog(p)
    BY <1>2 DEF HandlerLog
  <1>3. CASE HandlerShutdown(p)
    BY <1>3 DEF HandlerShutdown
  <1>4. CASE HandlerExit(p)
    BY <1>4 DEF HandlerExit
  <1>5. QED
    BY <1>1, <1>2, <1>3, <1>4 DEF Handler

LEMMA HandlerPeer ==
  ASSUME HandlerInv, Peer \/ UNCHANGED vars
  PROVE  HandlerInv'
  BY DEF HandlerInv, BeforeClient, MainNeverReturns, threadVars, sigVars, vars, Peer, Connect,
     Take, PeerGone, ResetArrives

LEMMA InitHandler == Init => HandlerInv
  BY DEF Init, HandlerInv, BeforeClient, MainNeverReturns, Threads

LEMMA HandlerStep == TypeInv /\ HandlerInv /\ [Next]_vars => HandlerInv'
  BY HandlerMain, HandlerThread, HandlerSignal, HandlerPeer DEF Next

LEMMA HandlerInvariant == Spec => []HandlerInv
  BY InitHandler, HandlerStep, TypeInvariant, PTL DEF Spec

\* "Signal received, shutting down..." is never printed.
THEOREM MainStays == Spec => []MainNeverReturns
  <1>1. HandlerInv => MainNeverReturns
    BY DEF HandlerInv
  <1>2. QED
    BY HandlerInvariant, <1>1, PTL
-----------------------------------------------------------------------------
(***************************************************************************)
(* The connection.  main() accepts only before the first client.           *)
(***************************************************************************)
ConnInv == BeforeClient => conn = "none" /\ sent = <<>>

LEMMA ConnStep == TypeInv /\ HandlerInv /\ ConnInv /\ [Next]_vars => ConnInv'
  <1> SUFFICES ASSUME TypeInv, HandlerInv, ConnInv, [Next]_vars PROVE ConnInv'
    OBVIOUS
  <1> USE DEF ConnInv, BeforeClient, connVars
  <1>1. CASE MainStep
    BY <1>1 DEF MainStep, MainAt, Setup, SetupFails, Accept, AcceptFails, AcceptLog, AcceptExit,
       Spawn, SpawnFails, StopLog, StopExit
  <1>2. ASSUME NEW t \in Sensors, Thread(t) PROVE ConnInv'
    BY <1>2 DEF Thread, Loop, Test, ThreadExit, EnterLog, LeaveLog, Sample, Lock, FormatReading, Send,
       SendToGone, SendRaisesSigpipe, Unlock
  <1>3. ASSUME NEW p \in Threads, Catch(p) \/ Handler(p) PROVE ConnInv'
    BY <1>3 DEF Catch, Handler, HandlerLog, HandlerShutdown, HandlerExit
  <1>4. CASE Peer
    BY <1>4 DEF Peer, Connect, Take, PeerGone, ResetArrives
  <1>5. CASE UNCHANGED vars
    BY <1>5 DEF vars
  <1>6. QED
    BY <1>1, <1>2, <1>3, <1>4, <1>5 DEF Next

LEMMA InitConn == Init => ConnInv
  BY DEF Init, ConnInv

LEMMA ConnInvariant == Spec => []ConnInv
  BY InitConn, ConnStep, TypeInvariant, HandlerInvariant, PTL DEF Spec

\* Only Accept counts a connection.
LEMMA OnlyAcceptAccepts ==
  ASSUME [Next]_vars, ~ Accept
  PROVE  accepted' = accepted
  <1> USE DEF sockVars
  <1>1. CASE MainStep
    BY <1>1 DEF MainStep, Setup, SetupFails, AcceptFails, AcceptLog, AcceptExit, Spawn, SpawnFails,
       StopLog, StopExit
  <1>2. ASSUME NEW t \in Sensors, Thread(t) PROVE accepted' = accepted
    BY <1>2 DEF Thread, Loop, Test, ThreadExit, EnterLog, LeaveLog, Sample, Lock, FormatReading, Send,
       SendToGone, SendRaisesSigpipe, Unlock
  <1>3. ASSUME NEW p \in Threads, Catch(p) \/ Handler(p) PROVE accepted' = accepted
    BY <1>3 DEF Catch, Handler, HandlerLog, HandlerShutdown, HandlerExit
  <1>4. CASE Peer
    BY <1>4 DEF Peer, Connect, Take, PeerGone, ResetArrives
  <1>5. CASE UNCHANGED vars
    BY <1>5 DEF vars
  <1>6. QED
    BY <1>1, <1>2, <1>3, <1>4, <1>5 DEF Next

\* The descriptor the threads write to is never replaced under them.
THEOREM OneConnection == Spec => NewfdIsFixed
  <1>1. ConnInv /\ [Next]_vars => [conn # "none" => accepted' = accepted]_vars
    BY OnlyAcceptAccepts DEF ConnInv, BeforeClient, Accept, MainAt
  <1>2. QED
    BY <1>1, ConnInvariant, PTL DEF Spec, NewfdIsFixed
-----------------------------------------------------------------------------
(***************************************************************************)
(* The stream.  What is in the connection was sampled before; a reading on *)
(* its way to send() is later than all its sensor has there.               *)
(***************************************************************************)
Pending(t) == pc[t] \in {"lock", "format", "send"}

SerialInv ==
  \A i \in 1..Len(sent) : \A t \in Sensors :
    sent[i].of.sensor = t =>
      /\ sent[i].of.serial <= sample[t].serial
      /\ Pending(t) => sent[i].of.serial < sample[t].serial

\* A cell of the connection carries a reading.
LEMMA SentReading ==
  ASSUME TypeInv, NEW i \in 1..Len(sent)
  PROVE  sent[i].of \in Readings
  <1>1. sent[i] \in Cells
    BY ElementOfSeq DEF TypeInv, TypeOK
  <1>2. QED
    BY <1>1 DEF Cells

\* A send that takes something extends the connection by a reading that
\* SensorStream allows; one that takes nothing leaves it alone.
LEMMA SendEmits ==
  ASSUME TypeInv, BufferInv, SerialInv, NEW t \in Sensors, Send(t)
  PROVE  /\ Stream!Next \/ UNCHANGED sent
         /\ SerialInv'
  <1> DEFINE r == sample[t]
             cut == Prefix(Format(r), Accepted)
  <1>1. r \in Readings /\ r.sensor = t /\ Len(sent) \in Nat
    BY LenProperties DEF TypeInv, TypeOK
  <1>2. rdBuff = Format(r) /\ pc[t] = "send"
    BY DEF BufferInv, BufferIsMine, Send, At
  <1>3. /\ Accepted \in 0..3
        /\ cut \in Seq(Cells) /\ Len(cut) = Accepted
        /\ \A i \in 1..Accepted : cut[i].of = r
    <2>1. /\ Format(r) \in Seq(Cells) /\ Len(Format(r)) = 3
          /\ \A i \in 1..3 : Format(r)[i].of = r
      BY <1>1, FormatType
    <2>2. Accepted \in 0..Len(rdBuff)
      BY AcceptedType
    <2>3. Accepted \in 0..3
      BY <1>2, <2>1, <2>2
    <2> HIDE DEF r
    <2>4. /\ cut \in Seq(Cells) /\ Len(cut) = Accepted
          /\ \A i \in 1..Accepted : cut[i] = Format(r)[i]
      BY <2>1, <2>3, PrefixType DEF cut
    <2>5. QED
      BY <2>1, <2>3, <2>4
  <1>4. sent' = sent \o cut /\ sample' = sample /\ pc' = [pc EXCEPT ![t] = "unlock"]
    BY <1>2 DEF Send
  <1> HIDE DEF cut
  <1>5. Fresh(r, sent)
    BY <1>1, <1>2, SentReading DEF Fresh, SerialInv, Pending, Readings
  <1>6. CASE Accepted = 0
    <2>1. sent' = sent
      BY <1>3, <1>4, <1>6, ConcatEmptySeq, EmptySeq DEF TypeInv, TypeOK
    <2>2. QED
      BY <1>1, <1>4, <2>1 DEF SerialInv, Pending, TypeInv, TypeOK
  <1>7. CASE Accepted \in 1..3
    <2>1. Stream!Next
      <3>1. cut = Stream!Prefix(Stream!Format(r), Accepted) /\ r \in Stream!Readings
        BY <1>1 DEF cut, Prefix, Format, Stream!Prefix, Stream!Format, Readings, Stream!Readings
      <3>2. Stream!Emit(r, Accepted)
        BY <1>4, <1>5, <3>1 DEF Stream!Emit, Stream!Fresh, Fresh
      <3>3. Len(sent') > Len(sent)
        <4>1. Len(sent') = Len(sent) + Accepted
          BY <1>3, <1>4, ConcatProperties DEF TypeInv, TypeOK
        <4>2. QED
          BY <1>1, <1>7, <4>1
      <3>4. QED
        BY <1>7, <3>1, <3>2, <3>3 DEF Stream!Next
    <2>2. SerialInv'
      <3> SUFFICES ASSUME NEW i \in 1..Len(sent'), NEW u \in Sensors, sent'[i].of.sensor = u
                   PROVE  /\ sent'[i].of.serial <= sample[u].serial
                          /\ Pending(u)' => sent'[i].of.serial < sample[u].serial
        BY <1>4 DEF SerialInv
      <3>1. Len(sent') = Len(sent) + Accepted
        BY <1>3, <1>4, ConcatProperties DEF TypeInv, TypeOK
      <3>2. ~ Pending(t)' /\ \A v \in Sensors \ {t} : Pending(v)' = Pending(v)
        BY <1>4 DEF Pending, TypeInv, TypeOK
      <3>3. CASE i <= Len(sent)
        <4>1. sent'[i] = sent[i]
          BY <1>1, <1>3, <1>4, <3>1, <3>3, ConcatProperties DEF TypeInv, TypeOK
        <4>2. QED
          BY <1>1, <3>2, <3>3, <4>1 DEF SerialInv
      <3>4. CASE i > Len(sent)
        <4>1. sent'[i].of = r
          BY <1>1, <1>3, <1>4, <3>1, <3>4, ConcatProperties DEF TypeInv, TypeOK
        <4>2. QED
          BY <1>1, <3>2, <4>1 DEF Readings
      <3>5. QED
        BY <1>1, <3>3, <3>4
    <2>3. QED
      BY <2>1, <2>2
  <1>8. QED
    BY <1>3, <1>6, <1>7

\* The other steps of a thread leave the connection alone; Sample makes the
\* reading later than all that was sent.
LEMMA ThreadKeepsSerials ==
  ASSUME TypeInv, SerialInv, NEW t \in Sensors, Thread(t), ~ Send(t)
  PROVE  UNCHANGED sent /\ SerialInv'
  <1>1. UNCHANGED sent
    BY DEF Thread, Loop, Test, ThreadExit, EnterLog, LeaveLog, Sample, Lock, FormatReading,
       SendToGone, SendRaisesSigpipe, Unlock, connVars
  <1>2. CASE Sample(t)
    <2>1. /\ sample'[t].serial = sample[t].serial + 1
          /\ \A u \in Sensors \ {t} : sample'[u] = sample[u] /\ pc'[u] = pc[u]
          /\ sample[t].serial \in Nat
      BY <1>2, WireAssumption DEF Sample, TypeInv, TypeOK, Readings
    <2> SUFFICES ASSUME NEW i \in 1..Len(sent), NEW u \in Sensors, sent[i].of.sensor = u
                 PROVE  /\ sent[i].of.serial <= sample'[u].serial
                        /\ Pending(u)' => sent[i].of.serial < sample'[u].serial
      BY <1>1 DEF SerialInv
    <2>2. sent[i].of.serial <= sample[u].serial /\ sent[i].of.serial \in Int
      BY SentReading DEF SerialInv, Readings
    <2>3. CASE u = t
      BY <2>1, <2>2, <2>3
    <2>4. CASE u # t
      BY <2>1, <2>4 DEF SerialInv, Pending
    <2>5. QED
      BY <2>3, <2>4
  <1>3. CASE ~ Sample(t)
    <2>1. UNCHANGED sample /\ \A u \in Sensors : Pending(u)' => Pending(u)
      BY <1>3 DEF Thread, Loop, Test, ThreadExit, EnterLog, LeaveLog, Lock, FormatReading,
         SendToGone, SendRaisesSigpipe, Unlock, At, Pending, threadVars, TypeInv, TypeOK
    <2>2. QED
      BY <1>1, <2>1 DEF SerialInv
  <1>4. QED
    BY <1>1, <1>2, <1>3

\* Every step but a thread's leaves the connection alone: Accept, which clears
\* it, finds it empty.
LEMMA OthersKeepSerials ==
  ASSUME TypeInv, ConnInv, SerialInv, [Next]_vars, ~ \E t \in Sensors : Thread(t)
  PROVE  UNCHANGED sent /\ SerialInv'
  <1>1. UNCHANGED sent
    BY DEF Next, ConnInv, BeforeClient, MainStep, MainAt, Setup, SetupFails, Accept, AcceptFails,
       AcceptLog, AcceptExit, Spawn, SpawnFails, StopLog, StopExit, Catch, Handler, HandlerLog,
       HandlerShutdown, HandlerExit, Peer, Connect, Take, PeerGone, ResetArrives, vars, connVars
  <1>2. /\ UNCHANGED sample
        /\ UNCHANGED pc \/ \E t \in Sensors : Spawn(t)
    BY OthersKeepThreads DEF Next
  <1>3. \A u \in Sensors : Pending(u)' => Pending(u)
    BY <1>2 DEF Pending, Spawn, TypeInv, TypeOK
  <1>4. QED
    BY <1>1, <1>2, <1>3 DEF SerialInv

LEMMA InitSerial == Init => SerialInv /\ Stream!Init
  BY DEF Init, SerialInv, Stream!Init

LEMMA SerialStep ==
  TypeInv /\ BufferInv /\ ConnInv /\ SerialInv /\ [Next]_vars
    => SerialInv' /\ [Stream!Next]_sent
  BY SendEmits, ThreadKeepsSerials, OthersKeepSerials

\* The detailed server implements SensorStream: whatever the interleaving, the
\* signals, the client and the failures, its connection carries cuts of single
\* readings, none twice, each sensor's in order.
THEOREM ServerImplementsStream == Spec => StreamPromise
  BY InitSerial, SerialStep, TypeInvariant, BufferInvariant, ConnInvariant, PTL
  DEF Spec, StreamPromise, Stream!Spec
=============================================================================
