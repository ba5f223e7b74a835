------------------------ MODULE HardwareServer_proof ------------------------
(***************************************************************************)
(* Proofs about HardwareServer.  A step of it is a step of SensorServer    *)
(* (the end of a probe is a Sample, what precedes it a stutter) or the     *)
(* exit(1) of i2c_sensor_read(), which changes nothing but proc; so the    *)
(* invariants of SensorServer_proof carry over.                            *)
(***************************************************************************)
EXTENDS HardwareServer, SensorServer_proof

-----------------------------------------------------------------------------
(***************************************************************************)
(* The conversion of an axis.                                              *)
(***************************************************************************)
\* Of what the registers hold when they extend a 10 bit value by its sign, the mask
\* and the subtraction restore the value: no bit is lost, the boundaries included.
THEOREM AxisIsSigned ==
  ASSUME NEW d \in Byte \X Byte, SignExtended(d)
  PROVE  Axis(d) = Signed16(d) /\ Axis(d) \in -512..511
  <1> DEFINE low == d[1]
             high == (d[2] % 4) * 256
             all == d[2] * 256
  <1>1. low \in 0..255 /\ d[2] \in {0, 1, 254, 255}
    BY DEF Byte, SignExtended
  <1>2. Axis(d) = LET raw == high + low IN IF raw > 511 THEN raw - 1024 ELSE raw
    BY DEF Axis
  <1>3. Signed16(d) = LET raw == all + low IN IF raw > 32767 THEN raw - 65536 ELSE raw
    BY DEF Signed16
  <1>4. \/ high = 0 /\ all = 0
        \/ high = 256 /\ all = 256
        \/ high = 512 /\ all = 65024
        \/ high = 768 /\ all = 65280
    <2>1. 0 % 4 = 0 /\ 1 % 4 = 1 /\ 254 % 4 = 2 /\ 255 % 4 = 3
      OBVIOUS
    <2>2. QED
      BY <1>1, <2>1
  <1> HIDE DEF low, high, all
  <1>5. QED
    BY <1>1, <1>2, <1>3, <1>4
-----------------------------------------------------------------------------
(***************************************************************************)
(* Steps.  A thread is inside a read function only while it samples, which *)
(* it does only after it was created.                                      *)
(***************************************************************************)
ProbeInv ==
  /\ HardwareTypeOK
  /\ \A t \in Sensors :
       /\ pc[t] # "none" => t \in spawned
       /\ probe[t] # "none" => pc[t] = "sample" /\ sample[t].serial < MaxSerial
       /\ probe[t] = "opened" => t = Accel
       /\ probe[t] \in {"raised", "echo"} => t = Pinger

GivesUp ==
  /\ proc' = "failed"
  /\ UNCHANGED <<sockVars, connVars, main, spawned, threadVars, logOwner, sigVars>>

\* The end of a probe is a Sample.
LEMMA SampledIsSample ==
  ASSUME NEW t \in Sensors, NEW a \in BOOLEAN, At(t, "sample"),
         sample[t].serial < MaxSerial, Sampled(t, a)
  PROVE  Sample(t)
  BY HardwareAssumption DEF Sampled, Sample, OtherVars

LEMMA ProbeStep ==
  ASSUME ProbeInv, NEW t \in Sensors, Ping(t) \/ I2c(t)
  PROVE  Sample(t) \/ UNCHANGED vars \/ GivesUp
  <1>1. CASE TrigHigh(t) \/ TrigLow(t) \/ EchoIsHigh(t) \/ I2cOpen(t)
    BY <1>1 DEF TrigHigh, TrigLow, EchoIsHigh, I2cOpen
  <1>2. CASE TrigFails(t)
    BY <1>2, SampledIsSample DEF TrigFails, Starts, Probing, ProbeInv
  <1>3. CASE EchoIsLow(t)
    BY <1>3, SampledIsSample, HardwareAssumption DEF EchoIsLow, Probing, ProbeInv
  <1>4. CASE I2cRead(t)
    BY <1>4, SampledIsSample DEF I2cRead, Probing, ProbeInv, Tilted
  <1>5. CASE I2cFails(t)
    BY <1>5 DEF I2cFails, GivesUp
  <1>6. QED
    BY <1>1, <1>2, <1>3, <1>4, <1>5 DEF Ping, I2c

LEMMA HwStep ==
  ASSUME ProbeInv, [HwNext]_allVars
  PROVE  [Next]_vars \/ GivesUp
  <1>1. CASE Common
    BY <1>1 DEF Common, Next, Thread
  <1>2. CASE \E t \in Sensors : Ping(t) \/ I2c(t)
    BY <1>2, ProbeStep DEF Next, Thread
  <1>3. CASE Line \/ UNCHANGED allVars
    BY <1>3 DEF Line, EchoRises, EchoFalls, allVars
  <1>4. QED
    BY <1>1, <1>2, <1>3 DEF HwNext

\* Giving up disturbs nothing that SensorServer's invariants are about.
ServerInv == TypeInv /\ BufferInv /\ HandlerInv /\ ConnInv /\ SerialInv

LEMMA GivesUpKeeps == ServerInv /\ GivesUp => ServerInv' /\ UNCHANGED sent
  BY DEF ServerInv, GivesUp, TypeInv, TypeOK, Room, BufferInv, LockInv, BufferIsMine, Holding,
     HandlerInv, BeforeClient, MainNeverReturns, ConnInv, SerialInv, Pending,
     sockVars, connVars, threadVars, sigVars

LEMMA ServerStep ==
  ServerInv /\ ([Next]_vars \/ GivesUp) => ServerInv' /\ [Stream!Next]_sent
  BY GivesUpKeeps, TypeStep, BufferStep, HandlerStep, ConnStep, SerialStep DEF ServerInv
-----------------------------------------------------------------------------
(***************************************************************************)
(* Types.                                                                  *)
(***************************************************************************)
\* What the loop around the sampling does to the threads' places.
LEMMA CommonKeepsProbes ==
  ASSUME ProbeInv, TypeOK', Common, UNCHANGED hwVars
  PROVE  ProbeInv'
  <1> DEFINE Kept ==
        /\ spawned \subseteq spawned'
        /\ \A u \in Sensors : pc'[u] # "none" => u \in spawned'
        /\ UNCHANGED sample
        /\ \A u \in Sensors : pc[u] = "sample" => pc'[u] = "sample"
  <1>1. /\ pc \in [Sensors -> ThreadPoints]
        /\ \A u \in Sensors : pc[u] # "none" => u \in spawned
    BY DEF ProbeInv, HardwareTypeOK, TypeOK
  <1>2. ASSUME MainStep PROVE Kept
    <2>1. ASSUME NEW t \in Sensors, Spawn(t) PROVE Kept
      <3>1. /\ spawned' = spawned \cup {t} /\ pc' = [pc EXCEPT ![t] = "test"]
            /\ t \notin spawned /\ UNCHANGED sample
        BY <2>1 DEF Spawn
      <3>2. QED
        BY <1>1, <3>1
    <2>2. ASSUME MainStep, \A t \in Sensors : ~ Spawn(t) PROVE Kept
      <3>1. UNCHANGED <<pc, sample, spawned>>
        BY <2>2 DEF MainStep, Setup, SetupFails, Accept, AcceptFails, AcceptLog, AcceptExit,
           SpawnFails, StopLog, StopExit, threadVars
      <3>2. QED
        BY <1>1, <3>1
    <2>3. QED
      BY <1>2, <2>1, <2>2
  <1>3. ASSUME NEW t \in Sensors, Loop(t) PROVE Kept
    <2>1. UNCHANGED <<sample, spawned>> /\ pc[t] \notin {"none", "sample"}
          /\ \A u \in Sensors \ {t} : pc'[u] = pc[u]
      <3> USE <1>1 DEF At
      <3>1. CASE Test(t) \/ ThreadExit(t)
        BY <3>1 DEF Test, ThreadExit
      <3>2. CASE EnterLog(t) \/ LeaveLog(t)
        BY <3>2 DEF EnterLog, LeaveLog
      <3>3. CASE Lock(t) \/ FormatReading(t) \/ Unlock(t)
        BY <3>3 DEF Lock, FormatReading, Unlock
      <3>4. CASE Send(t)
        BY <3>4 DEF Send
      <3>5. CASE SendToGone(t) \/ SendRaisesSigpipe(t)
        BY <3>5 DEF SendToGone, SendRaisesSigpipe, threadVars
      <3>6. QED
        BY <1>3, <3>1, <3>2, <3>3, <3>4, <3>5 DEF Loop
    <2>2. QED
      BY <1>1, <2>1
  <1>4. ASSUME NEW p \in Threads, Catch(p) \/ Handler(p) PROVE Kept
    <2>1. UNCHANGED <<pc, sample, spawned>>
      BY <1>4 DEF Catch, Handler, HandlerLog, HandlerShutdown, HandlerExit, threadVars
    <2>2. QED
      BY <1>1, <2>1
  <1>5. ASSUME Peer PROVE Kept
    <2>1. UNCHANGED <<pc, sample, spawned>>
      BY <1>5 DEF Peer, Connect, Take, PeerGone, ResetArrives, threadVars
    <2>2. QED
      BY <1>1, <2>1
  <1>6. Kept
    BY <1>2, <1>3, <1>4, <1>5 DEF Common
  <1>7. QED
    BY <1>6 DEF ProbeInv, HardwareTypeOK, hwVars

\* The step that ends a probe leaves the thread without one.
LEMMA SampledKeepsProbes ==
  ASSUME ProbeInv, TypeOK', NEW t \in Sensors, NEW a \in BOOLEAN, Sampled(t, a),
         held' \in 0..FdLimit, UNCHANGED <<echo, heard>>,
         data' \in [1..3 -> Byte \X Byte], probe[t] # "none" \/ Starts(t)
  PROVE  ProbeInv'
  <1>1. /\ probe' = [probe EXCEPT ![t] = "none"]
        /\ pc' = [pc EXCEPT ![t] = "lock"]
        /\ sample' = [sample EXCEPT ![t] = [sensor |-> t, alert |-> a,
                                            serial |-> sample[t].serial + 1]]
        /\ UNCHANGED spawned
    BY DEF Sampled, OtherVars
  <1>2. t \in spawned
    BY DEF ProbeInv, Starts, At
  <1>3. HardwareTypeOK'
    BY <1>1 DEF HardwareTypeOK, ProbeInv
  <1>4. \A u \in Sensors \ {t} : /\ pc'[u] = pc[u] /\ probe'[u] = probe[u]
                                 /\ sample'[u] = sample[u]
    BY <1>1
  <1>5. probe'[t] = "none" /\ pc'[t] = "lock"
    BY <1>1 DEF ProbeInv, HardwareTypeOK, TypeOK
  <1>6. QED
    BY <1>1, <1>2, <1>3, <1>4, <1>5 DEF ProbeInv

LEMMA ProbeKeepsProbes ==
  ASSUME ProbeInv, TypeOK', NEW t \in Sensors, Ping(t) \/ I2c(t)
  PROVE  ProbeInv'
  <1> USE HardwareAssumption DEF ProbeInv, HardwareTypeOK, TypeOK, At, Starts, Probing, CanOpen
  <1>1. CASE TrigHigh(t)
    BY <1>1 DEF TrigHigh, vars, threadVars
  <1>2. CASE TrigLow(t)
    <2>1. echo' \in {"low", "armed", "high"} /\ heard' \in BOOLEAN
      BY <1>2 DEF TrigLow
    <2>2. /\ UNCHANGED <<pc, sample, spawned, held, data>>
          /\ probe' = [probe EXCEPT ![t] = "echo"] /\ probe[t] = "raised" /\ pc[t] = "sample"
      BY <1>2 DEF TrigLow, vars, threadVars
    <2>3. probe' \in [Sensors -> {"none", "raised", "echo", "opened"}]
      BY <2>2
    <2> HIDE DEF TypeOK, CanOpen, At, Starts, Probing
    <2>4. HardwareTypeOK'
      BY <2>1, <2>2, <2>3
    <2>5. /\ \A u \in Sensors \ {t} : probe'[u] = probe[u]
          /\ probe'[t] = "echo" /\ t = Pinger
      BY <2>2
    <2>6. /\ t \in spawned /\ sample[t].serial < MaxSerial /\ pc[t] = "sample"
          /\ \A u \in Sensors :
               /\ pc[u] # "none" => u \in spawned
               /\ probe[u] # "none" => pc[u] = "sample" /\ sample[u].serial < MaxSerial
               /\ probe[u] = "opened" => u = Accel
               /\ probe[u] \in {"raised", "echo"} => u = Pinger
      BY <2>2
    <2> HIDE DEF HardwareTypeOK, ProbeInv
    <2>7. \A u \in Sensors :
            /\ pc'[u] # "none" => u \in spawned'
            /\ probe'[u] # "none" => pc'[u] = "sample" /\ sample'[u].serial < MaxSerial
            /\ probe'[u] = "opened" => u = Accel
            /\ probe'[u] \in {"raised", "echo"} => u = Pinger
      <3> SUFFICES ASSUME NEW u \in Sensors
                   PROVE  /\ pc[u] # "none" => u \in spawned
                          /\ probe'[u] # "none" => pc[u] = "sample" /\ sample[u].serial < MaxSerial
                          /\ probe'[u] = "opened" => u = Accel
                          /\ probe'[u] \in {"raised", "echo"} => u = Pinger
        BY <2>2
      <3>1. CASE u = t
        BY <2>5, <2>6, <3>1
      <3>2. CASE u # t
        BY <2>5, <2>6, <3>2
      <3>3. QED
        BY <3>1, <3>2
    <2>8. QED
      BY <2>4, <2>7 DEF ProbeInv
  <1>3. CASE TrigFails(t)
    <2>1. held' \in 0..FdLimit
      <3>1. GpioFails /\ held \in 0..FdLimit
        BY <1>3 DEF TrigFails
      <3> HIDE DEF ProbeInv, HardwareTypeOK, TypeOK, At, Starts, Probing
      <3>2. QED
        BY <3>1 DEF GpioFails
    <2>2. Sampled(t, TRUE) /\ UNCHANGED <<echo, heard, data>> /\ (probe[t] # "none" \/ Starts(t))
      BY <1>3 DEF TrigFails
    <2> HIDE DEF ProbeInv, TypeOK, At, Starts, Probing, CanOpen
    <2>3. QED
      BY <2>1, <2>2, SampledKeepsProbes DEF ProbeInv
  <1>4. CASE EchoIsHigh(t)
    <2>1. UNCHANGED <<pc, sample, spawned, probe, held, echo, data>> /\ heard' \in BOOLEAN
      BY <1>4 DEF EchoIsHigh, vars, threadVars
    <2> HIDE DEF TypeOK, CanOpen, At, Starts, Probing
    <2>2. HardwareTypeOK'
      BY <2>1
    <2>3. QED
      BY <2>1, <2>2
  <1>5. CASE EchoIsLow(t)
    <2>1. held' \in 0..FdLimit
      <3>1. (UNCHANGED held \/ GpioFails) /\ held \in 0..FdLimit
        BY <1>5 DEF EchoIsLow
      <3> HIDE DEF ProbeInv, HardwareTypeOK, TypeOK, At, Starts, Probing
      <3>2. QED
        BY <3>1 DEF GpioFails
    <2>2. PICK a \in Kinds : Sampled(t, a)
      BY <1>5 DEF EchoIsLow
    <2>3. UNCHANGED <<echo, heard, data>> /\ probe[t] # "none" /\ a \in BOOLEAN
      BY <1>5, ServerAssumption DEF EchoIsLow
    <2> HIDE DEF ProbeInv, TypeOK, At, Starts, Probing, CanOpen
    <2>4. QED
      BY <2>1, <2>2, <2>3, SampledKeepsProbes DEF ProbeInv
  <1>6. CASE I2cOpen(t)
    <2>1. /\ UNCHANGED <<pc, sample, spawned, echo, heard, data>> /\ t = Accel
          /\ held' = held + 1 /\ held < FdLimit /\ probe' = [probe EXCEPT ![t] = "opened"]
          /\ pc[t] = "sample" /\ sample[t].serial < MaxSerial
      BY <1>6 DEF I2cOpen, vars, threadVars
    <2> HIDE DEF TypeOK, CanOpen, At, Starts, Probing
    <2>2. held' \in 0..FdLimit
      BY <2>1
    <2>3. probe' \in [Sensors -> {"none", "raised", "echo", "opened"}]
      BY <2>1
    <2>4. HardwareTypeOK'
      BY <2>1, <2>2, <2>3
    <2>5. ASSUME NEW u \in Sensors
          PROVE  /\ pc'[u] # "none" => u \in spawned'
                 /\ probe'[u] # "none" => pc'[u] = "sample" /\ sample'[u].serial < MaxSerial
                 /\ probe'[u] = "opened" => u = Accel
                 /\ probe'[u] \in {"raised", "echo"} => u = Pinger
      <3>1. CASE u = t
        BY <2>1, <3>1
      <3>2. CASE u # t
        BY <2>1, <3>2
      <3>3. QED
        BY <3>1, <3>2
    <2>6. QED
      BY <2>4, <2>5
  <1>7. CASE I2cRead(t)
    BY <1>7 DEF I2cRead, Sampled, OtherVars
  <1>8. CASE I2cFails(t)
    BY <1>8 DEF I2cFails, hwVars, threadVars
  <1>9. QED
    BY <1>1, <1>2, <1>3, <1>4, <1>5, <1>6, <1>7, <1>8 DEF Ping, I2c

LEMMA ProbeInvStep ==
  ASSUME ProbeInv, TypeOK', [HwNext]_allVars
  PROVE  ProbeInv'
  <1>1. CASE Line
    BY <1>1 DEF Line, EchoRises, EchoFalls, vars, threadVars, ProbeInv, HardwareTypeOK
  <1>2. CASE UNCHANGED allVars
    BY <1>2 DEF allVars, hwVars, vars, threadVars, ProbeInv, HardwareTypeOK
  <1>3. QED
    BY <1>1, <1>2, CommonKeepsProbes, ProbeKeepsProbes DEF HwNext

LEMMA InitHardware == HwInit => ServerInv /\ ProbeInv /\ Stream!Init
  <1> SUFFICES ASSUME HwInit PROVE ServerInv /\ ProbeInv /\ Stream!Init
    OBVIOUS
  <1>1. ServerInv /\ Stream!Init
    BY InitType, InitBuffer, InitHandler, InitConn, InitSerial DEF HwInit, ServerInv
  <1>2. HardwareTypeOK
    <2>1. data \in [1..3 -> Byte \X Byte]
      BY DEF HwInit, Byte
    <2>2. probe \in [Sensors -> {"none", "raised", "echo", "opened"}] /\ held \in 0..FdLimit
      BY HardwareAssumption DEF HwInit
    <2>3. QED
      BY <1>1, <2>1, <2>2 DEF HwInit, HardwareTypeOK, ServerInv, TypeInv
  <1>3. QED
    BY <1>1, <1>2 DEF HwInit, Init, ProbeInv

LEMMA HardwareStep ==
  ServerInv /\ ProbeInv /\ [HwNext]_allVars
    => ServerInv' /\ ProbeInv' /\ [Stream!Next]_sent
  <1> SUFFICES ASSUME ServerInv, ProbeInv, [HwNext]_allVars
               PROVE  ServerInv' /\ ProbeInv' /\ [Stream!Next]_sent
    OBVIOUS
  <1>1. ServerInv' /\ [Stream!Next]_sent
    BY HwStep, ServerStep
  <1>2. QED
    BY <1>1, ProbeInvStep DEF ServerInv, TypeInv

LEMMA HardwareInvariant == HwSpec => [](ServerInv /\ ProbeInv)
  BY InitHardware, HardwareStep, PTL DEF HwSpec

\* Every variable keeps its type; no more descriptors are held than there are.
THEOREM HardwareTypeCorrect == HwSpec => []HardwareTypeOK
  <1>1. ProbeInv => HardwareTypeOK
    BY DEF ProbeInv
  <1>2. QED
    BY HardwareInvariant, <1>1, PTL

\* With the real sensors too, a thread that calls send() finds in the global buffer the
\* line of the reading it just sampled, however long a line or the bus keeps the others.
THEOREM HardwareBufferProtected == HwSpec => []BufferIsMine
  <1>1. ServerInv => BufferIsMine
    BY DEF ServerInv, BufferInv
  <1>2. QED
    BY HardwareInvariant, <1>1, PTL

\* A thread that waits for ECHO or is inside an I2C call does not let main() get past
\* its joins either, and the exit(1) of the I2C code ends the process without them.
THEOREM HardwareMainStays == HwSpec => []MainNeverReturns
  <1>1. ServerInv => MainNeverReturns
    BY DEF ServerInv, HandlerInv
  <1>2. QED
    BY HardwareInvariant, <1>1, PTL

\* The server with the real sensors keeps the promise of SensorStream too, whatever
\* the lines and the bus do.
THEOREM HardwareImplementsStream == HwSpec => StreamPromise
  BY InitHardware, HardwareStep, HardwareInvariant, PTL
  DEF HwSpec, StreamPromise, Stream!Spec
-----------------------------------------------------------------------------
(***************************************************************************)
(* Alerts.                                                                 *)
(***************************************************************************)
TiltInv == pc[Accel] \in {"lock", "format", "send"} => (sample[Accel].alert <=> Tilted(data))

LEMMA TiltKept ==
  ASSUME ProbeInv, TiltInv, UNCHANGED <<sample, data>>,
         pc'[Accel] \in {"lock", "format", "send"} => pc[Accel] \in {"lock", "format", "send"}
  PROVE  TiltInv'
  BY DEF TiltInv, Tilted, Axis

LEMMA TiltStep ==
  ASSUME ProbeInv, TiltInv, [HwNext]_allVars
  PROVE  TiltInv'
  <1>1. CASE Common /\ UNCHANGED hwVars
    <2>1. /\ UNCHANGED sample
          /\ pc'[Accel] \in {"lock", "format", "send"}
               => pc[Accel] \in {"lock", "format", "send"}
      BY <1>1, HardwareAssumption
      DEF Common, Loop, MainStep, Setup, SetupFails, Accept, AcceptFails, AcceptLog, AcceptExit,
       Spawn, SpawnFails, StopLog, StopExit, Test, ThreadExit, EnterLog, LeaveLog, Lock,
       FormatReading, Send, SendToGone, SendRaisesSigpipe, Unlock, Catch, Handler, HandlerLog, HandlerShutdown,
       HandlerExit, Peer, Connect, Take, PeerGone, ResetArrives, At, threadVars,
       ProbeInv, HardwareTypeOK, TypeOK
    <2>2. QED
      BY <1>1, <2>1, TiltKept DEF hwVars
  <1>2. ASSUME NEW t \in Sensors, TrigHigh(t) \/ TrigLow(t) \/ EchoIsHigh(t) \/ I2cOpen(t)
        PROVE  TiltInv'
    BY <1>2, TiltKept DEF TrigHigh, TrigLow, EchoIsHigh, I2cOpen, vars, threadVars
  <1>3. ASSUME NEW t \in Sensors, TrigFails(t) \/ EchoIsLow(t) PROVE TiltInv'
    <2>1. t = Pinger
      BY <1>3 DEF TrigFails, EchoIsLow, Probing, ProbeInv
    <2>2. sample'[Accel] = sample[Accel] /\ pc'[Accel] = pc[Accel] /\ data' = data
      BY <1>3, <2>1, HardwareAssumption
      DEF TrigFails, EchoIsLow, Sampled, ProbeInv, HardwareTypeOK, TypeOK
    <2>3. QED
      BY <2>2 DEF TiltInv, Tilted, Axis
  <1>4. ASSUME NEW t \in Sensors, I2cRead(t) PROVE TiltInv'
    <2>1. t = Accel
      BY <1>4 DEF I2cRead, Probing, ProbeInv
    <2>2. sample'[Accel].alert = Tilted(data')
      BY <1>4, <2>1 DEF I2cRead, Sampled, ProbeInv, HardwareTypeOK, TypeOK
    <2>3. QED
      BY <2>2 DEF TiltInv, Tilted, Axis
  <1>5. ASSUME NEW t \in Sensors, I2cFails(t) PROVE TiltInv'
    BY <1>5, TiltKept DEF I2cFails, hwVars, threadVars
  <1>6. CASE Line \/ UNCHANGED allVars
    BY <1>6, TiltKept DEF Line, EchoRises, EchoFalls, allVars, hwVars, vars, threadVars
  <1>7. QED
    BY <1>1, <1>2, <1>3, <1>4, <1>5, <1>6 DEF HwNext, Ping, I2c

\* An S4 alert is sent exactly when all three measured accelerations are negative,
\* for whatever the registers may hold.
THEOREM AlertsAreTilts == HwSpec => []AlertIsTilt
  <1>1. HwInit => TiltInv
    BY HardwareAssumption DEF HwInit, Init, TiltInv
  <1>2. ProbeInv /\ TiltInv => AlertIsTilt
    <2> SUFFICES ASSUME ProbeInv, TiltInv, pc[Accel] \in {"lock", "format", "send"},
                        \A a \in 1..3 : SignExtended(data[a])
                 PROVE  sample[Accel].alert <=> \A a \in 1..3 : Signed16(data[a]) < 0
      BY DEF AlertIsTilt
    <2>1. \A a \in 1..3 : Axis(data[a]) = Signed16(data[a])
      BY AxisIsSigned DEF ProbeInv, HardwareTypeOK
    <2>2. Tilted(data) <=> \A a \in 1..3 : Signed16(data[a]) < 0
      BY <2>1 DEF Tilted
    <2>3. QED
      BY <2>2 DEF TiltInv
  <1>3. QED
    BY <1>1, <1>2, TiltStep, HardwareInvariant, PTL DEF HwSpec
=============================================================================
