---------------------------- MODULE HardwareServer ----------------------------
(***************************************************************************)
(* Client/SocketServer_sensors.c: SensorServer with two real sensors in    *)
(* place of rand(), a distance sensor on two GPIO pins and an ADXL345      *)
(* accelerometer on the I2C bus.  main(), the handler and the loop around  *)
(* the sampling are those of SensorServer; Sample is replaced by the steps *)
(* of read_sensor_data() and of i2c_sensor_read().                         *)
(*                                                                         *)
(* Client/socketserver_ultasonic.c is the same program with another scale  *)
(* for the distance, and 18 for 60 where it becomes an alert.              *)
(***************************************************************************)
EXTENDS SensorServer

CONSTANTS
  Pinger,             \* the digit of the distance sensor
  Accel,              \* the digit of the accelerometer
  FdLimit,            \* descriptors the process may still open
  RawData,            \* bound: what the data registers may hold, for the 3 axes
  HwFaults            \* which calls may fail: "gpio", "i2c"

Byte == 0..255

ASSUME HardwareAssumption ==
  /\ Sensors = {Pinger, Accel} /\ Pinger # Accel
  /\ Kinds = BOOLEAN
  /\ FdLimit \in Nat
  /\ RawData \subseteq [1..3 -> Byte \X Byte]
  /\ HwFaults \subseteq {"gpio", "i2c"}

VARIABLES
  probe,          \* where each thread is inside the read function of its sensor
  held,           \* how many descriptors are open that nobody will close
  echo,           \* the ECHO line: "low", "armed" (a pulse may come) or "high"
  heard,          \* was ECHO seen high since the last trigger?
  data            \* the accelerometer's data registers when they were read last

hwVars == <<probe, held, echo, heard, data>>
allVars == <<vars, hwVars>>

HardwareTypeOK ==
  /\ TypeOK
  /\ probe \in [Sensors -> {"none", "raised", "echo", "opened"}]
  /\ held \in 0..FdLimit
  /\ echo \in {"low", "armed", "high"}
  /\ heard \in BOOLEAN
  /\ data \in [1..3 -> Byte \X Byte]

HwInit ==
  /\ Init
  /\ probe = [t \in Sensors |-> "none"]
  /\ held = 0
  /\ echo = "low" /\ heard = FALSE
  /\ data = [a \in 1..3 |-> <<0, 0>>]
-----------------------------------------------------------------------------
(***************************************************************************)
(* A call of a read function starts when its thread samples.  Its result   *)
(* is the reading, with which the thread goes on to the mutex.             *)
(***************************************************************************)
CanOpen == held < FdLimit

Starts(t) == At(t, "sample") /\ probe[t] = "none" /\ sample[t].serial < MaxSerial
Probing(t, l) == At(t, "sample") /\ probe[t] = l

OtherVars == <<proc, sockVars, connVars, main, spawned, rdBuff, socklock, logOwner, sigVars>>

Sampled(t, a) ==
  /\ sample' = [sample EXCEPT ![t] = [sensor |-> t, alert |-> a,
                                      serial |-> sample[t].serial + 1]]
  /\ pc' = [pc EXCEPT ![t] = "lock"]
  /\ probe' = [probe EXCEPT ![t] = "none"]
  /\ UNCHANGED OtherVars
-----------------------------------------------------------------------------
(***************************************************************************)
(* read_sensor_data().  GPIOWrite and GPIORead open the pin's file, and    *)
(* return -1 without closing it when the write or the read fails.          *)
(***************************************************************************)
GpioFails ==
  \/ ~ CanOpen /\ UNCHANGED held
  \/ "gpio" \in HwFaults /\ UNCHANGED held
  \/ "gpio" \in HwFaults /\ CanOpen /\ held' = held + 1

\* A mutated form of TrigHigh: the measurement is inside the critical section.
TrigHighLocked(t) ==
  /\ Starts(t) /\ t = Pinger
  /\ CanOpen
  /\ socklock = Nobody /\ socklock' = t
  /\ probe' = [probe EXCEPT ![t] = "raised"]
  /\ UNCHANGED <<proc, sockVars, connVars, main, spawned, pc, sample, rdBuff, logOwner, sigVars,
                 held, echo, heard, data>>

\* GPIOWrite(TRIG, 1); usleep(30)
TrigHigh(t) ==
  /\ Starts(t) /\ t = Pinger
  /\ CanOpen
  /\ probe' = [probe EXCEPT ![t] = "raised"]
  /\ UNCHANGED <<vars, held, echo, heard, data>>

\* GPIOWrite(TRIG, 0); start = getTimeUsec()
TrigLow(t) ==
  /\ Probing(t, "raised")
  /\ CanOpen
  /\ probe' = [probe EXCEPT ![t] = "echo"]
  /\ echo' = IF echo = "low" THEN "armed" ELSE echo
  /\ heard' = FALSE
  /\ UNCHANGED <<vars, held, data>>

\* One of the two fails: return(3), which is a distance and an alert.
TrigFails(t) ==
  /\ t = Pinger
  /\ Starts(t) \/ Probing(t, "raised")
  /\ GpioFails
  /\ Sampled(t, TRUE)
  /\ UNCHANGED <<echo, heard, data>>

\* while(GPIORead(ECHO)==1);
EchoIsHigh(t) ==
  /\ Probing(t, "echo")
  /\ CanOpen /\ echo = "high"
  /\ heard' = TRUE
  /\ UNCHANGED <<vars, probe, held, echo, data>>

\* ECHO is low, or cannot be read: the distance follows from the time since start.
EchoIsLow(t) ==
  /\ Probing(t, "echo")
  /\ \/ CanOpen /\ echo # "high" /\ UNCHANGED held
     \/ GpioFails
  /\ \E a \in Kinds : Sampled(t, a)
  /\ UNCHANGED <<echo, heard, data>>

\* The sensor's end of the line: a pulse after the trigger, sooner or later or, when
\* there is no sensor, never.
EchoRises ==
  /\ proc = "up" /\ echo = "armed"
  /\ echo' = "high"
  /\ UNCHANGED <<vars, probe, held, heard, data>>

EchoFalls ==
  /\ proc = "up" /\ echo = "high"
  /\ echo' = "low"
  /\ UNCHANGED <<vars, probe, held, heard, data>>
-----------------------------------------------------------------------------
(***************************************************************************)
(* i2c_sensor_read()                                                       *)
(***************************************************************************)
\* Mutated forms of Axis: 512 is taken for a positive value...
AxisPastBoundary(d) ==
  LET raw == (d[2] % 4) * 256 + d[1] IN IF raw > 512 THEN raw - 1024 ELSE raw

\* ... and the real one.  d is the pair of the low and the high byte of an axis.
Axis(d) ==
  LET raw == (d[2] % 4) * 256 + d[1] IN IF raw > 511 THEN raw - 1024 ELSE raw

\* (xa < 0) && (xb < 0) && (xc < 0)
Tilted(d) == \A a \in 1..3 : Axis(d[a]) < 0

\* A mutated form of I2cOpen: the result of open() is not looked at.
I2cOpenUnchecked(t) ==
  /\ Starts(t) /\ t = Accel
  /\ held' = held + 1
  /\ probe' = [probe EXCEPT ![t] = "opened"]
  /\ UNCHANGED <<vars, echo, heard, data>>

\* open("/dev/i2c-1"), ioctl, three configuration writes; sleep(1)
I2cOpen(t) ==
  /\ Starts(t) /\ t = Accel
  /\ CanOpen
  /\ held' = held + 1
  /\ probe' = [probe EXCEPT ![t] = "opened"]
  /\ UNCHANGED <<vars, echo, heard, data>>

\* Reads the data registers, and returns without closing the bus.
I2cRead(t) ==
  /\ Probing(t, "opened")
  /\ \E d \in RawData : data' = d /\ Sampled(t, Tilted(d))
  /\ UNCHANGED <<held, echo, heard>>

\* Any call that fails: exit(1), and with it the other sensor.
I2cFails(t) ==
  /\ t = Accel
  /\ \/ Starts(t) /\ ~ CanOpen
     \/ Starts(t) /\ "i2c" \in HwFaults
     \/ Probing(t, "opened") /\ "i2c" \in HwFaults
  /\ proc' = "failed"
  /\ UNCHANGED <<sockVars, connVars, main, spawned, threadVars, logOwner, sigVars, hwVars>>
-----------------------------------------------------------------------------
Ping(t) == TrigHigh(t) \/ TrigLow(t) \/ TrigFails(t) \/ EchoIsHigh(t) \/ EchoIsLow(t)
I2c(t) == I2cOpen(t) \/ I2cRead(t) \/ I2cFails(t)
Line == EchoRises \/ EchoFalls

\* What SensorServer and this server have in common.
Common ==
  \/ MainStep
  \/ \E t \in Sensors : Loop(t)
  \/ \E p \in Threads : Catch(p) \/ Handler(p)
  \/ Peer

HwNext ==
  \/ Common /\ UNCHANGED hwVars
  \/ \E t \in Sensors : Ping(t) \/ I2c(t)
  \/ Line

HwSpec == HwInit /\ [][HwNext]_allVars

\* Nothing is assumed of the ECHO line: it may be high for ever.
HwFairness ==
  /\ LoopFairness
  /\ \A t \in Sensors :
       WF_allVars(TrigHigh(t) \/ TrigLow(t) \/ EchoIsLow(t) \/ I2cOpen(t) \/ I2cRead(t))

HwFairSpec == HwSpec /\ HwFairness
-----------------------------------------------------------------------------
(***************************************************************************)
(* What makes the server correct, besides StreamPromise and                *)
(* SignalEndsServer of SensorServer: they must survive a line that is      *)
(* stuck, probes that fail and a process that runs out of descriptors.     *)
(***************************************************************************)
\* The registers hold a 10 bit value, extended to 16 bits by its sign.
SignExtended(d) == d[2] \in {0, 1, 254, 255}
Signed16(d) == LET raw == d[2] * 256 + d[1] IN IF raw > 32767 THEN raw - 65536 ELSE raw

\* The line that the accelerometer's thread is about to send is an alert exactly when
\* all three accelerations that the sensor measured for it were negative.
AlertIsTilt ==
  pc[Accel] \in {"lock", "format", "send"} /\ (\A a \in 1..3 : SignExtended(data[a])) =>
    (sample[Accel].alert <=> \A a \in 1..3 : Signed16(data[a]) < 0)

\* The distance sensor waits for ECHO without the mutex: when the line is stuck, the
\* accelerometer's thread still gets to send, unless the process ends.
AccelTurnComes ==
  pc[Accel] = "lock" ~> (pc[Accel] = "test" \/ proc # "up" \/ signal_flag = 0)

\* The comment on main(), "executes code until sigint or sigterm signal": when no
\* call of the sensors fails of itself, the server does not give up of itself.
DoesNotGiveUp == proc = "failed" => signals > 0

\* The comment in read_sensor_data(), "calculating the time ECHO pin is staying high":
\* when every GPIO call succeeds, a distance was taken from a pulse.
EchoMeasured == pc[Pinger] = "lock" => heard
=============================================================================
