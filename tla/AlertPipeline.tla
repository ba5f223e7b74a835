---------------------------- MODULE AlertPipeline ----------------------------
(***************************************************************************)
(* The deployment: sensor servers, the client and the display.  A server   *)
(* is here only what SensorStream promises of its connection, which        *)
(* SensorServer implements; the client and the display are SocketClient    *)
(* and AlertDisplay, and meet in the message queue.                        *)
(***************************************************************************)
EXTENDS SocketClient, AlertDisplay

CONSTANTS
  SensorsOf,          \* the sensors of each server
  Kinds,              \* bound: what a reading may be, some of {FALSE, TRUE}
  Cuts                \* how many of the 3 cells of a line a send() may take

ASSUME PipelineAssumption ==
  /\ SensorsOf \in [Servers -> SUBSET Sensors]
  /\ \A c, d \in Servers : c # d => SensorsOf[c] \cap SensorsOf[d] = {}
  /\ Kinds \subseteq BOOLEAN
  /\ Cuts \subseteq 1..3

vars == <<clientVars, displayOwn>>

TypeOK ==
  /\ QueueTypeOK
  /\ ClientTypeOK
  /\ dproc \in {"down", "up"}
  /\ dpc \in {"receive", "print", "on", "off"}
  /\ in_buffer \in Seq(Cells)
  /\ led \in [Leds -> {0, 1}]
  /\ received \in [Servers -> Nat]
  /\ shown \subseteq Readings

Init ==
  /\ QueueInit
  /\ ClientInit
  /\ DisplayInit
-----------------------------------------------------------------------------
\* Server c sends (a cut of) a reading that SensorStream allows after what its
\* connection carries.
Emit(c) ==
  /\ link[c] = "open"
  /\ \E r \in Readings, n \in Cuts :
       /\ r.sensor \in SensorsOf[c] /\ r.alert \in Kinds /\ r.serial > 0
       /\ Fresh(r, sent[c])
       /\ sent' = [sent EXCEPT ![c] = @ \o Prefix(Format(r), n)]
  /\ UNCHANGED <<taken, link, queueVars, ownVars, displayOwn>>

\* Server c ends, for one of the reasons SensorServer knows.
ServerEnds(c) ==
  /\ link[c] = "open"
  /\ link' = [link EXCEPT ![c] = "closed"]
  /\ UNCHANGED <<sent, taken, queueVars, ownVars, displayOwn>>

Client == ClientNext /\ UNCHANGED displayOwn
Display == DisplayNext /\ UNCHANGED <<linkVars, ownVars>>

Next ==
  \/ Client
  \/ Display
  \/ \E c \in Servers : Emit(c) \/ ServerEnds(c)

Spec == Init /\ [][Next]_vars

\* With a display that runs, and with one that nobody assumes anything of.
FairSpec == Spec /\ ClientFairness /\ DisplayFairness
FairClientSpec == Spec /\ ClientFairness
-----------------------------------------------------------------------------
(***************************************************************************)
(* What makes the pipeline correct.                                        *)
(***************************************************************************)
BeforeWrite(c) == cpc[c] \in {"lock", "write"}

\* The log file holds, of each server, exactly the text received so far, less the
\* chunk a thread is about to write: nothing twice, nothing left out, in order.
LogFollowsStream ==
  \A c \in Servers :
    logged[c] \o (IF BeforeWrite(c) THEN chunk[c] ELSE <<>>) = Prefix(sent[c], taken[c])

InHand(c) ==
  \/ cpc[c] = "forward"
  \/ cpc[c] = "written" /\ HasBang(chunk[c])

\* What the queue holds of a server is what the display has not taken yet, unaltered
\* and in the order of the log...
QueueInOrder ==
  \A i \in 1..Len(queue) :
    LET m == queue[i] IN
    /\ m.no \in (received[m.from] + 1)..Len(alerts[m.from])
    /\ m.text = alerts[m.from][m.no]
    /\ \A j \in 1..(i - 1) : queue[j].from = m.from => queue[j].no < m.no

\* ... and it is all of that, but for the newest, which a thread may have in hand.
NothingMissing ==
  \A c \in Servers : \A n \in (received[c] + 1)..Len(alerts[c]) :
    \/ \E i \in 1..Len(queue) : queue[i].from = c /\ queue[i].no = n
    \/ InHand(c) /\ n = Len(alerts[c])

\* Between the log and the display no alert is lost, repeated or overtaken by a
\* later one of its server, however long the queue is full and however often the
\* display ends and is started again.
AlertsConserved == QueueInOrder /\ NothingMissing

\* Client, queue and display implement AlertPath: the display has in its hands, one
\* after the other, the alerts of each server as they were logged, and a server's log
\* is never more than the full queue and one alert ahead of it.
Path == INSTANCE AlertPath WITH
  Sources <- Servers, Alerts <- {text \in Seq(Cells) : HasBang(text)}, Backlog <- MaxMessages,
  raised <- alerts, taken <- received, hand <- in_buffer
PathPromise == Path!Spec

WholeLines(text) ==
  \A i \in 1..Len(text) : text[i].part = <<"stamp", "mark", "id">>[((i - 1) % 3) + 1]

\* As long as send() took whole lines, the LED that is lit is the one of the sensor
\* whose alert is on the LCD, wherever recv() cut the lines and joined them.
LedTruth ==
  (dpc \in {"on", "off"} /\ \A c \in Servers : WholeLines(sent[c])) =>
    LedOf(in_buffer) = in_buffer[BangPlace(in_buffer)].of.sensor

\* And an LED that stays on, as its second write failed or the display was killed in its
\* sleep(1), belongs to an alert that was shown: a later display or a later message
\* never makes it a false one.
LedsTellAlerts ==
  (\A c \in Servers : WholeLines(sent[c])) =>
    \A s \in Leds : led[s] = 1 => \E r \in shown : r.alert /\ r.sensor = s

\* A thread waits for the queue with the file's mutex released: one that has
\* something to log gets to log it, whether or not there is a display, as long as no
\* thread spins through the mutex.
LogTurn ==
  \A c \in Servers :
    cpc[c] = "lock" ~>
      (cpc[c] \in {"written", "unwritten"} \/ OthersSpin(c) \/ cproc # "up")

\* The first alert of every chunk in the log gets onto the LCD.
FirstAlert(text) == text[BangPlace(text)].of
Forwarded(r) ==
  \E c \in Servers : \E n \in 1..Len(alerts[c]) : FirstAlert(alerts[c][n]) = r
AlertShown ==
  \A r \in {a \in Readings : a.alert /\ a.serial > 0} :
    Forwarded(r) ~> (r \in shown \/ cproc # "up")
=============================================================================
