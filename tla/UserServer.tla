----------------------------- MODULE UserServer -----------------------------
(***************************************************************************)
(* Client/socketuserserver.c: prints what a client types.  main() and      *)
(* handle_sig() are those of SensorServer with one thread, whose loop      *)
(* receives instead of sampling; nothing is sent.                          *)
(*                                                                         *)
(* The thread receives and prints at SensorServer's point "sample".  The   *)
(* characters that the client types are numbered from 1 on, 0 is '\0'.     *)
(***************************************************************************)
EXTENDS SensorServer

CONSTANTS
  User,           \* the one thread
  BufSize,        \* the size of rcv_cmd
  MaxTyped,       \* bound: how many characters the client types
  MaxFailures     \* bound: how often recv() fails

ASSUME UserAssumption ==
  /\ Sensors = {User} /\ Loggers = {}
  /\ BufSize \in Nat \ {0}
  /\ MaxTyped \in Nat
  /\ MaxFailures \in Nat

VARIABLES
  typed,          \* how many characters the client has typed
  read,           \* how many of them recv() has returned
  rcv_cmd,        \* the buffer
  received,       \* is the thread between recv() and printf()?
  failures,       \* how often recv() has failed
  printed         \* what printf() was given, without the line breaks

userVars == <<typed, read, rcv_cmd, received, failures, printed>>
serverVars == <<vars, userVars>>

\* In printed, the text "recv failed".
Notice == -1

UserTypeOK ==
  /\ TypeOK
  /\ typed \in 0..MaxTyped
  /\ read \in 0..typed
  /\ rcv_cmd \in [1..BufSize -> 0..MaxTyped]
  /\ received \in BOOLEAN
  /\ failures \in 0..MaxFailures
  /\ printed \in Seq((1..MaxTyped) \cup {Notice})

Zeros == [i \in 1..BufSize |-> 0]

UserInit ==
  /\ Init
  /\ typed = 0 /\ read = 0
  /\ rcv_cmd = Zeros
  /\ received = FALSE
  /\ failures = 0
  /\ printed = <<>>
-----------------------------------------------------------------------------
Receiving == At(User, "sample") /\ ~ received

\* recv() may return n: of what was typed, some that fits; 0 only behind the last
\* character of a client that has left, or of a connection that was shut down.
MayReturn(n) == n <= typed - read /\ (n = 0 => read = typed /\ conn # "open")

\* The buffer gets the next n characters; behind them it stays as it was.
Store(n, old) ==
  /\ rcv_cmd' = [i \in 1..BufSize |-> IF i <= n THEN read + i ELSE old[i]]
  /\ received' = TRUE
  /\ UNCHANGED <<vars, typed>>

\* Mutated forms of Recv: the buffer is neither cleared nor terminated...
RecvOver ==
  /\ Receiving
  /\ \E n \in 0..BufSize : MayReturn(n) /\ Store(n, rcv_cmd) /\ read' = read + n
  /\ UNCHANGED <<failures, printed>>

\* ... what a client has left behind is not received any more...
RecvUnlessGone ==
  /\ Receiving
  /\ \E n \in 0..BufSize :
       (MayReturn(n) \/ n = 0) /\ (n = 0 <=> conn # "open") /\ Store(n, Zeros) /\ read' = read + n
  /\ UNCHANGED <<failures, printed>>

\* ... or sizeof(rcv_cmd) is taken for its length.
RecvWhole ==
  /\ Receiving
  /\ \E n \in 0..BufSize : MayReturn(n) /\ Store(n, Zeros) /\ read' = read + BufSize
  /\ UNCHANGED <<failures, printed>>

\* char rcv_cmd[80]={0}; length = recv(newfd, rcv_cmd, 80, 0); rcv_cmd[length] = '\0'.
\* It waits for a character, or returns 0 at once, again and again.
Recv ==
  /\ Receiving
  /\ \E n \in 0..BufSize : MayReturn(n) /\ Store(n, Zeros) /\ read' = read + n
  /\ UNCHANGED <<failures, printed>>

\* recv() fails: perror("recv"), printf("recv failed"), and the empty buffer is printed
\* like any other.
RecvFails ==
  /\ Receiving /\ failures < MaxFailures
  /\ Store(0, Zeros)
  /\ failures' = failures + 1
  /\ printed' = Append(printed, Notice)
  /\ UNCHANGED read

\* printf("%s\n", rcv_cmd), up to the first '\0'; then the loop's test.
PrintLine ==
  /\ At(User, "sample") /\ received
  /\ \E n \in 0..BufSize :
       /\ \A i \in 1..n : rcv_cmd[i] # 0
       /\ n < BufSize => rcv_cmd[n + 1] = 0
       /\ printed' = printed \o SubSeq(rcv_cmd, 1, n)
  /\ received' = FALSE
  /\ pc' = [pc EXCEPT ![User] = "test"]
  /\ UNCHANGED <<proc, sockVars, connVars, main, spawned, sample, rdBuff, socklock, logOwner,
                 sigVars, typed, read, rcv_cmd, failures>>

\* The client's end: it types while it is there.
Type ==
  /\ proc = "up" /\ conn = "open" /\ typed < MaxTyped
  /\ typed' = typed + 1
  /\ UNCHANGED <<vars, read, rcv_cmd, received, failures, printed>>
-----------------------------------------------------------------------------
Skeleton ==
  \/ MainStep
  \/ Test(User) \/ ThreadExit(User)
  \/ \E p \in Threads : Catch(p) \/ Handler(p)
  \/ Connect \/ PeerGone

UserNext ==
  \/ Skeleton /\ UNCHANGED userVars
  \/ Recv \/ RecvFails \/ PrintLine \/ Type

UserSpec == UserInit /\ [][UserNext]_serverVars

\* As in SensorServer; a recv() that may fail does not fail for ever.
UserFairSpec ==
  /\ UserSpec /\ LoopFairness
  /\ SF_serverVars(Recv) /\ WF_serverVars(PrintLine)
-----------------------------------------------------------------------------
(***************************************************************************)
(* What makes the server correct, besides SignalEndsServer: its thread may *)
(* be waiting in recv(), or spinning on a connection that has ended.       *)
(***************************************************************************)
Shown(i) == \E j \in 1..Len(printed) : printed[j] = i

\* The terminal shows what was typed, each character once and in order, between the
\* notices that recv() failed: the buffer of one round never shows through in the next,
\* whatever recv() cuts off and when it fails.
PrintedIsTyped ==
  /\ \A i, j \in 1..Len(printed) :
       i < j /\ printed[i] # Notice /\ printed[j] # Notice => printed[i] < printed[j]
  /\ \A i \in 1..Len(printed) : printed[i] <= read
  /\ ~ received => \A i \in 1..read : Shown(i)

\* A character gets printed although the client leaves as soon as it is typed, unless
\* the process ends.
TypedIsPrinted ==
  \A i \in 1..MaxTyped : typed >= i ~> (Shown(i) \/ proc # "up")
=============================================================================
