--------------------------- MODULE UserServer_proof ---------------------------
(***************************************************************************)
(* Proofs about UserServer.  But for recv() and printf(), its steps are    *)
(* steps of SensorServer, so what SensorServer_proof shows of main() and   *)
(* the handler carries over; and the terminal shows what was typed, for    *)
(* every size of the buffer and every way recv() cuts the characters or    *)
(* fails.                                                                  *)
(***************************************************************************)
EXTENDS UserServer, SensorServer_proof

-----------------------------------------------------------------------------
(***************************************************************************)
(* What carries over.                                                      *)
(***************************************************************************)
\* The step that SensorServer does not have: the thread is at its loop's test again.
RoundEnds ==
  /\ At(User, "sample")
  /\ pc' = [pc EXCEPT ![User] = "test"]
  /\ UNCHANGED <<proc, sockVars, connVars, main, spawned, sample, rdBuff, socklock, logOwner,
                 sigVars>>

LEMMA UserStep == [UserNext]_serverVars => [Next]_vars \/ RoundEnds
  <1>1. User \in Sensors
    BY UserAssumption
  <1>2. Skeleton => Next
    BY <1>1 DEF Skeleton, Next, Thread, Loop, Peer
  <1>3. Recv \/ RecvFails \/ Type => UNCHANGED vars
    BY DEF Recv, RecvFails, Store, Type
  <1>4. PrintLine => RoundEnds
    BY DEF PrintLine, RoundEnds
  <1>5. QED
    BY <1>2, <1>3, <1>4 DEF UserNext, serverVars

LEMMA RoundKeeps == TypeInv /\ HandlerInv /\ RoundEnds => TypeInv' /\ HandlerInv'
  <1> SUFFICES ASSUME TypeInv, HandlerInv, RoundEnds PROVE TypeInv' /\ HandlerInv'
    OBVIOUS
  <1> USE UserAssumption DEF RoundEnds, At, sockVars, connVars, sigVars, TypeInv, TypeOK
  <1>1. TypeInv'
    BY DEF Room, ThreadPoints
  <1>2. HandlerInv'
    BY DEF HandlerInv, BeforeClient, MainNeverReturns
  <1>3. QED
    BY <1>1, <1>2

LEMMA UserServerStep ==
  TypeInv /\ HandlerInv /\ [UserNext]_serverVars => TypeInv' /\ HandlerInv'
  BY UserStep, RoundKeeps, TypeStep, HandlerStep

LEMMA UserServerInvariant == UserSpec => [](TypeInv /\ HandlerInv)
  <1>1. UserInit => TypeInv /\ HandlerInv
    BY InitType, InitHandler DEF UserInit
  <1>2. QED
    BY <1>1, UserServerStep, PTL DEF UserSpec

\* This server too never gets past its join, however many signals are taken by main()
\* or the thread that receives.
THEOREM UserMainStays == UserSpec => []MainNeverReturns
  <1>1. HandlerInv => MainNeverReturns
    BY DEF HandlerInv
  <1>2. QED
    BY UserServerInvariant, <1>1, PTL

-----------------------------------------------------------------------------
(***************************************************************************)
(* What is on the terminal.                                                *)
(***************************************************************************)
\* A text that tells the first m characters: each of them once and in order, and between
\* them notices only.
Tells(p, m) ==
  /\ \A i \in 1..Len(p) : p[i] = Notice \/ p[i] \in 1..m
  /\ \A i, j \in 1..Len(p) : i < j /\ p[i] # Notice /\ p[j] # Notice => p[i] < p[j]
  /\ \A k \in 1..m : \E j \in 1..Len(p) : p[j] = k

\* Between recv() and printf() the buffer holds n characters, those that follow on the m
\* that were printed, and nothing of an earlier round behind them.
Holds(m, n) ==
  /\ read = m + n
  /\ \A i \in 1..BufSize : rcv_cmd[i] = IF i <= n THEN m + i ELSE 0

Round(m) ==
  /\ Tells(printed, m)
  /\ IF received THEN \E n \in 0..BufSize : Holds(m, n) ELSE read = m

TerminalInv ==
  /\ read \in Nat
  /\ rcv_cmd \in [1..BufSize -> Nat]
  /\ received \in BOOLEAN
  /\ printed \in Seq(Int)
  /\ \E m \in Nat : Round(m)

LEMMA TerminalInit == UserInit => TerminalInv
  <1> SUFFICES ASSUME UserInit PROVE TerminalInv
    OBVIOUS
  <1>1. rcv_cmd \in [1..BufSize -> Nat]
    BY UserAssumption DEF UserInit, Zeros
  <1>2. /\ read = 0 /\ received = FALSE
        /\ printed \in Seq(Int) /\ Len(printed) = 0
    BY EmptySeq DEF UserInit
  <1>3. Round(0)
    BY <1>2 DEF Round, Tells
  <1>4. 0 \in Nat
    OBVIOUS
  <1>5. QED
    BY <1>1, <1>2, <1>3, <1>4 DEF TerminalInv

\* A notice among them changes nothing.
LEMMA NoticeTells ==
  ASSUME NEW p \in Seq(Int), NEW m \in Nat, Tells(p, m)
  PROVE  Append(p, Notice) \in Seq(Int) /\ Tells(Append(p, Notice), m)
  <1>1. Notice \in Int /\ Len(p) \in Nat
    BY LenProperties DEF Notice
  <1>2. /\ Append(p, Notice) \in Seq(Int)
        /\ Len(Append(p, Notice)) = Len(p) + 1
        /\ \A i \in 1..Len(p) : Append(p, Notice)[i] = p[i]
        /\ Append(p, Notice)[Len(p) + 1] = Notice
    BY <1>1, AppendProperties
  <1> DEFINE q == Append(p, Notice)
  <1>3. /\ Len(q) = Len(p) + 1 /\ q[Len(p) + 1] = Notice
        /\ \A i \in 1..Len(p) : q[i] = p[i]
    BY <1>2
  <1> HIDE DEF q
  <1>4. \A i \in 1..Len(q) : q[i] # Notice => i \in 1..Len(p)
    BY <1>1, <1>3
  <1>5. 1..Len(p) \subseteq 1..Len(q)
    BY <1>1, <1>3
  <1>6. Tells(q, m)
    BY <1>3, <1>4, <1>5 DEF Tells
  <1>7. QED
    BY <1>2, <1>6 DEF q

\* The next n characters behind the first m make it m + n.
LEMMA LineTells ==
  ASSUME NEW p \in Seq(Int), NEW m \in Nat, NEW n \in Nat, Tells(p, m),
         NEW line \in Seq(Int), Len(line) = n, \A i \in 1..n : line[i] = m + i
  PROVE  p \o line \in Seq(Int) /\ Tells(p \o line, m + n)
  <1>1. Len(p) \in Nat
    BY LenProperties
  <1> DEFINE q == p \o line
  <1>2. /\ q \in Seq(Int) /\ Len(q) = Len(p) + n
        /\ \A i \in 1..(Len(p) + n) :
             q[i] = IF i <= Len(p) THEN p[i] ELSE line[i - Len(p)]
    BY ConcatProperties
  <1> HIDE DEF q
  <1>3. /\ Len(q) = Len(p) + n
        /\ \A i \in 1..Len(p) : q[i] = p[i]
        /\ \A i \in 1..n : q[Len(p) + i] = m + i
    <2>1. \A i \in 1..Len(p) : q[i] = p[i]
      BY <1>1, <1>2
    <2>2. ASSUME NEW i \in 1..n PROVE q[Len(p) + i] = m + i
      <3>1. Len(p) + i \in 1..(Len(p) + n) /\ ~ (Len(p) + i <= Len(p)) /\ (Len(p) + i) - Len(p) = i
        BY <1>1
      <3>2. q[Len(p) + i] = line[i]
        BY <1>2, <3>1
      <3>3. QED
        BY <3>2
    <2>3. QED
      BY <1>2, <2>1, <2>2
  <1>4. \A i \in 1..Len(q) : i > Len(p) => q[i] = m + (i - Len(p)) /\ i - Len(p) \in 1..n
    <2> SUFFICES ASSUME NEW i \in 1..Len(q), i > Len(p)
                 PROVE  q[i] = m + (i - Len(p)) /\ i - Len(p) \in 1..n
      OBVIOUS
    <2>1. i - Len(p) \in 1..n /\ Len(p) + (i - Len(p)) = i
      BY <1>1, <1>3
    <2>2. QED
      BY <1>3, <2>1
  <1>5. \A i \in 1..Len(q) : i <= Len(p) => q[i] = p[i] /\ (p[i] = Notice \/ p[i] \in 1..m)
    BY <1>1, <1>3 DEF Tells
  <1>6. ASSUME NEW i \in 1..Len(q) PROVE q[i] = Notice \/ q[i] \in 1..(m + n)
    <2>1. CASE i <= Len(p)
      <3>1. q[i] = Notice \/ q[i] \in 1..m
        BY <1>5, <2>1
      <3>2. \A k \in 1..m : k \in 1..(m + n)
        OBVIOUS
      <3>3. QED
        BY <3>1, <3>2
    <2>2. CASE i > Len(p)
      <3>1. q[i] = m + (i - Len(p)) /\ i - Len(p) \in 1..n
        BY <1>4, <2>2
      <3>2. QED
        BY <3>1
    <2>3. QED
      BY <1>1, <2>1, <2>2
  <1>7. ASSUME NEW i \in 1..Len(q), NEW j \in 1..Len(q), i < j, q[i] # Notice, q[j] # Notice
        PROVE  q[i] < q[j]
    <2>1. CASE j <= Len(p)
      <3>1. i \in 1..Len(p) /\ j \in 1..Len(p)
        BY <1>1, <1>7, <2>1
      <3>2. QED
        BY <1>3, <1>7, <3>1 DEF Tells
    <2>2. CASE i <= Len(p) /\ j > Len(p)
      <3>1. q[i] \in 1..m
        BY <1>5, <1>7, <2>2
      <3>2. q[j] = m + (j - Len(p)) /\ j - Len(p) \in 1..n
        BY <1>4, <2>2
      <3>3. QED
        BY <3>1, <3>2
    <2>3. CASE i > Len(p)
      <3>1. i \in Int /\ j \in Int /\ j > Len(p)
        BY <1>1, <1>7, <2>3
      <3>2. q[i] = m + (i - Len(p)) /\ q[j] = m + (j - Len(p))
        BY <1>4, <2>3, <3>1
      <3>3. QED
        BY <1>1, <1>7, <3>1, <3>2
    <2>4. QED
      BY <1>1, <2>1, <2>2, <2>3
  <1>8. ASSUME NEW k \in 1..(m + n) PROVE \E j \in 1..Len(q) : q[j] = k
    <2>1. CASE k <= m
      <3>1. PICK j \in 1..Len(p) : p[j] = k
        BY <2>1 DEF Tells
      <3>2. j \in 1..Len(q) /\ q[j] = k
        BY <1>1, <1>3, <3>1
      <3>3. QED
        BY <3>2
    <2>2. CASE k > m
      <3>1. k - m \in 1..n /\ Len(p) + (k - m) \in 1..Len(q)
        BY <1>1, <1>3, <2>2
      <3>2. q[Len(p) + (k - m)] = m + (k - m)
        BY <1>3, <3>1
      <3>3. QED
        BY <3>1, <3>2
    <2>3. QED
      BY <2>1, <2>2
  <1>9. Tells(q, m + n)
    BY <1>6, <1>7, <1>8 DEF Tells
  <1>10. QED
    BY <1>2, <1>9 DEF q

\* recv() of n characters, or none, into the cleared buffer.
LEMMA StoreStep ==
  ASSUME TerminalInv, ~ received, NEW n \in 0..BufSize, Store(n, Zeros), read' = read + n,
         printed' = printed \/ printed' = Append(printed, Notice)
  PROVE  TerminalInv'
  <1>1. PICK m \in Nat : Round(m)
    BY DEF TerminalInv
  <1>2. BufSize \in Nat /\ read = m /\ Tells(printed, m) /\ printed \in Seq(Int)
    BY <1>1, UserAssumption DEF TerminalInv, Round
  <1>3. rcv_cmd' = [i \in 1..BufSize |-> IF i <= n THEN read + i ELSE 0] /\ received' = TRUE
    BY DEF Store, Zeros
  <1>4. rcv_cmd' \in [1..BufSize -> Nat] /\ read' \in Nat
    BY <1>2, <1>3
  <1>5. Holds(m, n)'
    BY <1>2, <1>3 DEF Holds
  <1>6. printed' \in Seq(Int) /\ Tells(printed', m)
    BY <1>2, NoticeTells
  <1>7. Round(m)'
    BY <1>3, <1>5, <1>6 DEF Round
  <1>8. QED
    BY <1>3, <1>4, <1>6, <1>7 DEF TerminalInv

LEMMA PrintStep ==
  ASSUME TerminalInv, PrintLine
  PROVE  TerminalInv'
  <1>1. PICK n \in 0..BufSize :
          /\ \A i \in 1..n : rcv_cmd[i] # 0
          /\ n < BufSize => rcv_cmd[n + 1] = 0
          /\ printed' = printed \o SubSeq(rcv_cmd, 1, n)
    BY DEF PrintLine
  <1>2. PICK m \in Nat : Round(m)
    BY DEF TerminalInv
  <1>3. PICK h \in 0..BufSize : Holds(m, h)
    BY <1>2 DEF PrintLine, Round
  <1>4. BufSize \in Nat /\ printed \in Seq(Int) /\ Tells(printed, m)
    BY <1>2, UserAssumption DEF TerminalInv, Round
  <1>5. n = h
    <2>1. n <= h
      <3>1. SUFFICES ASSUME n > h PROVE FALSE
        BY <1>4
      <3>2. n \in 1..n /\ n \in 1..BufSize
        BY <1>4, <3>1
      <3>3. rcv_cmd[n] # 0 /\ n \in Nat /\ h \in Nat
        BY <1>1, <3>2
      <3>4. QED
        BY <1>3, <3>1, <3>2, <3>3 DEF Holds
    <2>2. h <= n
      <3>1. SUFFICES ASSUME n < h PROVE FALSE
        BY <1>4
      <3>2. n + 1 \in 1..BufSize /\ n + 1 <= h /\ n < BufSize
        BY <1>4, <3>1
      <3>3. QED
        BY <1>1, <1>3, <1>4, <3>2 DEF Holds
    <2>3. QED
      BY <1>4, <2>1, <2>2
  <1>6. /\ SubSeq(rcv_cmd, 1, n) \in Seq(Int)
        /\ Len(SubSeq(rcv_cmd, 1, n)) = n
        /\ \A i \in 1..n : SubSeq(rcv_cmd, 1, n)[i] = m + i
    <2>1. rcv_cmd \in Seq(Nat) /\ Len(rcv_cmd) = BufSize
      BY <1>4, SeqDef, LenProperties DEF TerminalInv
    <2>2. \A i \in 1..n : rcv_cmd[i] = m + i /\ rcv_cmd[i] \in Int
      BY <1>3, <1>4, <1>5 DEF Holds
    <2>3. QED
      BY <1>4, <2>1, <2>2, SubSeqProperties
  <1>7. printed' \in Seq(Int) /\ Tells(printed', m + n)
    <2> DEFINE line == SubSeq(rcv_cmd, 1, n)
    <2>1. n \in Nat /\ printed' = printed \o line /\ line \in Seq(Int) /\ Len(line) = n
          /\ \A i \in 1..n : line[i] = m + i
      BY <1>1, <1>4, <1>6
    <2> HIDE DEF line
    <2>2. QED
      BY <1>4, <2>1, LineTells
  <1>8. UNCHANGED <<read, rcv_cmd>> /\ received' = FALSE
    BY DEF PrintLine
  <1>9. m + n \in Nat /\ read = m + n
    BY <1>3, <1>4, <1>5 DEF Holds
  <1>10. Round(m + n)'
    BY <1>7, <1>8, <1>9 DEF Round
  <1>11. QED
    BY <1>7, <1>8, <1>9, <1>10 DEF TerminalInv

LEMMA TerminalStep == TerminalInv /\ [UserNext]_serverVars => TerminalInv'
  <1> SUFFICES ASSUME TerminalInv, [UserNext]_serverVars PROVE TerminalInv'
    OBVIOUS
  <1>1. CASE UNCHANGED <<read, rcv_cmd, received, printed>>
    BY <1>1 DEF TerminalInv, Round, Holds
  <1>2. CASE Recv
    BY <1>2, StoreStep DEF Recv, Receiving
  <1>3. CASE RecvFails
    <2>1. 0 \in 0..BufSize /\ read' = read + 0
      BY <1>3, UserAssumption DEF RecvFails, TerminalInv
    <2>2. QED
      BY <1>3, <2>1, StoreStep DEF RecvFails, Receiving
  <1>4. CASE PrintLine
    BY <1>4, PrintStep
  <1>5. QED
    BY <1>1, <1>2, <1>3, <1>4 DEF UserNext, Type, serverVars, userVars

\* Whatever recv() cuts off, whenever it fails and however large the buffer is, the
\* terminal shows what was typed, each character once and in order, but for the notices.
THEOREM TerminalIsTrue == UserSpec => []PrintedIsTyped
  <1>1. TerminalInv => PrintedIsTyped
    <2> SUFFICES ASSUME TerminalInv PROVE PrintedIsTyped
      OBVIOUS
    <2>1. PICK m \in Nat : Round(m)
      BY DEF TerminalInv
    <2>2. m <= read /\ read \in Nat /\ (~ received => read = m)
      BY <2>1, UserAssumption DEF TerminalInv, Round, Holds
    <2>3. \A i \in 1..Len(printed) : printed[i] <= read
      BY <2>1, <2>2 DEF Round, Tells, Notice
    <2>4. QED
      BY <2>1, <2>2, <2>3 DEF Round, Tells, PrintedIsTyped, Shown
  <1>2. QED
    BY TerminalInit, TerminalStep, <1>1, PTL DEF UserSpec

-----------------------------------------------------------------------------
(***************************************************************************)
(* Types: what is read was typed, and what the buffer holds was read.      *)
(***************************************************************************)
TypingInv ==
  /\ typed \in 0..MaxTyped
  /\ failures \in 0..MaxFailures
  /\ read <= typed
  /\ \A i \in 1..BufSize : rcv_cmd[i] <= read

LEMMA TypingInit == UserInit => TypingInv
  BY UserAssumption DEF UserInit, TypingInv, Zeros

LEMMA TypingStep ==
  TypeInv /\ TerminalInv /\ TypingInv /\ [UserNext]_serverVars => TypingInv'
  <1> SUFFICES ASSUME TerminalInv, TypingInv, [UserNext]_serverVars PROVE TypingInv'
    OBVIOUS
  <1>1. read \in Nat /\ typed \in Nat /\ MaxTyped \in Nat /\ BufSize \in Nat
    BY UserAssumption DEF TerminalInv, TypingInv
  <1>2. ASSUME NEW n \in 0..BufSize, n <= typed - read, Store(n, Zeros), read' = read + n,
               failures' \in 0..MaxFailures
        PROVE  TypingInv'
    <2>1. rcv_cmd' = [i \in 1..BufSize |-> IF i <= n THEN read + i ELSE 0] /\ typed' = typed
      BY <1>2 DEF Store, Zeros
    <2>2. read' <= typed' /\ read' \in Nat
      BY <1>1, <1>2, <2>1
    <2>3. \A i \in 1..BufSize : rcv_cmd'[i] <= read'
      BY <1>1, <1>2, <2>1
    <2>4. QED
      BY <1>2, <2>1, <2>2, <2>3 DEF TypingInv
  <1>3. CASE Recv
    BY <1>2, <1>3 DEF Recv, MayReturn, TypingInv
  <1>4. CASE RecvFails
    <2>1. 0 \in 0..BufSize /\ 0 <= typed - read /\ read' = read + 0
      BY <1>1, <1>4 DEF RecvFails, TypingInv
    <2>2. failures' \in 0..MaxFailures
      BY <1>4, UserAssumption DEF RecvFails, TypingInv
    <2>3. QED
      BY <1>2, <1>4, <2>1, <2>2 DEF RecvFails
  <1>5. CASE Type
    BY <1>1, <1>5 DEF Type, TypingInv
  <1>6. CASE UNCHANGED <<typed, read, rcv_cmd, failures>>
    BY <1>6 DEF TypingInv
  <1>7. QED
    BY <1>3, <1>4, <1>5, <1>6 DEF UserNext, PrintLine, serverVars, userVars

\* Every variable keeps its type: no character is read that was not typed, and none is
\* in the buffer or on the terminal that was not read.
THEOREM UserTypeCorrect == UserSpec => []UserTypeOK
  <1>1. TypeInv /\ TerminalInv /\ TypingInv => UserTypeOK
    <2> SUFFICES ASSUME TypeInv, TerminalInv, TypingInv PROVE UserTypeOK
      OBVIOUS
    <2>1. Len(printed) \in Nat /\ read \in 0..typed /\ typed \in 0..MaxTyped
          /\ MaxTyped \in Nat /\ BufSize \in Nat
      BY UserAssumption, LenProperties DEF TerminalInv, TypingInv
    <2>2. rcv_cmd \in [1..BufSize -> 0..MaxTyped]
      <3>1. \A i \in 1..BufSize : rcv_cmd[i] \in 0..MaxTyped
        BY <2>1 DEF TerminalInv, TypingInv
      <3>2. QED
        BY <3>1 DEF TerminalInv
    <2>3. printed \in Seq((1..MaxTyped) \cup {Notice})
      <3>1. PICK m \in Nat : Round(m)
        BY DEF TerminalInv
      <3>2. m <= MaxTyped
        BY <2>1, <3>1 DEF TerminalInv, Round, Holds
      <3>3. \A i \in 1..Len(printed) : printed[i] \in (1..MaxTyped) \cup {Notice}
        BY <2>1, <3>1, <3>2 DEF Round, Tells
      <3>4. printed \in [1..Len(printed) -> Int]
        BY LenProperties DEF TerminalInv
      <3>5. printed \in [1..Len(printed) -> (1..MaxTyped) \cup {Notice}]
        BY <3>3, <3>4
      <3>6. QED
        BY <2>1, <3>5, SeqDef
    <2>4. QED
      BY <2>1, <2>2, <2>3 DEF UserTypeOK, TypeInv, TerminalInv, TypingInv
  <1>2. QED
    BY TypingInit, TypingStep, TerminalInit, TerminalStep, UserServerInvariant, <1>1, PTL
    DEF UserSpec
=============================================================================
