----------------------------- MODULE Board_proof -----------------------------
(***************************************************************************)
(* Proofs about Board: the calls of the programs, the pins and the types.  *)
(* Whatever programs ran before, and wherever each was killed, a program's *)
(* calls succeed until one fails by itself, the display's LEDs follow its  *)
(* messages, and every variable keeps its type.                            *)
(***************************************************************************)
EXTENDS Board, TLAPS, SequenceTheorems

-----------------------------------------------------------------------------
(***************************************************************************)
(* A straight line of calls.                                               *)
(***************************************************************************)
\* The calls that the programs make: about pins of theirs, and with values that make sense.
Proper ==
  {c \in Calls :
     /\ c.call \in {"export", "unexport", "direction", "write", "read"} => c.pin \in Pins
     /\ c.call \in {"direction", "write", "rs"} => c.value \in {0, 1}
     /\ c.call = "print" => c.value \in 1..4}

\* The pins that a program writes to.
OutPins == LedPins \cup {BLINK, 3, 21}

\* Call c comes before place k of the line s.
Comes(s, k, c) == \E j \in 1..(k - 1) : s[j] = c

\* At place k pin p is exported, given the pins ex that are so now...
Prepared(s, k, ex, p) == p \in ex \/ Comes(s, k, Export(p))

\* ... and is an output.
Driven(s, k, ex, dir, p) ==
  /\ Prepared(s, k, ex, p)
  /\ dir[p] = Output \/ Comes(s, k, Direction(p, Output))

\* No call of the line fails of necessity, in a program pr.
SoundAt(s, k, ex, dir, pr) ==
  /\ s[k].call = "direction" =>
       /\ Prepared(s, k, ex, s[k].pin)
       /\ s[k].pin \in OutPins => s[k].value = Output
  /\ s[k].call = "write" => s[k].pin \in OutPins /\ Driven(s, k, ex, dir, s[k].pin)
  /\ s[k].call = "unexport" => pr = "blink" /\ \A j \in k..Len(s) : s[j].call = "unexport"

\* The pins that a program's loop writes to.
Own(pr) ==
  {p \in OutPins : \/ pr = "display" /\ p \in LedPins
                   \/ pr = "distance" /\ p = 3
                   \/ pr = "sensors" /\ p = 21}

Sound(s, ex, dir, pr) ==
  /\ s \in Seq(Proper)
  /\ \A k \in 1..Len(s) : SoundAt(s, k, ex, dir, pr)
  /\ \A p \in Own(pr) : Driven(s, Len(s) + 1, ex, dir, p)

\* The display's LEDs, whose levels are lv: one is written to at the end of the line
\* only, and one that is lit is about to be put out or set up.
Lit(s, lv, pr) ==
  pr = "display" =>
    /\ \A k \in 1..Len(s) : s[k].call = "write" =>
         \/ k + 1 = Len(s) /\ s[k + 1] = Write(s[k].pin, 0)
         \/ k = Len(s) /\ s[k].value = 0
    /\ \A p \in LedPins : lv[p] = 1 =>
         s = <<Write(p, 0)>> \/ Comes(s, Len(s) + 1, Direction(p, Output))

\* The first call is made: what it does to exported pins, directions and levels.
LEMMA CallMade ==
  ASSUME NEW s, NEW ex, NEW dir, NEW lv, NEW pr, NEW ex2, NEW dir2, NEW lv2,
         s # <<>>, Sound(s, ex, dir, pr),
         \A p \in ex : p \in ex2 \/ Head(s).call = "unexport",
         \A p : Head(s) = Export(p) => p \in ex2,
         \A p \in OutPins : dir[p] = Output \/ Head(s) = Direction(p, Output) => dir2[p] = Output
  PROVE  Sound(Tail(s), ex2, dir2, pr)
  <1> DEFINE t == Tail(s)
  <1>1. /\ s \in Seq(Proper) /\ t \in Seq(Proper) /\ Len(s) \in Nat /\ Len(t) \in Nat
        /\ Len(t) = Len(s) - 1
        /\ \A i \in 1..Len(t) : t[i] = s[i + 1]
        /\ Head(s) = s[1] /\ 1 \in 1..Len(s)
    BY HeadTailProperties, LenProperties, EmptySeq DEF Sound
  <1>2. ASSUME NEW k \in 1..(Len(t) + 1), NEW c, Comes(s, k + 1, c), Head(s) # c
        PROVE  Comes(t, k, c)
    <2>1. PICK j \in 1..k : s[j] = c
      BY <1>2 DEF Comes
    <2>2. j # 1 /\ j - 1 \in 1..(k - 1) /\ j - 1 \in 1..Len(t) /\ s[j] = t[j - 1]
      BY <1>1, <1>2, <2>1
    <2>3. QED
      BY <2>1, <2>2 DEF Comes
  <1>3. CASE Head(s).call = "unexport"
    <2>1. pr = "blink" /\ \A j \in 1..Len(s) : s[j].call = "unexport"
      BY <1>1, <1>3 DEF Sound, SoundAt
    <2>2. \A k \in 1..Len(t) : t[k].call = "unexport"
      BY <1>1, <2>1
    <2>3. ASSUME NEW k \in 1..Len(t) PROVE SoundAt(t, k, ex2, dir2, pr)
      BY <2>1, <2>2 DEF SoundAt
    <2>4. Own(pr) = {}
      BY <2>1 DEF Own
    <2>5. QED
      BY <1>1, <2>3, <2>4 DEF Sound
  <1>4. CASE Head(s).call # "unexport"
    <2>1. ASSUME NEW k \in 1..(Len(t) + 1), NEW p, Prepared(s, k + 1, ex, p)
          PROVE  Prepared(t, k, ex2, p)
      <3>1. CASE p \in ex
        BY <1>4, <3>1 DEF Prepared
      <3>2. CASE Comes(s, k + 1, Export(p)) /\ Head(s) # Export(p)
        BY <1>2, <3>2 DEF Prepared
      <3>3. CASE Head(s) = Export(p)
        BY <3>3 DEF Prepared
      <3>4. QED
        BY <2>1, <3>1, <3>2, <3>3 DEF Prepared
    <2>2. ASSUME NEW k \in 1..(Len(t) + 1), NEW p \in OutPins, Driven(s, k + 1, ex, dir, p)
          PROVE  Driven(t, k, ex2, dir2, p)
      BY <1>2, <2>1, <2>2 DEF Driven
    <2>3. ASSUME NEW k \in 1..Len(t) PROVE SoundAt(t, k, ex2, dir2, pr)
      <3>1. /\ k + 1 \in 1..Len(s) /\ k \in 1..(Len(t) + 1) /\ t[k] = s[k + 1]
            /\ SoundAt(s, k + 1, ex, dir, pr)
        BY <1>1 DEF Sound
      <3>2. ASSUME t[k].call = "direction"
            PROVE  /\ Prepared(t, k, ex2, t[k].pin)
                   /\ t[k].pin \in OutPins => t[k].value = Output
        BY <2>1, <3>1, <3>2 DEF SoundAt
      <3>3. ASSUME t[k].call = "write"
            PROVE  t[k].pin \in OutPins /\ Driven(t, k, ex2, dir2, t[k].pin)
        BY <2>2, <3>1, <3>3 DEF SoundAt
      <3>4. ASSUME t[k].call = "unexport"
            PROVE  pr = "blink" /\ \A j \in k..Len(t) : t[j].call = "unexport"
        <4>1. pr = "blink" /\ \A j \in (k + 1)..Len(s) : s[j].call = "unexport"
          BY <3>1, <3>4 DEF SoundAt
        <4>2. \A j \in k..Len(t) : t[j] = s[j + 1] /\ j + 1 \in (k + 1)..Len(s)
          BY <1>1
        <4>3. QED
          BY <4>1, <4>2
      <3>5. QED
        BY <3>2, <3>3, <3>4 DEF SoundAt
    <2>4. ASSUME NEW p \in Own(pr) PROVE Driven(t, Len(t) + 1, ex2, dir2, p)
      <3>1. Driven(s, Len(t) + 1 + 1, ex, dir, p) /\ p \in OutPins
        BY <1>1 DEF Sound, Own
      <3>2. QED
        BY <1>1, <2>2, <3>1
    <2>5. QED
      BY <1>1, <2>3, <2>4 DEF Sound
  <1>5. QED
    BY <1>3, <1>4

LEMMA LedCallMade ==
  ASSUME NEW s \in Seq(Proper), s # <<>>, NEW lv, NEW pr, Lit(s, lv, pr), NEW lv2,
         \A p \in LedPins : lv2[p] = 1 =>
           \/ Head(s).call = "write" /\ Head(s).pin = p /\ Head(s).value # 0
           \/ /\ lv[p] = 1
              /\ Head(s) # Direction(p, Output)
              /\ ~ (Head(s).call = "write" /\ Head(s).pin = p)
  PROVE  Lit(Tail(s), lv2, pr)
  <1> DEFINE t == Tail(s)
             n == Len(t)
  <1>1. /\ t \in Seq(Proper) /\ Len(s) \in Nat /\ n \in Nat
        /\ n = Len(s) - 1 /\ Len(s) = n + 1
        /\ \A i \in 1..n : t[i] = s[i + 1]
        /\ Head(s) = s[1] /\ 1 \in 1..Len(s)
    BY HeadTailProperties, LenProperties, EmptySeq
  <1>2. SUFFICES ASSUME pr = "display" PROVE Lit(t, lv2, pr)
    BY DEF Lit
  <1>3. /\ \A k \in 1..Len(s) : s[k].call = "write" =>
             \/ k + 1 = Len(s) /\ s[k + 1] = Write(s[k].pin, 0)
             \/ k = Len(s) /\ s[k].value = 0
        /\ \A p \in LedPins : lv[p] = 1 =>
             s = <<Write(p, 0)>> \/ Comes(s, Len(s) + 1, Direction(p, Output))
    BY <1>2 DEF Lit
  <1> HIDE DEF t, n
  <1>4. ASSUME NEW k \in 1..n, t[k].call = "write"
        PROVE  \/ k + 1 = n /\ t[k + 1] = Write(t[k].pin, 0)
               \/ k = n /\ t[k].value = 0
    <2>1. k + 1 \in 1..Len(s) /\ t[k] = s[k + 1]
      BY <1>1
    <2>2. CASE k + 1 = Len(s) /\ s[k + 1].value = 0
      BY <1>1, <2>1, <2>2
    <2>3. CASE (k + 1) + 1 = Len(s) /\ s[(k + 1) + 1] = Write(s[k + 1].pin, 0)
      <3>1. k + 1 = n /\ k + 1 \in 1..n
        BY <1>1, <2>3
      <3>2. t[k + 1] = s[(k + 1) + 1]
        BY <1>1, <3>1
      <3>3. QED
        BY <2>1, <2>3, <3>1, <3>2
    <2>4. QED
      BY <1>3, <1>4, <2>1, <2>2, <2>3
  <1>5. ASSUME NEW p \in LedPins, lv2[p] = 1
        PROVE  t = <<Write(p, 0)>> \/ Comes(t, n + 1, Direction(p, Output))
    <2>1. CASE Head(s).call = "write" /\ Head(s).pin = p /\ Head(s).value # 0
      <3>1. 1 + 1 = Len(s) /\ s[1 + 1] = Write(p, 0)
        BY <1>1, <1>3, <2>1
      <3>2. n = 1 /\ t[1] = Write(p, 0)
        <4>1. n = 1 /\ 1 \in 1..n
          <5>1. n \in Nat /\ Len(s) = n + 1
            BY <1>1
          <5>2. 2 = Len(s)
            BY <3>1
          <5>3. QED
            BY <5>1, <5>2
        <4>2. t[1] = s[1 + 1]
          BY <1>1, <4>1
        <4>3. QED
          BY <3>1, <4>1, <4>2
      <3>3. t = <<Write(p, 0)>>
        BY <1>1, <3>2 DEF n
      <3>4. QED
        BY <3>3
    <2>2. CASE /\ lv[p] = 1
               /\ Head(s) # Direction(p, Output)
               /\ ~ (Head(s).call = "write" /\ Head(s).pin = p)
      <3>1. s # <<Write(p, 0)>>
        <4>1. Write(p, 0).call = "write" /\ Write(p, 0).pin = p
          BY DEF Write, Do
        <4>2. s = <<Write(p, 0)>> => s[1] = Write(p, 0)
          OBVIOUS
        <4>3. QED
          BY <1>1, <2>2, <4>1, <4>2
      <3>2. PICK j \in 1..((Len(s) + 1) - 1) : s[j] = Direction(p, Output)
        BY <1>3, <2>2, <3>1 DEF Comes
      <3>3. j # 1 /\ j - 1 \in 1..n /\ j - 1 \in 1..((n + 1) - 1) /\ (j - 1) + 1 = j
        BY <1>1, <2>2, <3>2
      <3>4. t[j - 1] = Direction(p, Output)
        BY <1>1, <3>2, <3>3
      <3>5. QED
        BY <3>3, <3>4 DEF Comes
    <2>3. QED
      BY <1>5, <2>1, <2>2
  <1>6. QED
    BY <1>4, <1>5 DEF Lit, n, t

-----------------------------------------------------------------------------
(***************************************************************************)
(* Lines that are put together.                                            *)
(***************************************************************************)
\* Calls that have nothing to do with sysfs.
Others == {o \in Proper : o.call \in LcdCalls \cup {"print"}}

LEMMA OthersAreCalls == Others \subseteq Proper
  BY DEF Others

LEMMA OthersFirst ==
  ASSUME NEW x \in Seq(Others), NEW t, NEW ex, NEW dir, NEW pr, Sound(t, ex, dir, pr)
  PROVE  Sound(x \o t, ex, dir, pr)
  <1> DEFINE s == x \o t
             n == Len(x)
  <1>1. /\ x \in Seq(Proper) /\ t \in Seq(Proper) /\ s \in Seq(Proper)
        /\ n \in Nat /\ Len(t) \in Nat /\ Len(s) = n + Len(t)
        /\ \A i \in 1..n : s[i] = x[i]
        /\ \A i \in 1..Len(t) : s[n + i] = t[i]
    <2>1. x \in Seq(Proper) /\ t \in Seq(Proper)
      BY OthersAreCalls, SeqMonotonic DEF Sound
    <2>2. n \in Nat /\ Len(t) \in Nat
      BY <2>1, LenProperties
    <2>3. /\ s \in Seq(Proper) /\ Len(s) = n + Len(t)
          /\ \A i \in 1..(n + Len(t)) : s[i] = IF i <= n THEN x[i] ELSE t[i - n]
      BY <2>1, ConcatProperties
    <2>4. QED
      BY <2>1, <2>2, <2>3
  <1>2. \A i \in 1..n : s[i].call \notin {"direction", "write", "unexport"}
    <2>1. \A i \in 1..n : x[i] \in Others
      BY ElementOfSeq
    <2>2. QED
      BY <1>1, <2>1 DEF Others, LcdCalls
  <1> HIDE DEF s, n
  <1>3. ASSUME NEW k \in 1..(Len(t) + 1), NEW c, Comes(t, k, c)
        PROVE  Comes(s, n + k, c)
    <2>1. PICK j \in 1..(k - 1) : t[j] = c
      BY <1>3 DEF Comes
    <2>2. j \in 1..Len(t) /\ n + j \in 1..((n + k) - 1)
      BY <1>1
    <2>3. s[n + j] = c
      BY <1>1, <2>1, <2>2
    <2>4. QED
      BY <2>2, <2>3 DEF Comes
  <1>4. ASSUME NEW k \in 1..(Len(t) + 1), NEW p
        PROVE  /\ Prepared(t, k, ex, p) => Prepared(s, n + k, ex, p)
               /\ Driven(t, k, ex, dir, p) => Driven(s, n + k, ex, dir, p)
    BY <1>3 DEF Prepared, Driven
  <1>5. ASSUME NEW i \in 1..Len(s) PROVE SoundAt(s, i, ex, dir, pr)
    <2>1. CASE i <= n
      BY <1>1, <1>2, <2>1 DEF SoundAt
    <2>2. CASE i > n
      <3> DEFINE k == i - n
      <3>1. k \in 1..Len(t) /\ k \in 1..(Len(t) + 1) /\ i = n + k /\ s[i] = t[k]
        BY <1>1, <2>2
      <3>2. SoundAt(t, k, ex, dir, pr)
        BY <3>1 DEF Sound
      <3> HIDE DEF k
      <3>3. t[k].call = "unexport" => \A j \in i..Len(s) : s[j].call = "unexport"
        <4>1. SUFFICES ASSUME t[k].call = "unexport", NEW j \in i..Len(s)
                       PROVE  s[j].call = "unexport"
          OBVIOUS
        <4>2. j - n \in k..Len(t) /\ j - n \in 1..Len(t) /\ s[j] = t[j - n]
          <5>1. n \in Nat /\ Len(t) \in Nat /\ Len(s) = n + Len(t) /\ i = n + k /\ k \in Nat
            BY <1>1, <3>1
          <5>2. j \in i..Len(s) /\ 1 <= k
            BY <3>1, <4>1
          <5>3. j - n \in k..Len(t) /\ j - n \in 1..Len(t) /\ n + (j - n) = j
            BY <5>1, <5>2
          <5>4. s[n + (j - n)] = t[j - n]
            BY <1>1, <5>3
          <5>5. QED
            BY <5>3, <5>4
        <4>3. QED
          BY <3>2, <4>1, <4>2 DEF SoundAt
      <3>4. QED
        BY <1>4, <3>1, <3>2, <3>3 DEF SoundAt
    <2>3. QED
      BY <1>1, <2>1, <2>2
  <1>6. ASSUME NEW p \in Own(pr) PROVE Driven(s, Len(s) + 1, ex, dir, p)
    <2>1. Driven(t, Len(t) + 1, ex, dir, p)
      BY DEF Sound
    <2>2. Driven(s, n + (Len(t) + 1), ex, dir, p)
      BY <1>1, <1>4, <2>1
    <2>3. QED
      BY <1>1, <2>2
  <1>7. QED
    BY <1>1, <1>5, <1>6 DEF Sound, s

LEMMA OthersLast ==
  ASSUME NEW x \in Seq(Others), NEW t, NEW ex, NEW dir, NEW pr, Sound(t, ex, dir, pr),
         pr # "blink"
  PROVE  Sound(t \o x, ex, dir, pr)
  <1> DEFINE s == t \o x
             n == Len(t)
  <1>1. /\ s \in Seq(Proper)
        /\ n \in Nat /\ Len(x) \in Nat /\ Len(s) = n + Len(x)
        /\ \A i \in 1..n : s[i] = t[i]
        /\ \A i \in (n + 1)..Len(s) : s[i] = x[i - n] /\ i - n \in 1..Len(x)
    <2>1. x \in Seq(Proper) /\ t \in Seq(Proper)
      BY OthersAreCalls, SeqMonotonic DEF Sound
    <2>2. n \in Nat /\ Len(x) \in Nat
      BY <2>1, LenProperties
    <2>3. /\ s \in Seq(Proper) /\ Len(s) = n + Len(x)
          /\ \A i \in 1..(n + Len(x)) : s[i] = IF i <= n THEN t[i] ELSE x[i - n]
      BY <2>1, ConcatProperties
    <2>4. QED
      BY <2>1, <2>2, <2>3
  <1>2. \A i \in (n + 1)..Len(s) : s[i].call \notin {"direction", "write", "unexport"}
    <2>1. \A i \in 1..Len(x) : x[i] \in Others
      BY ElementOfSeq
    <2>2. QED
      BY <1>1, <2>1 DEF Others, LcdCalls
  <1> HIDE DEF s
  <1>3. ASSUME NEW k \in 1..(n + 1), NEW i \in k..(Len(s) + 1), NEW c, Comes(t, k, c)
        PROVE  Comes(s, i, c)
    <2>1. PICK j \in 1..(k - 1) : t[j] = c
      BY <1>3 DEF Comes
    <2>2. j \in 1..(i - 1) /\ s[j] = c
      BY <1>1, <2>1
    <2>3. QED
      BY <2>2 DEF Comes
  <1>4. ASSUME NEW k \in 1..(n + 1), NEW i \in k..(Len(s) + 1), NEW p
        PROVE  /\ Prepared(t, k, ex, p) => Prepared(s, i, ex, p)
               /\ Driven(t, k, ex, dir, p) => Driven(s, i, ex, dir, p)
    BY <1>3 DEF Prepared, Driven
  <1>5. ASSUME NEW i \in 1..Len(s) PROVE SoundAt(s, i, ex, dir, pr)
    <2>1. CASE i > n
      <3>1. s[i].call \notin {"direction", "write", "unexport"}
        <4>1. i \in (n + 1)..Len(s)
          BY <1>1, <2>1
        <4>2. QED
          BY <1>2, <4>1
      <3>2. QED
        BY <3>1 DEF SoundAt
    <2>2. CASE i <= n
      <3>1. i \in 1..n /\ i \in 1..(n + 1) /\ i \in i..(Len(s) + 1) /\ s[i] = t[i]
            /\ SoundAt(t, i, ex, dir, pr)
        BY <1>1, <2>2 DEF Sound
      <3>2. QED
        BY <1>4, <3>1 DEF SoundAt
    <2>3. QED
      BY <1>1, <2>1, <2>2
  <1>6. ASSUME NEW p \in Own(pr) PROVE Driven(s, Len(s) + 1, ex, dir, p)
    <2>1. Driven(t, n + 1, ex, dir, p)
      BY DEF Sound
    <2>2. Len(s) + 1 \in (n + 1)..(Len(s) + 1) /\ n + 1 \in 1..(n + 1)
      BY <1>1
    <2>3. QED
      BY <1>4, <2>1, <2>2
  <1>7. QED
    BY <1>1, <1>5, <1>6 DEF Sound, s

-----------------------------------------------------------------------------
(***************************************************************************)
(* The lines of the programs.                                              *)
(***************************************************************************)
LEMMA SingleCalls ==
  /\ PinModes \in Others /\ Delay \in Others
  /\ \A v \in {0, 1} : Select(v) \in Others
  /\ \A n \in Nibbles : Nibble(n) \in Others
  /\ \A i \in 1..4 : Greet(i) \in Others
  BY DEF PinModes, Delay, Select, Nibble, Greet, Do, Others, Proper, Calls, LcdCalls, Pins, Nibbles, D4

LEMMA ByteCalls == \A b \in Bytes : lcd_byte(b) \in Seq(Others)
  <1> SUFFICES ASSUME NEW b \in Bytes PROVE lcd_byte(b) \in Seq(Others)
    OBVIOUS
  <1>1. b[1] \in Nibbles /\ b[2] \in Nibbles
    BY DEF Bytes
  <1>2. Nibble(b[1]) \in Others /\ Nibble(b[2]) \in Others
    BY <1>1, SingleCalls
  <1>3. QED
    BY <1>2 DEF lcd_byte

LEMMA TextCalls ==
  ASSUME NEW bytes \in Seq(Bytes)
  PROVE  lcd_bytes(bytes) \in Seq(Others) /\ lcd_text(bytes) \in Seq(Others)
  <1>1. Len(bytes) \in Nat /\ 2 * Len(bytes) \in Nat
    BY LenProperties
  <1>2. ASSUME NEW i \in 1..(2 * Len(bytes))
        PROVE  lcd_byte(bytes[(i + 1) \div 2])[IF i % 2 = 1 THEN 1 ELSE 2] \in Others
    <2>1. (i + 1) \div 2 \in 1..Len(bytes)
      BY <1>1
    <2>2. bytes[(i + 1) \div 2] \in Bytes
      BY <2>1, ElementOfSeq
    <2>3. \A b \in Bytes : lcd_byte(b)[1] \in Others /\ lcd_byte(b)[2] \in Others
      <3>1. \A b \in Bytes : b[1] \in Nibbles /\ b[2] \in Nibbles
        BY DEF Bytes
      <3>2. QED
        BY <3>1, SingleCalls DEF lcd_byte
    <2>4. QED
      BY <2>2, <2>3
  <1>3. lcd_bytes(bytes) \in [1..(2 * Len(bytes)) -> Others]
    BY <1>2 DEF lcd_bytes
  <1>4. lcd_bytes(bytes) \in Seq(Others)
    BY <1>1, <1>3
  <1>5. QED
    BY <1>4 DEF lcd_text

LEMMA LcdCallsAreOthers ==
  /\ lcd_init \in Seq(Others)
  /\ \A t \in Texts : lcd_print(t) \in Seq(Others)
  /\ \A t \in Texts : SetChrMode \o lcd_text(t) \in Seq(Others)
  <1>1. /\ <<PinModes>> \in Seq(Others) /\ <<Delay>> \in Seq(Others)
        /\ SetCmdMode \in Seq(Others) /\ SetChrMode \in Seq(Others)
    BY SingleCalls DEF SetCmdMode, SetChrMode
  <1>2. InitBytes \in Seq(Bytes)
    BY DEF InitBytes, Bytes, Nibbles
  <1>3. /\ lcd_byte(<<0, 1>>) \in Seq(Others) /\ lcd_byte(<<0, 2>>) \in Seq(Others)
        /\ lcd_byte(<<8, 0>>) \in Seq(Others)
    BY ByteCalls DEF Bytes, Nibbles
  <1>4. \A t \in Texts : lcd_text(t) \in Seq(Others)
    BY TextCalls DEF Texts
  <1>5. \A s, t \in Seq(Others) : s \o t \in Seq(Others)
    BY ConcatProperties
  <1>6. lcd_bytes(InitBytes) \in Seq(Others)
    BY <1>2, TextCalls
  <1>7. lcd_init \in Seq(Others)
    BY <1>1, <1>5, <1>6 DEF lcd_init
  <1>8. \A t \in Texts : lcd_print(t) \in Seq(Others)
    BY <1>1, <1>3, <1>4, <1>5 DEF lcd_print
  <1>9. QED
    BY <1>1, <1>4, <1>5, <1>7, <1>8

\* The display exports its four LEDs, and then sets their directions.
LEMMA InitCalls ==
  /\ GPIOinit \in Seq(Proper) /\ Len(GPIOinit) = 8
  /\ \A i \in 1..4 : /\ GPIOinit[i] = Export(POUT[i])
                     /\ GPIOinit[4 + i] = Direction(POUT[i], Output)
  <1> DEFINE s == GPIOinit
  <1>1. /\ Len(s) = 8
        /\ \A i \in 1..4 : s[i] = Export(POUT[i]) /\ s[4 + i] = Direction(POUT[i], Output)
        /\ s \in Seq(Proper)
    <2> DEFINE a == [i \in 1..4 |-> Export(POUT[i])]
               b == [i \in 1..4 |-> Direction(POUT[i], Output)]
    <2>1. \A i \in 1..4 : POUT[i] \in LedPins /\ POUT[i] \in Pins
      BY DEF LedPins, Pins
    <2>2. \A p \in Pins : Export(p) \in Proper /\ Direction(p, Output) \in Proper
      BY DEF Export, Direction, Do, Proper, Calls, Output, Nibbles
    <2>3. a \in [1..4 -> Proper] /\ b \in [1..4 -> Proper]
      BY <2>1, <2>2
    <2>4. a \in Seq(Proper) /\ Len(a) = 4 /\ b \in Seq(Proper) /\ Len(b) = 4
      BY <2>3
    <2>5. s = a \o b
      BY DEF GPIOinit
    <2>6. \A i \in 1..4 : a[i] = Export(POUT[i]) /\ b[i] = Direction(POUT[i], Output)
      OBVIOUS
    <2> HIDE DEF a, b, s
    <2>7. s \in Seq(Proper) /\ Len(s) = 8
          /\ \A i \in 1..8 : s[i] = IF i <= 4 THEN a[i] ELSE b[i - 4]
      <3>1. /\ a \o b \in Seq(Proper) /\ Len(a \o b) = Len(a) + Len(b)
            /\ \A i \in 1..(Len(a) + Len(b)) :
                 (a \o b)[i] = IF i <= Len(a) THEN a[i] ELSE b[i - Len(a)]
        BY <2>4, ConcatProperties
      <3>2. QED
        BY <2>4, <2>5, <3>1
    <2>8. QED
      BY <2>6, <2>7
  <1>2. QED
    BY <1>1

LEMMA SoundInit ==
  ASSUME NEW ex, NEW dir
  PROVE  Sound(GPIOinit, ex, dir, "display")
  <1> DEFINE s == GPIOinit
  <1>1. /\ Len(s) = 8
        /\ \A i \in 1..4 : s[i] = Export(POUT[i]) /\ s[4 + i] = Direction(POUT[i], Output)
        /\ s \in Seq(Proper)
    BY InitCalls
  <1> HIDE DEF s
  <1>2. \A i \in 1..4 : /\ s[i].call = "export"
                        /\ s[4 + i].call = "direction" /\ s[4 + i].pin = POUT[i]
                        /\ s[4 + i].value = Output
    BY <1>1 DEF Export, Direction, Do
  <1>3. ASSUME NEW i \in 1..4
        PROVE  /\ Comes(s, 4 + i, Export(POUT[i])) /\ Comes(s, 9, Export(POUT[i]))
               /\ Comes(s, 9, Direction(POUT[i], Output))
    BY <1>1 DEF Comes
  <1>4. \A k \in 1..8 : k \in 1..4 \/ \E i \in 1..4 : k = 4 + i
    OBVIOUS
  <1>5. ASSUME NEW k \in 1..8 PROVE SoundAt(s, k, ex, dir, "display")
    <2>1. CASE k \in 1..4
      BY <1>2, <2>1 DEF SoundAt
    <2>2. ASSUME NEW i \in 1..4, k = 4 + i PROVE SoundAt(s, k, ex, dir, "display")
      BY <1>2, <1>3, <2>2 DEF SoundAt, Prepared
    <2>3. QED
      BY <1>4, <2>1, <2>2
  <1>6. ASSUME NEW p \in Own("display") PROVE Driven(s, 9, ex, dir, p)
    <2>1. PICK i \in 1..4 : p = POUT[i]
      BY DEF Own, LedPins
    <2>2. QED
      BY <1>3, <2>1 DEF Driven, Prepared
  <1>7. QED
    BY <1>1, <1>5, <1>6 DEF Sound, s

LEMMA SoundSensorInit ==
  ASSUME NEW p \in {"distance", "sensors"}, NEW ex, NEW dir
  PROVE  Sound(GPIO_init(p), ex, dir, p)
  <1> DEFINE s == GPIO_init(p)
             tr == TRIG[p]
             ec == ECHO[p]
  <1>1. /\ tr \in {3, 21} /\ ec \in {2, 20}
        /\ Own(p) = {tr}
    BY DEF TRIG, ECHO, Own, OutPins, LedPins
  <1>2. s = <<Export(tr), Export(ec), Direction(tr, Output), Direction(ec, Input)>>
    BY DEF GPIO_init
  <1>3. ec \notin OutPins
    BY <1>1 DEF OutPins, LedPins, POUT, BLINK
  <1> HIDE DEF s, tr, ec
  <1>4. s \in Seq(Proper) /\ Len(s) = 4
    <2>1. \A q \in {tr, ec} : /\ Export(q) \in Proper /\ Direction(q, Output) \in Proper
                              /\ Direction(q, Input) \in Proper
      BY <1>1 DEF Export, Direction, Do, Proper, Calls, Pins, Nibbles, Input, Output
    <2>2. QED
      BY <1>2, <2>1
  <1>5. /\ s[1] = Export(tr) /\ s[2] = Export(ec)
        /\ s[3] = Direction(tr, Output) /\ s[4] = Direction(ec, Input)
    BY <1>2
  <1>6. /\ Comes(s, 3, Export(tr)) /\ Comes(s, 4, Export(ec))
        /\ Comes(s, 5, Export(tr)) /\ Comes(s, 5, Direction(tr, Output))
    BY <1>5 DEF Comes
  <1>7. /\ s[1].call = "export" /\ s[2].call = "export"
        /\ s[3].call = "direction" /\ s[3].pin = tr /\ s[3].value = Output
        /\ s[4].call = "direction" /\ s[4].pin = ec
    BY <1>5 DEF Export, Direction, Do
  <1>8. \A k \in 1..4 : SoundAt(s, k, ex, dir, p)
    <2>1. SoundAt(s, 1, ex, dir, p) /\ SoundAt(s, 2, ex, dir, p)
      BY <1>7 DEF SoundAt
    <2>2. SoundAt(s, 3, ex, dir, p) /\ SoundAt(s, 4, ex, dir, p)
      BY <1>3, <1>6, <1>7 DEF SoundAt, Prepared
    <2>3. QED
      BY <2>1, <2>2
  <1>9. Driven(s, 5, ex, dir, tr)
    BY <1>6 DEF Driven, Prepared
  <1>10. QED
    BY <1>1, <1>4, <1>8, <1>9 DEF Sound, s

LEMMA SoundMeasure ==
  ASSUME NEW p \in {"distance", "sensors"}, NEW ex, NEW dir, Sound(<<>>, ex, dir, p)
  PROVE  Sound(Measure(p), ex, dir, p)
  <1> DEFINE s == Measure(p)
             tr == TRIG[p]
             ec == ECHO[p]
  <1>1. /\ tr \in {3, 21} /\ ec \in {2, 20}
        /\ Own(p) = {tr} /\ tr \in OutPins
    BY DEF TRIG, ECHO, Own, OutPins, LedPins
  <1>2. s = <<Write(tr, 1), Write(tr, 0), Read(ec)>>
    BY DEF Measure
  <1> HIDE DEF s, tr, ec
  <1>3. tr \in ex /\ dir[tr] = Output
    BY <1>1 DEF Sound, Driven, Prepared, Comes
  <1>4. s \in Seq(Proper) /\ Len(s) = 3
    <2>1. Write(tr, 1) \in Proper /\ Write(tr, 0) \in Proper /\ Read(ec) \in Proper
      BY <1>1 DEF Write, Read, Do, Proper, Calls, Pins, Nibbles
    <2>2. QED
      BY <1>2, <2>1
  <1>5. /\ s[1].call = "write" /\ s[1].pin = tr /\ s[2].call = "write" /\ s[2].pin = tr
        /\ s[3].call = "read"
    BY <1>2 DEF Write, Read, Do
  <1>6. \A k \in 1..4 : Driven(s, k, ex, dir, tr)
    BY <1>3 DEF Driven, Prepared
  <1>7. \A k \in 1..3 : SoundAt(s, k, ex, dir, p)
    <2>1. SoundAt(s, 1, ex, dir, p) /\ SoundAt(s, 2, ex, dir, p) /\ SoundAt(s, 3, ex, dir, p)
      BY <1>1, <1>5, <1>6 DEF SoundAt
    <2>2. QED
      BY <2>1
  <1>8. QED
    BY <1>1, <1>4, <1>6, <1>7 DEF Sound, s

LEMMA SoundBlink ==
  ASSUME NEW ex, NEW dir
  PROVE  Sound(Blink, ex, dir, "blink")
  <1> DEFINE a == <<Export(BLINK), Export(D4), Direction(BLINK, Output), Direction(D4, Input)>>
             b == [i \in 1..22 |-> IF i % 2 = 1 THEN Write(BLINK, (10 - i \div 2) % 2)
                                  ELSE Read(D4)]
             c == <<Unexport(BLINK), Unexport(D4)>>
             s == Blink
  <1>1. /\ \A p \in {BLINK, D4} :
             /\ Export(p) \in Proper /\ Unexport(p) \in Proper /\ Read(p) \in Proper
             /\ \A v \in {0, 1} : Direction(p, v) \in Proper /\ Write(p, v) \in Proper
        /\ Input \in {0, 1} /\ Output \in {0, 1}
    BY DEF Export, Unexport, Read, Write, Direction, Do, Proper, Calls, Pins, Nibbles, Input, Output
  <1>2. a \in Seq(Proper) /\ Len(a) = 4 /\ c \in Seq(Proper) /\ Len(c) = 2
    BY <1>1
  <1>3. b \in Seq(Proper) /\ Len(b) = 22
    <2>1. \A i \in 1..22 : (10 - i \div 2) % 2 \in {0, 1}
      OBVIOUS
    <2>2. b \in [1..22 -> Proper]
      BY <1>1, <2>1
    <2>3. QED
      BY <2>2
  <1>4. \A i \in 1..22 : b[i].call \in {"write", "read"} /\ (b[i].call = "write" => b[i].pin = BLINK)
    BY DEF Write, Read, Do
  <1>5. /\ a[1] = Export(BLINK) /\ a[2] = Export(D4)
        /\ a[3] = Direction(BLINK, Output) /\ a[4] = Direction(D4, Input)
        /\ c[1].call = "unexport" /\ c[2].call = "unexport"
    BY DEF Unexport, Do
  <1>6. s = (a \o b) \o c
    BY DEF Blink
  <1> HIDE DEF a, b, c, s
  <1>7. /\ s \in Seq(Proper) /\ Len(s) = 28
        /\ \A i \in 1..4 : s[i] = a[i]
        /\ \A i \in 5..26 : s[i] = b[i - 4] /\ i - 4 \in 1..22
        /\ s[27] = c[1] /\ s[28] = c[2]
    <2> DEFINE d == a \o b
    <2>1. /\ d \in Seq(Proper) /\ Len(d) = 26
          /\ \A i \in 1..26 : d[i] = IF i <= 4 THEN a[i] ELSE b[i - 4]
      <3>1. d \in Seq(Proper) /\ Len(d) = Len(a) + Len(b)
        BY <1>2, <1>3, ConcatProperties
      <3>2. \A i \in 1..(Len(a) + Len(b)) : d[i] = IF i <= Len(a) THEN a[i] ELSE b[i - Len(a)]
        BY <1>2, <1>3, ConcatProperties
      <3> HIDE DEF d
      <3>3. Len(a) = 4 /\ Len(b) = 22
        BY <1>2, <1>3
      <3>4. Len(d) = 26
        BY <3>1, <3>3
      <3>5. \A i \in 1..26 : d[i] = IF i <= 4 THEN a[i] ELSE b[i - 4]
        BY <3>2, <3>3
      <3>6. QED
        BY <3>1, <3>4, <3>5
    <2> HIDE DEF d
    <2>2. /\ s \in Seq(Proper) /\ Len(s) = 28
          /\ \A i \in 1..28 : s[i] = IF i <= 26 THEN d[i] ELSE c[i - 26]
      <3>1. s = d \o c
        BY <1>6 DEF d
      <3>2. s \in Seq(Proper) /\ Len(s) = Len(d) + Len(c)
        BY <1>2, <2>1, <3>1, ConcatProperties
      <3>3. \A i \in 1..(Len(d) + Len(c)) : s[i] = IF i <= Len(d) THEN d[i] ELSE c[i - Len(d)]
        BY <1>2, <2>1, <3>1, ConcatProperties
      <3>4. Len(d) = 26 /\ Len(c) = 2
        BY <1>2, <2>1
      <3>5. Len(s) = 28
        BY <3>2, <3>4
      <3>6. \A i \in 1..28 : s[i] = IF i <= 26 THEN d[i] ELSE c[i - 26]
        BY <3>3, <3>4
      <3>7. QED
        BY <3>2, <3>5, <3>6
    <2>3. \A i \in 5..26 : s[i] = b[i - 4] /\ i - 4 \in 1..22
      <3>1. SUFFICES ASSUME NEW i \in 5..26
                     PROVE  s[i] = b[i - 4] /\ i - 4 \in 1..22
        OBVIOUS
      <3>2. i - 4 \in 1..22 /\ i \in 1..26 /\ i \in 1..28 /\ i <= 26 /\ ~ (i <= 4)
        OBVIOUS
      <3>3. s[i] = d[i] /\ d[i] = b[i - 4]
        BY <2>1, <2>2, <3>2
      <3>4. QED
        BY <3>2, <3>3
    <2>4. s[27] = c[1] /\ s[28] = c[2]
      <3>1. s[27] = c[27 - 26] /\ s[28] = c[28 - 26]
        BY <2>2
      <3>2. QED
        BY <3>1
    <2>5. \A i \in 1..4 : s[i] = a[i]
      <3>1. \A i \in 1..4 : i \in 1..26 /\ i \in 1..28 /\ i <= 26 /\ i <= 4
        OBVIOUS
      <3>2. ASSUME NEW i \in 1..4 PROVE s[i] = d[i] /\ d[i] = a[i]
        BY <2>1, <2>2, <3>1
      <3>3. QED
        BY <3>2
    <2>6. QED
      BY <2>2, <2>3, <2>4, <2>5, Zenon
  <1>8. /\ s[1] = Export(BLINK) /\ s[2] = Export(D4)
        /\ s[3] = Direction(BLINK, Output) /\ s[4] = Direction(D4, Input)
        /\ \A i \in 5..26 : /\ s[i].call \in {"write", "read"}
                            /\ s[i].call = "write" => s[i].pin = BLINK
        /\ \A i \in 27..28 : s[i].call = "unexport"
    <2>1. /\ s[1] = a[1] /\ s[2] = a[2] /\ s[3] = a[3] /\ s[4] = a[4]
      BY <1>7
    <2>2. ASSUME NEW i \in 5..26
          PROVE  /\ s[i].call \in {"write", "read"}
                 /\ s[i].call = "write" => s[i].pin = BLINK
      <3>1. s[i] = b[i - 4] /\ i - 4 \in 1..22
        BY <1>7
      <3>2. QED
        BY <1>4, <3>1
    <2>3. s[27].call = "unexport" /\ s[28].call = "unexport"
      BY <1>5, <1>7
    <2>4. \A i \in 27..28 : i = 27 \/ i = 28
      OBVIOUS
    <2>5. \A i \in 27..28 : s[i].call = "unexport"
      BY <2>3, <2>4
    <2>6. QED
      BY <1>5, <2>1, <2>2, <2>5
  <1>9. /\ s[1].call = "export" /\ s[2].call = "export"
        /\ s[3].call = "direction" /\ s[3].pin = BLINK /\ s[3].value = Output
        /\ s[4].call = "direction" /\ s[4].pin = D4
    BY <1>8 DEF Export, Direction, Do
  <1>10. /\ \A k \in 2..28 : Comes(s, k, Export(BLINK))
         /\ \A k \in 3..28 : Comes(s, k, Export(D4))
         /\ \A k \in 4..28 : Comes(s, k, Direction(BLINK, Output))
    BY <1>8 DEF Comes
  <1>11. BLINK \in OutPins /\ D4 \notin OutPins
    BY DEF OutPins, LedPins, POUT, BLINK, D4
  <1>12. ASSUME NEW k \in 1..28 PROVE SoundAt(s, k, ex, dir, "blink")
    <2>1. CASE k \in 1..4
      <3>1. SoundAt(s, 1, ex, dir, "blink") /\ SoundAt(s, 2, ex, dir, "blink")
        BY <1>9 DEF SoundAt
      <3>2. SoundAt(s, 3, ex, dir, "blink") /\ SoundAt(s, 4, ex, dir, "blink")
        BY <1>9, <1>10, <1>11 DEF SoundAt, Prepared
      <3>3. QED
        BY <2>1, <3>1, <3>2
    <2>2. CASE k \in 5..26
      <3>1. Driven(s, k, ex, dir, BLINK)
        <4>1. k \in 2..28 /\ k \in 4..28
          BY <2>2
        <4>2. QED
          BY <1>10, <4>1 DEF Prepared, Driven
      <3>2. s[k].call \in {"write", "read"} /\ (s[k].call = "write" => s[k].pin = BLINK)
        BY <1>8, <2>2
      <3>3. QED
        BY <1>11, <3>1, <3>2 DEF SoundAt
    <2>3. CASE k \in 27..28
      <3>1. \A j \in k..Len(s) : j \in 27..28
        <4>1. Len(s) = 28
          BY <1>7
        <4>2. \A j \in k..28 : j \in 27..28
          BY <2>3
        <4>3. QED
          BY <4>1, <4>2
      <3>2. s[k].call = "unexport" /\ \A j \in k..Len(s) : s[j].call = "unexport"
        BY <1>8, <2>3, <3>1
      <3>3. QED
        BY <3>2 DEF SoundAt
    <2>4. QED
      BY <2>1, <2>2, <2>3
  <1>13. Own("blink") = {}
    BY DEF Own
  <1>14. QED
    BY <1>7, <1>12, <1>13 DEF Sound, s

LEMMA SoundMain ==
  ASSUME NEW p \in Programs, NEW ex, NEW dir
  PROVE  Sound(Main(p), ex, dir, p)
  <1> DEFINE Greets == <<Greet(1), Greet(2), Greet(3)>>
  <1>1. <<>> \in Seq(Proper)
    BY EmptySeq
  <1>2. CASE p = "display"
    <2>1. Main(p) = GPIOinit \o lcd_init
      BY <1>2 DEF Main
    <2>2. QED
      BY <1>2, <2>1, SoundInit, LcdCallsAreOthers, OthersLast
  <1>3. CASE p \in {"hello", "greet"}
    <2>1. /\ Greets \in Seq(Others) /\ <<Greet(4)>> \in Seq(Others)
      BY SingleCalls
    <2>2. PICK g \in Seq(Others) : Main(p) = lcd_init \o g
      BY <1>3, <2>1 DEF Main
    <2>3. Own(p) = {}
      BY <1>3 DEF Own
    <2>4. Sound(<<>>, ex, dir, p)
      BY <1>1, <2>3 DEF Sound
    <2>5. lcd_init \in Seq(Others) /\ lcd_init \o g \in Seq(Others)
      BY LcdCallsAreOthers, ConcatProperties
    <2>6. Sound((lcd_init \o g) \o <<>>, ex, dir, p)
      BY <2>4, <2>5, OthersFirst
    <2>7. (lcd_init \o g) \o <<>> = lcd_init \o g
      BY <2>5, ConcatEmptySeq
    <2>8. QED
      BY <2>2, <2>6, <2>7
  <1>4. CASE p = "blink"
    <2>1. Main(p) = Blink
      BY <1>4 DEF Main
    <2>2. QED
      BY <1>4, <2>1, SoundBlink
  <1>5. CASE p \in {"distance", "sensors"}
    <2>1. Main(p) = GPIO_init(p)
      BY <1>5 DEF Main
    <2>2. QED
      BY <1>5, <2>1, SoundSensorInit
  <1>6. QED
    BY <1>2, <1>3, <1>4, <1>5 DEF Programs

-----------------------------------------------------------------------------
(***************************************************************************)
(* The LEDs in lines that are put together.                                *)
(***************************************************************************)
\* Other calls come before a line that has LEDs set up, or finds none lit.
LEMMA LitOthersFirst ==
  ASSUME NEW x \in Seq(Others), NEW t \in Seq(Proper), NEW lv, NEW pr, Lit(t, lv, pr),
         \A p \in LedPins : lv[p] = 1 => Comes(t, Len(t) + 1, Direction(p, Output))
  PROVE  Lit(x \o t, lv, pr)
  <1> DEFINE s == x \o t
             n == Len(x)
  <1>1. /\ n \in Nat /\ Len(t) \in Nat /\ Len(s) = n + Len(t)
        /\ \A i \in 1..n : s[i] = x[i]
        /\ \A i \in 1..Len(t) : s[n + i] = t[i]
    <2>1. x \in Seq(Proper)
      BY OthersAreCalls, SeqMonotonic
    <2>2. n \in Nat /\ Len(t) \in Nat
      BY <2>1, LenProperties
    <2>3. /\ Len(s) = n + Len(t)
          /\ \A i \in 1..(n + Len(t)) : s[i] = IF i <= n THEN x[i] ELSE t[i - n]
      BY <2>1, ConcatProperties
    <2>4. QED
      BY <2>1, <2>2, <2>3
  <1>2. \A i \in 1..n : s[i].call # "write"
    <2>1. \A i \in 1..n : x[i] \in Others
      BY ElementOfSeq
    <2>2. QED
      BY <1>1, <2>1 DEF Others, LcdCalls
  <1> HIDE DEF s, n
  <1>3. SUFFICES ASSUME pr = "display" PROVE Lit(s, lv, pr)
    BY DEF Lit, s
  <1>4. ASSUME NEW i \in 1..Len(s), s[i].call = "write"
        PROVE  \/ i + 1 = Len(s) /\ s[i + 1] = Write(s[i].pin, 0)
               \/ i = Len(s) /\ s[i].value = 0
    <2> DEFINE k == i - n
    <2>1. k \in 1..Len(t) /\ n + k = i
      BY <1>1, <1>2, <1>4
    <2> HIDE DEF k
    <2>2. s[i] = t[k]
      BY <1>1, <2>1
    <2>3. CASE k = Len(t) /\ t[k].value = 0
      BY <1>1, <2>1, <2>2, <2>3
    <2>4. CASE k + 1 = Len(t) /\ t[k + 1] = Write(t[k].pin, 0)
      <3>1. k + 1 \in 1..Len(t) /\ n + (k + 1) = i + 1 /\ i + 1 = Len(s)
        BY <1>1, <2>1, <2>4
      <3>2. s[n + (k + 1)] = t[k + 1]
        BY <1>1, <3>1
      <3>3. QED
        BY <2>2, <2>4, <3>1, <3>2
    <2>5. QED
      BY <1>3, <1>4, <2>1, <2>2, <2>3, <2>4 DEF Lit
  <1>5. ASSUME NEW p \in LedPins, lv[p] = 1
        PROVE  Comes(s, Len(s) + 1, Direction(p, Output))
    <2>1. PICK j \in 1..((Len(t) + 1) - 1) : t[j] = Direction(p, Output)
      BY <1>5 DEF Comes
    <2>2. j \in 1..Len(t) /\ n + j \in 1..((Len(s) + 1) - 1)
      BY <1>1
    <2>3. s[n + j] = Direction(p, Output)
      BY <1>1, <2>1, <2>2
    <2>4. QED
      BY <2>2, <2>3 DEF Comes
  <1>6. QED
    BY <1>4, <1>5 DEF Lit

LEMMA LitMain == \A lv : Lit(Main("display"), lv, "display")
  <1> SUFFICES ASSUME NEW lv PROVE Lit(Main("display"), lv, "display")
    OBVIOUS
  <1> DEFINE a == GPIOinit
             b == lcd_init
             s == a \o b
  <1>1. Main("display") = s
    BY DEF Main
  <1>2. /\ a \in Seq(Proper) /\ Len(a) = 8
        /\ \A i \in 1..4 : a[i] = Export(POUT[i]) /\ a[4 + i] = Direction(POUT[i], Output)
    BY InitCalls
  <1>3. b \in Seq(Others) /\ b \in Seq(Proper) /\ Len(b) \in Nat
    BY LcdCallsAreOthers, OthersAreCalls, SeqMonotonic, LenProperties
  <1> HIDE DEF a, b
  <1>4. /\ Len(s) = Len(a) + Len(b)
        /\ \A i \in 1..(Len(a) + Len(b)) : s[i] = IF i <= Len(a) THEN a[i] ELSE b[i - Len(a)]
    BY <1>2, <1>3, ConcatProperties
  <1> HIDE DEF s
  <1>5. /\ Len(s) = 8 + Len(b)
        /\ \A i \in 1..8 : s[i] = a[i]
        /\ \A i \in 9..Len(s) : s[i] = b[i - 8] /\ i - 8 \in 1..Len(b)
    BY <1>2, <1>3, <1>4
  <1>6. \A i \in 1..Len(s) : s[i].call # "write"
    <2>1. ASSUME NEW i \in 9..Len(s) PROVE s[i].call # "write"
      <3>1. b[i - 8] \in Others
        BY <1>3, <1>5, ElementOfSeq
      <3>2. QED
        BY <1>5, <3>1 DEF Others, LcdCalls
    <2>2. ASSUME NEW i \in 1..4 PROVE s[i].call # "write" /\ s[4 + i].call # "write"
      <3>1. s[i] = Export(POUT[i]) /\ s[4 + i] = Direction(POUT[i], Output)
        BY <1>2, <1>5
      <3>2. QED
        BY <3>1 DEF Export, Direction, Do
    <2>3. \A i \in 1..Len(s) : i \in 9..Len(s) \/ i \in 1..4 \/ \E j \in 1..4 : i = 4 + j
      BY <1>3, <1>5
    <2>4. QED
      BY <2>1, <2>2, <2>3
  <1>7. ASSUME NEW p \in LedPins PROVE Comes(s, Len(s) + 1, Direction(p, Output))
    <2>1. PICK i \in 1..4 : p = POUT[i]
      BY DEF LedPins
    <2>2. 4 + i \in 1..8 /\ 4 + i \in 1..((Len(s) + 1) - 1)
      BY <1>3, <1>5
    <2>3. s[4 + i] = Direction(p, Output)
      BY <1>2, <1>5, <2>1, <2>2
    <2>4. QED
      BY <2>2, <2>3 DEF Comes
  <1>8. QED
    BY <1>1, <1>6, <1>7 DEF Lit

\* gpio_write() of one LED, when none is lit.
LEMMA SoundGpioWrite ==
  ASSUME NEW l \in 1..4, NEW ex, NEW dir, NEW lv,
         Sound(<<>>, ex, dir, "display"), Lit(<<>>, lv, "display")
  PROVE  LET t == <<Write(POUT[l], 1), Write(POUT[l], 0)>>
         IN  Sound(t, ex, dir, "display") /\ Lit(t, lv, "display")
  <1> DEFINE p == POUT[l]
             t == <<Write(p, 1), Write(p, 0)>>
  <1>1. p \in LedPins /\ p \in Pins /\ p \in OutPins
    BY DEF LedPins, Pins, OutPins
  <1>2. Own("display") = LedPins
    BY DEF Own, OutPins
  <1> HIDE DEF p
  <1>3. \A q \in LedPins : q \in ex /\ dir[q] = Output /\ lv[q] # 1
    <2>1. ASSUME NEW q \in LedPins PROVE q \in ex /\ dir[q] = Output
      BY <1>2 DEF Sound, Driven, Prepared, Comes
    <2>2. ASSUME NEW q \in LedPins PROVE lv[q] # 1
      BY DEF Lit, Comes
    <2>3. QED
      BY <2>1, <2>2
  <1>4. /\ t[1].call = "write" /\ t[1].pin = p
        /\ t[2].call = "write" /\ t[2].pin = p /\ t[2].value = 0
        /\ t[2] = Write(p, 0)
        /\ Len(t) = 2
    BY DEF Write, Do
  <1>5. t \in Seq(Proper)
    <2>1. Write(p, 1) \in Proper /\ Write(p, 0) \in Proper
      BY <1>1 DEF Write, Do, Proper, Calls, Nibbles
    <2>2. QED
      BY <2>1
  <1> HIDE DEF t
  <1>6. \A k : \A q \in LedPins : Driven(t, k, ex, dir, q)
    BY <1>3 DEF Driven, Prepared
  <1>7. \A k \in 1..2 : k = 1 \/ k = 2
    OBVIOUS
  <1>8. \A k \in 1..Len(t) : SoundAt(t, k, ex, dir, "display")
    <2>1. SoundAt(t, 1, ex, dir, "display") /\ SoundAt(t, 2, ex, dir, "display")
      BY <1>1, <1>4, <1>6 DEF SoundAt
    <2>2. QED
      BY <1>4, <1>7, <2>1
  <1>9. Sound(t, ex, dir, "display")
    BY <1>2, <1>5, <1>6, <1>8 DEF Sound
  <1>10. ASSUME NEW k \in 1..Len(t)
         PROVE  \/ k + 1 = Len(t) /\ t[k + 1] = Write(t[k].pin, 0)
                \/ k = Len(t) /\ t[k].value = 0
    <2>1. CASE k = 1
      BY <1>4, <2>1
    <2>2. CASE k = 2
      BY <1>4, <2>2
    <2>3. QED
      BY <1>4, <1>7, <2>1, <2>2
  <1>11. Lit(t, lv, "display")
    BY <1>3, <1>10 DEF Lit
  <1>12. QED
    BY <1>9, <1>11 DEF t, p

-----------------------------------------------------------------------------
(***************************************************************************)
(* The invariant: until a call fails by itself, the calls that a program   *)
(* is about to make are sound, on the pins as it found them.               *)
(***************************************************************************)
PinsInv ==
  /\ direction = [p \in Pins |-> direction[p]]
  /\ level = [p \in Pins |-> level[p]]
  /\ ~ failed => /\ status \notin 1..4
                 /\ Sound(todo, exported, direction, prog)
                 /\ Lit(todo, level, prog)

LEMMA NothingToDo ==
  ASSUME NEW ex, NEW dir, NEW lv, NEW pr, Own(pr) = {}, pr # "display"
  PROVE  Sound(<<>>, ex, dir, pr) /\ Lit(<<>>, lv, pr)
  BY EmptySeq DEF Sound, Lit

LEMMA PinsInit == Init => PinsInv
  <1> SUFFICES ASSUME Init PROVE PinsInv
    OBVIOUS
  <1>1. Own("none") = {}
    BY DEF Own
  <1>2. Sound(<<>>, exported, direction, "none") /\ Lit(<<>>, level, "none")
    BY <1>1, NothingToDo
  <1>3. /\ direction = [p \in Pins |-> direction[p]]
        /\ level = [p \in Pins |-> level[p]]
    BY DEF Init
  <1>4. QED
    BY <1>2, <1>3 DEF Init, PinsInv

\* A call that does what it is for.
LEMMA CallDone ==
  ASSUME PinsInv, todo # <<>>, todo' = Tail(todo),
         UNCHANGED <<prog, status>>, failed' = failed,
         direction' = [p \in Pins |-> direction'[p]], level' = [p \in Pins |-> level'[p]],
         ~ failed =>
           /\ \A p \in exported : p \in exported' \/ Head(todo).call = "unexport"
           /\ \A p : Head(todo) = Export(p) => p \in exported'
           /\ \A p \in OutPins :
                direction[p] = Output \/ Head(todo) = Direction(p, Output)
                => direction'[p] = Output
           /\ \A p \in LedPins : level'[p] = 1 =>
                \/ Head(todo).call = "write" /\ Head(todo).pin = p /\ Head(todo).value # 0
                \/ /\ level[p] = 1
                   /\ Head(todo) # Direction(p, Output)
                   /\ ~ (Head(todo).call = "write" /\ Head(todo).pin = p)
  PROVE  PinsInv'
  <1>1. ASSUME ~ failed
        PROVE  /\ status' \notin 1..4
               /\ Sound(Tail(todo), exported', direction', prog)
               /\ Lit(Tail(todo), level', prog)
    <2>1. /\ status \notin 1..4
          /\ Sound(todo, exported, direction, prog) /\ todo \in Seq(Proper)
          /\ Lit(todo, level, prog)
      BY <1>1 DEF PinsInv, Sound
    <2>2. Sound(Tail(todo), exported', direction', prog)
      BY <1>1, <2>1, CallMade
    <2>3. Lit(Tail(todo), level', prog)
      BY <1>1, <2>1, LedCallMade
    <2>4. QED
      BY <2>1, <2>2, <2>3
  <1>2. QED
    BY <1>1 DEF PinsInv

\* A call that fails as it must, or by itself.
LEMMA CallFails ==
  ASSUME PinsInv, UNCHANGED pinVars, failed' = TRUE
  PROVE  PinsInv'
  BY DEF PinsInv, pinVars

\* What a call is about.
LEMMA FirstCall ==
  ASSUME PinsInv, ~ failed, todo # <<>>
  PROVE  /\ Head(todo) \in Proper
         /\ Head(todo).call = "direction" =>
              Pin \in exported /\ (Pin \in OutPins => Value = Output)
         /\ Head(todo).call = "write" =>
              Pin \in OutPins /\ Pin \in exported /\ direction[Pin] = Output
         /\ Head(todo).call = "print" => Value \in 1..4
  <1>1. todo \in Seq(Proper) /\ Sound(todo, exported, direction, prog)
    BY DEF PinsInv, Sound
  <1>2. Head(todo) = todo[1] /\ 1 \in 1..Len(todo) /\ Head(todo) \in Proper
    BY <1>1, HeadTailProperties, LenProperties, EmptySeq
  <1>3. SoundAt(todo, 1, exported, direction, prog)
    BY <1>1, <1>2 DEF Sound
  <1>4. Head(todo).call = "print" => Value \in 1..4
    BY <1>2 DEF Proper, Value
  <1>5. QED
    BY <1>2, <1>3, <1>4 DEF SoundAt, Driven, Prepared, Comes, Pin, Value

-----------------------------------------------------------------------------
(***************************************************************************)
(* The steps.                                                              *)
(***************************************************************************)
LEMMA CallKinds ==
  \A p, q, v, d : /\ Export(p) # Direction(q, d) /\ Export(p).call = "export"
                  /\ Direction(q, d).call = "direction"
                  /\ Direction(q, d).pin = q /\ Direction(q, d).value = d
                  /\ Export(p).pin = p
  BY DEF Export, Direction, Do

\* A call that is not about the pins of sysfs.
LEMMA OtherCall ==
  ASSUME PinsInv, todo # <<>>, todo' = Tail(todo),
         UNCHANGED <<exported, level, prog, status>>, failed' = failed,
         Head(todo).call \notin {"export", "direction", "write"},
         direction' = [p \in Pins |-> direction'[p]],
         \A p \in OutPins : direction[p] = Output => direction'[p] = Output
  PROVE  PinsInv'
  <1>1. \A p : Head(todo) # Export(p) /\ Head(todo) # Direction(p, Output)
    BY CallKinds
  <1>2. level' = [p \in Pins |-> level'[p]]
    BY DEF PinsInv
  <1>3. QED
    BY <1>1, <1>2, CallDone

LEMMA ExportStep == PinsInv /\ GPIOExport => PinsInv'
  <1> SUFFICES ASSUME PinsInv, GPIOExport PROVE PinsInv'
    OBVIOUS
  <1>1. /\ todo # <<>> /\ Head(todo).call = "export" /\ exported' = exported \cup {Pin}
        /\ todo' = Tail(todo) /\ UNCHANGED <<prog, status, failed, direction, level>>
    BY DEF GPIOExport, Calling, Done
  <1>2. \A p : Head(todo) = Export(p) => p \in exported'
    BY <1>1, CallKinds DEF Pin
  <1>3. \A p : Head(todo) # Direction(p, Output)
    BY <1>1, CallKinds
  <1>4. /\ direction' = [p \in Pins |-> direction'[p]]
        /\ level' = [p \in Pins |-> level'[p]]
    BY <1>1 DEF PinsInv
  <1>5. QED
    BY <1>1, <1>2, <1>3, <1>4, CallDone

LEMMA UnexportStep == PinsInv /\ GPIOUnexport => PinsInv'
  <1> SUFFICES ASSUME PinsInv, GPIOUnexport PROVE PinsInv'
    OBVIOUS
  <1>1. /\ todo # <<>> /\ Head(todo).call = "unexport"
        /\ todo' = Tail(todo) /\ UNCHANGED <<prog, status, failed, direction, level>>
    BY DEF GPIOUnexport, Calling, Done
  <1>2. \A p : Head(todo) # Export(p) /\ Head(todo) # Direction(p, Output)
    BY <1>1, CallKinds
  <1>3. /\ direction' = [p \in Pins |-> direction'[p]]
        /\ level' = [p \in Pins |-> level'[p]]
    BY <1>1 DEF PinsInv
  <1>4. QED
    BY <1>1, <1>2, <1>3, CallDone

LEMMA DirectionStep == PinsInv /\ GPIODirection => PinsInv'
  <1> SUFFICES ASSUME PinsInv, GPIODirection PROVE PinsInv'
    OBVIOUS
  <1>1. /\ todo # <<>> /\ Head(todo).call = "direction"
        /\ direction' = [direction EXCEPT ![Pin] = Value]
        /\ level' = [level EXCEPT ![Pin] = 0]
        /\ todo' = Tail(todo) /\ UNCHANGED <<prog, status, failed, exported>>
    BY DEF GPIODirection, Calling, Done
  <1>2. /\ direction' = [p \in Pins |-> direction'[p]]
        /\ level' = [p \in Pins |-> level'[p]]
        /\ \A p \in Pins : direction'[p] = IF p = Pin THEN Value ELSE direction[p]
        /\ \A p \in Pins : level'[p] = IF p = Pin THEN 0 ELSE level[p]
    BY <1>1 DEF PinsInv
  <1>3. OutPins \subseteq Pins /\ LedPins \subseteq OutPins
    BY DEF OutPins, Pins
  <1>4. \A p : Head(todo) # Export(p)
    BY <1>1, CallKinds
  <1>5. \A p : Head(todo) = Direction(p, Output) => Pin = p /\ Value = Output
    BY CallKinds DEF Pin, Value
  <1>6. ASSUME ~ failed, NEW p \in OutPins,
               direction[p] = Output \/ Head(todo) = Direction(p, Output)
        PROVE  direction'[p] = Output
    <2>1. Pin \in OutPins => Value = Output
      BY <1>1, <1>6, FirstCall
    <2>2. QED
      BY <1>2, <1>3, <1>5, <1>6, <2>1
  <1>7. ASSUME NEW p \in LedPins, level'[p] = 1
        PROVE  level[p] = 1 /\ Head(todo) # Direction(p, Output)
    BY <1>2, <1>3, <1>5, <1>7
  <1>8. QED
    BY <1>1, <1>2, <1>4, <1>6, <1>7, CallDone

LEMMA WriteStep == PinsInv /\ GPIOWrite => PinsInv'
  <1> SUFFICES ASSUME PinsInv, GPIOWrite PROVE PinsInv'
    OBVIOUS
  <1>1. /\ todo # <<>> /\ Head(todo).call = "write"
        /\ level' = [level EXCEPT ![Pin] = Value]
        /\ todo' = Tail(todo) /\ UNCHANGED <<prog, status, failed, exported, direction>>
    BY DEF GPIOWrite, Calling, Done
  <1>2. /\ direction' = [p \in Pins |-> direction'[p]]
        /\ level' = [p \in Pins |-> level'[p]]
        /\ \A p \in Pins : level'[p] = IF p = Pin THEN Value ELSE level[p]
    BY <1>1 DEF PinsInv
  <1>3. LedPins \subseteq Pins
    BY DEF Pins
  <1>4. \A p : Head(todo) # Export(p) /\ Head(todo) # Direction(p, Output)
    BY <1>1, CallKinds
  <1>5. ASSUME NEW p \in LedPins, level'[p] = 1
        PROVE  \/ Head(todo).pin = p /\ Head(todo).value # 0
               \/ level[p] = 1 /\ Head(todo).pin # p
    BY <1>2, <1>3, <1>5 DEF Pin, Value
  <1>6. QED
    BY <1>1, <1>2, <1>4, <1>5, CallDone

LEMMA PlainSteps ==
  PinsInv /\ (GPIORead \/ pinMode \/ SelectRegister \/ SendNibble \/ PulseMissed \/ Wait)
  => PinsInv'
  <1> SUFFICES ASSUME PinsInv, GPIORead \/ pinMode \/ SelectRegister \/ SendNibble
                               \/ PulseMissed \/ Wait
               PROVE  PinsInv'
    OBVIOUS
  <1>1. /\ todo # <<>> /\ todo' = Tail(todo)
        /\ UNCHANGED <<exported, level, prog, status, failed>>
    BY DEF GPIORead, pinMode, SelectRegister, SendNibble, PulseMissed, Wait, Calling, Done,
           pinVars
  <1>2. Head(todo).call \in {"read", "output", "rs", "nibble", "delay"}
    BY DEF GPIORead, pinMode, SelectRegister, SendNibble, PulseMissed, Wait, Calling
  <1>3. direction' = direction \/ direction' = [direction EXCEPT ![D4] = Output]
    BY DEF GPIORead, pinMode, SelectRegister, SendNibble, PulseMissed, Wait, pinVars
  <1>4. /\ direction' = [p \in Pins |-> direction'[p]]
        /\ \A p \in Pins : direction'[p] = direction[p] \/ direction'[p] = Output
    BY <1>3 DEF PinsInv
  <1>5. OutPins \subseteq Pins
    BY DEF OutPins, Pins
  <1>6. \A p \in OutPins : direction[p] = Output => direction'[p] = Output
    BY <1>4, <1>5
  <1>7. QED
    BY <1>1, <1>2, <1>4, <1>6, OtherCall

LEMMA FailSteps ==
  PinsInv /\ (ExportFails \/ UnexportFails \/ DirectionFails \/ WriteFails) => PinsInv'
  <1> SUFFICES ASSUME PinsInv, ExportFails \/ UnexportFails \/ DirectionFails \/ WriteFails
               PROVE  PinsInv'
    OBVIOUS
  <1>1. UNCHANGED pinVars
    BY DEF ExportFails, UnexportFails, DirectionFails, WriteFails, Returns
  <1>2. CASE failed' = TRUE
    BY <1>1, <1>2, CallFails
  <1>3. CASE /\ Calling("direction") /\ Pin \notin exported /\ failed' = failed
    <2>1. ~ ~ failed
      BY <1>3, FirstCall DEF Calling
    <2>2. QED
      BY <1>1, <1>3, <2>1 DEF PinsInv, pinVars
  <1>4. CASE /\ Calling("write") /\ (Pin \notin exported \/ direction[Pin] = Input)
             /\ failed' = failed
    <2>1. ~ ~ failed
      <3>1. Input # Output
        BY DEF Input, Output
      <3>2. QED
        BY <1>4, <3>1, FirstCall DEF Calling
    <2>2. QED
      BY <1>1, <1>4, <2>1 DEF PinsInv, pinVars
  <1>5. QED
    BY <1>2, <1>3, <1>4 DEF ExportFails, UnexportFails, DirectionFails, WriteFails, ByItself

LEMMA PrintStep == PinsInv /\ PrintGreeting => PinsInv'
  <1> SUFFICES ASSUME PinsInv, PrintGreeting PROVE PinsInv'
    OBVIOUS
  <1> DEFINE x == IF Value = 4 THEN SetChrMode \o lcd_text(text') ELSE lcd_print(text')
             t == Tail(todo)
  <1>1. /\ todo # <<>> /\ Head(todo).call = "print"
        /\ text' = Greetings[Value] /\ todo' = x \o t
        /\ UNCHANGED <<exported, direction, level, prog, status, failed>>
    BY DEF PrintGreeting, Calling, pinVars
  <1> HIDE DEF x
  <1>2. ASSUME ~ failed
        PROVE  Sound(x \o t, exported, direction, prog) /\ Lit(x \o t, level, prog)
    <2>1. Value \in 1..4
      BY <1>1, <1>2, FirstCall
    <2>2. text' \in Texts
      BY <1>1, <2>1, BoardAssumption
    <2>3. x \in Seq(Others)
      BY <2>2, LcdCallsAreOthers DEF x
    <2>4. /\ Sound(todo, exported, direction, prog) /\ todo \in Seq(Proper)
          /\ Lit(todo, level, prog)
      BY <1>2 DEF PinsInv, Sound
    <2>5. \A p : Head(todo) # Export(p) /\ Head(todo) # Direction(p, Output)
      BY <1>1, CallKinds
    <2>6. Sound(t, exported, direction, prog)
      BY <1>1, <2>4, <2>5, CallMade
    <2>7. Lit(t, level, prog)
      BY <1>1, <2>4, <2>5, LedCallMade
    <2>8. Sound(x \o t, exported, direction, prog)
      BY <2>3, <2>6, OthersFirst
    <2>9. ASSUME prog = "display", NEW p \in LedPins, level[p] = 1
          PROVE  Comes(t, Len(t) + 1, Direction(p, Output))
      <3>1. /\ t \in Seq(Proper) /\ Len(todo) \in Nat /\ Len(t) \in Nat
            /\ Len(t) = Len(todo) - 1
            /\ \A i \in 1..Len(t) : t[i] = todo[i + 1]
            /\ Head(todo) = todo[1]
        BY <1>1, <2>4, HeadTailProperties, LenProperties
      <3>2. todo # <<Write(p, 0)>>
        <4>1. Write(p, 0).call = "write"
          BY DEF Write, Do
        <4>2. todo = <<Write(p, 0)>> => todo[1] = Write(p, 0)
          OBVIOUS
        <4>3. QED
          BY <1>1, <3>1, <4>1, <4>2
      <3>3. PICK j \in 1..((Len(todo) + 1) - 1) : todo[j] = Direction(p, Output)
        BY <2>4, <2>9, <3>2 DEF Lit, Comes
      <3>4. /\ j # 1 /\ j - 1 \in 1..Len(t) /\ j - 1 \in 1..((Len(t) + 1) - 1)
            /\ (j - 1) + 1 = j
        BY <2>5, <3>1, <3>3
      <3>5. t[j - 1] = Direction(p, Output)
        BY <3>1, <3>3, <3>4
      <3>6. QED
        BY <3>4, <3>5 DEF Comes
    <2>10. Lit(x \o t, level, prog)
      <3>1. CASE prog = "display"
        BY <2>3, <2>6, <2>7, <2>9, <3>1, LitOthersFirst DEF Sound
      <3>2. CASE prog # "display"
        BY <3>2 DEF Lit
      <3>3. QED
        BY <3>1, <3>2
    <2>11. QED
      BY <2>8, <2>10
  <1>3. QED
    BY <1>1, <1>2 DEF PinsInv

LEMMA ReceiveStep == PinsInv /\ ReceiveMessage => PinsInv'
  <1> SUFFICES ASSUME PinsInv, ReceiveMessage PROVE PinsInv'
    OBVIOUS
  <1>1. PICK m \in Messages :
          /\ IF m.led = 4 THEN \E t \in Leftovers : text' = m.alert \o t
                          ELSE text' = m.alert \o m.rest
          /\ todo' = lcd_print(text') \o
                     IF m.led = 0 THEN <<>> ELSE <<Write(POUT[m.led], 1), Write(POUT[m.led], 0)>>
    BY DEF ReceiveMessage
  <1>2. /\ prog = "display" /\ todo = <<>>
        /\ UNCHANGED <<exported, direction, level, prog, status, failed>>
    BY DEF ReceiveMessage, pinVars
  <1>3. text' \in Texts
    <2>1. m.alert \in Texts /\ m.rest \in Texts /\ Leftovers \subseteq Texts
      BY BoardAssumption
    <2>2. \A a, b \in Texts : a \o b \in Texts
      BY ConcatProperties DEF Texts
    <2>3. QED
      BY <1>1, <2>1, <2>2
  <1>4. lcd_print(text') \in Seq(Others)
    BY <1>3, LcdCallsAreOthers
  <1>5. ASSUME ~ failed
        PROVE  Sound(todo', exported, direction, prog) /\ Lit(todo', level, prog)
    <2>1. /\ Sound(<<>>, exported, direction, "display")
          /\ Lit(<<>>, level, "display")
      BY <1>2, <1>5 DEF PinsInv
    <2>2. PICK t : /\ todo' = lcd_print(text') \o t
                   /\ Sound(t, exported, direction, "display") /\ Lit(t, level, "display")
      <3>1. CASE m.led = 0
        BY <1>1, <2>1, <3>1
      <3>2. CASE m.led # 0
        <4>1. m.led \in 1..4
          BY <3>2, BoardAssumption
        <4>2. QED
          BY <1>1, <2>1, <3>2, <4>1, SoundGpioWrite
      <3>3. QED
        BY <3>1, <3>2
    <2>3. \A p \in LedPins : level[p] # 1
      BY <2>1 DEF Lit, Comes
    <2>4. t \in Seq(Proper)
      BY <2>2 DEF Sound
    <2>5. QED
      BY <1>2, <1>4, <2>2, <2>3, <2>4, OthersFirst, LitOthersFirst
  <1>6. QED
    BY <1>2, <1>5 DEF PinsInv

LEMMA MeasureStep == PinsInv /\ MeasureAgain => PinsInv'
  <1> SUFFICES ASSUME PinsInv, MeasureAgain PROVE PinsInv'
    OBVIOUS
  <1>1. /\ prog \in {"distance", "sensors"} /\ todo = <<>> /\ todo' = Measure(prog)
        /\ status' = 0 /\ UNCHANGED <<exported, direction, level, prog, failed>>
    BY DEF MeasureAgain, pinVars, TRIG
  <1>2. ~ failed => Sound(<<>>, exported, direction, prog)
    BY <1>1 DEF PinsInv
  <1>3. ~ failed => Sound(Measure(prog), exported, direction, prog)
    BY <1>1, <1>2, SoundMeasure
  <1>4. Lit(Measure(prog), level, prog)
    BY <1>1 DEF Lit
  <1>5. QED
    BY <1>1, <1>3, <1>4 DEF PinsInv

LEMMA EndSteps == PinsInv /\ (Exit \/ Kill) => PinsInv'
  <1> SUFFICES ASSUME PinsInv, Exit \/ Kill PROVE PinsInv'
    OBVIOUS
  <1>1. /\ prog' = "none" /\ todo' = <<>> /\ (status' = status \/ status' = -1)
        /\ UNCHANGED <<exported, direction, level, failed>>
    BY DEF Exit, Kill, pinVars
  <1>2. Own("none") = {}
    BY DEF Own
  <1>3. Sound(<<>>, exported, direction, "none") /\ Lit(<<>>, level, "none")
    BY <1>2, NothingToDo
  <1>4. QED
    BY <1>1, <1>3 DEF PinsInv

LEMMA StartStep == \A p \in Programs : PinsInv /\ Start(p) => PinsInv'
  <1> SUFFICES ASSUME NEW p \in Programs, PinsInv, Start(p) PROVE PinsInv'
    OBVIOUS
  <1>1. /\ prog' = p /\ todo' = Main(p) /\ status' = 0
        /\ UNCHANGED <<exported, direction, level>>
    BY DEF Start, pinVars
  <1>2. Sound(Main(p), exported, direction, p)
    BY SoundMain
  <1>3. Lit(Main(p), level, p)
    <2>1. CASE p = "display"
      BY <2>1, LitMain
    <2>2. CASE p # "display"
      BY <2>2 DEF Lit
    <2>3. QED
      BY <2>1, <2>2
  <1>4. QED
    BY <1>1, <1>2, <1>3 DEF PinsInv

LEMMA PinsNext == PinsInv /\ [Next]_vars => PinsInv'
  <1> SUFFICES ASSUME PinsInv, [Next]_vars PROVE PinsInv'
    OBVIOUS
  <1>1. CASE GPIOExport \/ GPIOUnexport \/ GPIODirection \/ GPIOWrite
    BY <1>1, ExportStep, UnexportStep, DirectionStep, WriteStep
  <1>2. CASE ExportFails \/ UnexportFails \/ DirectionFails \/ WriteFails
    BY <1>2, FailSteps
  <1>3. CASE GPIORead \/ pinMode \/ SelectRegister \/ SendNibble \/ PulseMissed \/ Wait
    BY <1>3, PlainSteps
  <1>4. CASE LcdReady \/ UNCHANGED vars
    BY <1>4 DEF LcdReady, vars, pinVars, PinsInv
  <1>5. CASE PrintGreeting \/ ReceiveMessage \/ MeasureAgain
    BY <1>5, PrintStep, ReceiveStep, MeasureStep
  <1>6. CASE Exit \/ Kill \/ \E p \in Programs : Start(p)
    BY <1>6, EndSteps, StartStep
  <1>7. QED
    BY <1>1, <1>2, <1>3, <1>4, <1>5, <1>6 DEF Next

\* PinsInv always holds.
THEOREM PinsSound == Spec => []PinsInv
  BY PinsInit, PinsNext, PTL DEF Spec

\* Every program gets past its set-up, on pins that are as any sequence of programs, each
\* killed anywhere, has left them: GPIOExport(), GPIODirection() and GPIOWrite() return
\* an error only when a call fails by itself.
THEOREM SetupAlwaysRepeats == Spec => []SetupRepeats
  <1>1. PinsInv => SetupRepeats
    BY DEF PinsInv, SetupRepeats
  <1>2. QED
    BY <1>1, PinsSound, PTL

\* Once the display's GPIOinit() is through, an LED is lit only while gpio_write() is
\* about to put it out, whatever was lit when the display started.
THEOREM LedsAlwaysFollow == Spec => []LedsFollow
  <1>1. PinsInv => LedsFollow
    <2> SUFFICES ASSUME PinsInv, prog = "display", ~ failed,
                        \A i \in 1..Len(todo) : todo[i].call # "direction",
                        NEW p \in LedPins, level[p] = 1
                 PROVE  todo = <<Write(p, 0)>>
      BY DEF LedsFollow
    <2>1. Lit(todo, level, "display") /\ Len(todo) \in Nat
      BY LenProperties DEF PinsInv, Sound
    <2>2. ~ Comes(todo, Len(todo) + 1, Direction(p, Output))
      BY <2>1, CallKinds DEF Comes
    <2>3. QED
      BY <2>1, <2>2 DEF Lit
  <1>2. QED
    BY <1>1, PinsSound, PTL

-----------------------------------------------------------------------------
(***************************************************************************)
(* Types.  A program makes calls that are Proper only, whatever fails, so  *)
(* the pins and the LCD keep theirs.                                       *)
(***************************************************************************)
TypeInv == TypeOK /\ todo \in Seq(Proper)

LEMMA CommandTyped ==
  ASSUME NEW l \in LcdStates, NEW b \in Bytes
  PROVE  Command(l, b) \in LcdStates
  <1>1. Width \in Nat /\ b[1] \in Nibbles /\ b[2] \in Nibbles
    BY LcdAssumption DEF Bytes
  <1>2. Blanks \in [Columns -> Bytes]
    BY DEF Blanks, Blank, Bytes, Nibbles
  <1>3. ASSUME NEW a \in 0..Width PROVE [l EXCEPT !.at = a] \in LcdStates
    BY DEF LcdStates
  <1>4. /\ 0 \in 0..Width /\ Width \in 0..Width
        /\ (IF b[2] < Width THEN b[2] ELSE Width) \in 0..Width
    BY <1>1 DEF Nibbles
  <1>5. /\ \A v \in BOOLEAN : [l EXCEPT !.wide = v] \in LcdStates
        /\ [l EXCEPT !.on = (b[2] > 11)] \in LcdStates
    <2>1. ASSUME NEW v \in BOOLEAN
          PROVE  [l EXCEPT !.wide = v] \in LcdStates /\ [l EXCEPT !.on = v] \in LcdStates
      BY DEF LcdStates
    <2>2. (b[2] > 11) \in BOOLEAN
      OBVIOUS
    <2>3. QED
      BY <2>1, <2>2
  <1>6. /\ [l EXCEPT !.at = 0, !.slow = TRUE] \in LcdStates
        /\ [l EXCEPT !.at = 0, !.slow = TRUE, !.line = Blanks] \in LcdStates
    BY <1>2, <1>4 DEF LcdStates
  <1>7. /\ [l EXCEPT !.at = IF b[2] < Width THEN b[2] ELSE Width] \in LcdStates
        /\ [l EXCEPT !.at = Width] \in LcdStates
    BY <1>3, <1>4
  <1>8. QED
    BY <1>1, <1>5, <1>6, <1>7 DEF Command

\* The falling edge of E leaves the controller in one of its states.
LEMMA LatchTyped ==
  ASSUME NEW l \in LcdStates, NEW r \in {0, 1}, NEW n \in Nibbles, NEW u \in Nibbles
  PROVE  Latch(l, r, n, u) \in LcdStates
  <1>1. ASSUME NEW k \in LcdStates, NEW b \in Bytes
        PROVE  Execute(k, r, b) \in LcdStates
    <2>1. Character(k, b) \in LcdStates
      <3>1. CASE k.at < Width
        <4>1. k.at \in Columns /\ k.at + 1 \in 0..Width
          BY <3>1, LcdAssumption DEF LcdStates, Columns
        <4>2. [k.line EXCEPT ![k.at] = b] \in [Columns -> Bytes]
          BY <4>1 DEF LcdStates
        <4>3. [k EXCEPT !.line = [k.line EXCEPT ![k.at] = b], !.at = k.at + 1] \in LcdStates
          BY <4>1, <4>2 DEF LcdStates
        <4>4. QED
          BY <3>1, <4>3 DEF Character
      <3>2. QED
        BY <3>1 DEF Character
    <2>2. QED
      BY <2>1, CommandTyped DEF Execute
  <1>2. /\ [l EXCEPT !.half = n] \in LcdStates
        /\ [l EXCEPT !.half = None] \in LcdStates
    BY DEF LcdStates
  <1>3. <<n, u>> \in Bytes
    BY DEF Bytes
  <1>4. l.half # None => <<l.half, n>> \in Bytes
    BY DEF Bytes, LcdStates
  <1>5. QED
    BY <1>1, <1>2, <1>3, <1>4 DEF Latch

LEMMA TypeInit == Init => TypeInv
  <1> SUFFICES ASSUME Init PROVE TypeInv
    OBVIOUS
  <1>1. lcd \in LcdStates
    BY LcdAssumption DEF Init, PowerUp, LcdStates, Blanks, Blank, Bytes, Nibbles
  <1>2. /\ direction \in [Pins -> {Input, Output}] /\ level \in [Pins -> {0, 1}]
        /\ exported \subseteq Pins
    BY DEF Init
  <1>3. todo \in Seq(Calls) /\ todo \in Seq(Proper) /\ text \in Texts
    BY EmptySeq DEF Init, Texts
  <1>4. status \in -1..4 /\ starts \in 0..MaxStarts /\ faults \in 0..MaxFaults /\ rs \in {0, 1}
    BY BoardAssumption DEF Init
  <1>5. failed \in BOOLEAN /\ missed \in BOOLEAN /\ cut \in BOOLEAN
        /\ prog \in Programs \cup {"none"}
    BY DEF Init
  <1>6. QED
    BY <1>1, <1>2, <1>3, <1>4, <1>5 DEF TypeInv, TypeOK

LEMMA ProperSeqs == \A s \in Seq(Proper) : s \in Seq(Calls)
  BY SeqMonotonic DEF Proper

\* The first call of a line, and what is behind it.
LEMMA ProperCall ==
  ASSUME TypeInv, todo # <<>>
  PROVE  /\ Head(todo) \in Proper /\ Tail(todo) \in Seq(Proper)
         /\ Head(todo).call \in {"export", "unexport", "direction", "write", "read"} =>
              Pin \in Pins
         /\ Head(todo).call \in {"direction", "write", "rs"} => Value \in {0, 1}
         /\ Head(todo).call = "print" => Value \in 1..4
         /\ Value \in Nibbles
  <1>1. Head(todo) \in Proper /\ Tail(todo) \in Seq(Proper)
    BY HeadTailProperties DEF TypeInv
  <1>2. QED
    BY <1>1 DEF Proper, Calls, Pin, Value

\* A call that is made, or fails alone, and keeps what it is about.
LEMMA CallTyped ==
  ASSUME TypeInv, todo # <<>>, todo' = Tail(todo),
         UNCHANGED <<prog, runVars, status>>,
         failed' \in BOOLEAN, missed' \in BOOLEAN, faults' \in 0..MaxFaults,
         exported' \subseteq Pins, direction' \in [Pins -> {Input, Output}],
         level' \in [Pins -> {0, 1}], rs' \in {0, 1}, lcd' \in LcdStates
  PROVE  TypeInv'
  <1>1. todo' \in Seq(Proper) /\ todo' \in Seq(Calls)
    BY ProperCall, ProperSeqs
  <1>2. QED
    BY <1>1 DEF TypeInv, TypeOK, runVars

LEMMA PinCallsTyped ==
  TypeInv /\ (GPIOExport \/ GPIOUnexport \/ GPIODirection \/ GPIOWrite \/ GPIORead) => TypeInv'
  <1> SUFFICES ASSUME TypeInv, GPIOExport \/ GPIOUnexport \/ GPIODirection \/ GPIOWrite \/ GPIORead
               PROVE  TypeInv'
    OBVIOUS
  <1>1. /\ todo # <<>> /\ todo' = Tail(todo)
        /\ UNCHANGED <<prog, runVars, status, failed, missed, faults, rs, lcd>>
    BY DEF GPIOExport, GPIOUnexport, GPIODirection, GPIOWrite, GPIORead, Calling, Done, lcdVars
  <1>2. Head(todo).call \in {"export", "unexport", "direction", "write", "read"}
    BY DEF GPIOExport, GPIOUnexport, GPIODirection, GPIOWrite, GPIORead, Calling
  <1>3. Pin \in Pins /\ (Head(todo).call \in {"direction", "write"} => Value \in {0, 1})
    BY <1>1, <1>2, ProperCall
  <1>4. exported' \subseteq Pins
    BY <1>3 DEF GPIOExport, GPIOUnexport, GPIODirection, GPIOWrite, GPIORead, pinVars,
                TypeInv, TypeOK
  <1>5. direction' \in [Pins -> {Input, Output}]
    BY <1>3 DEF GPIOExport, GPIOUnexport, GPIODirection, GPIOWrite, GPIORead, Calling, pinVars,
                TypeInv, TypeOK, Input, Output
  <1>6. level' \in [Pins -> {0, 1}]
    BY <1>3 DEF GPIOExport, GPIOUnexport, GPIODirection, GPIOWrite, GPIORead, Calling, pinVars,
                TypeInv, TypeOK
  <1>7. QED
    BY <1>1, <1>4, <1>5, <1>6, CallTyped DEF TypeInv, TypeOK

LEMMA LcdCallsTyped ==
  TypeInv /\ (pinMode \/ SelectRegister \/ SendNibble \/ PulseMissed \/ Wait) => TypeInv'
  <1> SUFFICES ASSUME TypeInv, pinMode \/ SelectRegister \/ SendNibble \/ PulseMissed \/ Wait
               PROVE  TypeInv'
    OBVIOUS
  <1>1. /\ todo # <<>> /\ todo' = Tail(todo)
        /\ UNCHANGED <<prog, runVars, status, failed, exported, level>>
    BY DEF pinMode, SelectRegister, SendNibble, PulseMissed, Wait, Calling, Done, pinVars
  <1>2. direction' \in [Pins -> {Input, Output}]
    BY DEF pinMode, SelectRegister, SendNibble, PulseMissed, Wait, pinVars, TypeInv, TypeOK
  <1>3. rs' \in {0, 1}
    BY <1>1, ProperCall DEF pinMode, SelectRegister, SendNibble, PulseMissed, Wait, Calling,
                            lcdVars, TypeInv, TypeOK
  <1>4. lcd' \in LcdStates
    <2>1. CASE SendNibble
      <3>1. PICK n \in OnWires(Value), u \in {0, 15} : lcd' = Latch(lcd, rs, n, u)
        BY <2>1 DEF SendNibble
      <3>2. n \in Nibbles /\ u \in Nibbles
        <4>1. Value \in 0..15
          BY <1>1, ProperCall DEF Nibbles
        <4>2. \A v \in 0..15 : (v \div 2) * 2 \in 0..15 /\ (v \div 2) * 2 + 1 \in 0..15
          OBVIOUS
        <4>3. QED
          BY <4>1, <4>2 DEF OnWires, Nibbles
      <3>3. QED
        BY <3>1, <3>2, LatchTyped DEF TypeInv, TypeOK
    <2>2. CASE ~ SendNibble
      BY <2>2 DEF pinMode, SelectRegister, PulseMissed, Wait, lcdVars, TypeInv, TypeOK, LcdStates
    <2>3. QED
      BY <2>1, <2>2
  <1>5. failed' \in BOOLEAN /\ missed' \in BOOLEAN /\ faults' \in 0..MaxFaults
    <2>1. /\ failed' = failed /\ (missed' = missed \/ missed' = TRUE)
          /\ faults' = faults \/ Fault("pulse")
      BY DEF pinMode, SelectRegister, SendNibble, PulseMissed, Wait, Done
    <2>2. Fault("pulse") => faults' \in 0..MaxFaults
      BY BoardAssumption DEF Fault, TypeInv, TypeOK
    <2>3. QED
      BY <2>1, <2>2 DEF TypeInv, TypeOK
  <1>6. QED
    BY <1>1, <1>2, <1>3, <1>4, <1>5, CallTyped DEF TypeInv, TypeOK

\* A caller that returns.
LEMMA ReturnsTyped ==
  ASSUME TypeInv, NEW code \in 1..4, Returns(code),
         failed' \in BOOLEAN, faults' \in 0..MaxFaults
  PROVE  TypeInv'
  <1>1. todo' \in Seq(Proper) /\ prog' \in Programs \cup {"none"}
    <2>1. CASE prog \in Ignoring
      <3>1. PICK n \in 1..Len(todo) : todo' = SubSeq(todo, n + 1, Len(todo)) /\ prog' = prog
        BY <2>1 DEF Returns
      <3>2. /\ todo \in Seq(Proper) /\ Len(todo) \in Nat /\ n + 1 \in Nat
            /\ \A i \in (n + 1)..Len(todo) : todo[i] \in Proper
        BY LenProperties, ElementOfSeq DEF TypeInv
      <3>3. QED
        BY <3>1, <3>2, SubSeqProperties DEF TypeInv, TypeOK
    <2>2. CASE prog \notin Ignoring
      BY <2>2, EmptySeq DEF Returns
    <2>3. QED
      BY <2>1, <2>2
  <1>2. status' \in -1..4
    BY DEF Returns
  <1>3. QED
    BY <1>1, <1>2, ProperSeqs
       DEF Returns, pinVars, lcdVars, runVars, TypeInv, TypeOK

LEMMA FailuresTyped ==
  TypeInv /\ (ExportFails \/ UnexportFails \/ DirectionFails \/ WriteFails) => TypeInv'
  <1> SUFFICES ASSUME TypeInv, ExportFails \/ UnexportFails \/ DirectionFails \/ WriteFails
               PROVE  TypeInv'
    OBVIOUS
  <1>1. failed' \in BOOLEAN /\ faults' \in 0..MaxFaults
    <2>1. \/ failed' = failed /\ faults' = faults
          \/ failed' = TRUE /\ Fault("gpio")
      BY DEF ExportFails, UnexportFails, DirectionFails, WriteFails, ByItself
    <2>2. Fault("gpio") => faults' \in 0..MaxFaults
      BY BoardAssumption DEF Fault, TypeInv, TypeOK
    <2>3. QED
      BY <2>1, <2>2 DEF TypeInv, TypeOK
  <1>2. CASE \E code \in 1..4 : Returns(code)
    BY <1>1, <1>2, ReturnsTyped
  <1>3. CASE /\ todo # <<>> /\ todo' = Tail(todo)
             /\ UNCHANGED <<pinVars, lcdVars, prog, runVars, status, missed>>
    BY <1>1, <1>3, CallTyped DEF TypeInv, TypeOK, pinVars, lcdVars
  <1>4. QED
    BY <1>2, <1>3 DEF ExportFails, UnexportFails, DirectionFails, WriteFails, Calling

LEMMA PrintTyped == TypeInv /\ PrintGreeting => TypeInv'
  <1> SUFFICES ASSUME TypeInv, PrintGreeting PROVE TypeInv'
    OBVIOUS
  <1> DEFINE x == IF Value = 4 THEN SetChrMode \o lcd_text(text') ELSE lcd_print(text')
  <1>1. /\ todo # <<>> /\ Head(todo).call = "print" /\ todo' = x \o Tail(todo)
        /\ text' = Greetings[Value]
        /\ UNCHANGED <<pinVars, lcdVars, prog, starts, cut, status, failed, missed, faults>>
    BY DEF PrintGreeting, Calling
  <1>2. text' \in Texts
    BY <1>1, ProperCall, BoardAssumption
  <1>3. x \in Seq(Proper)
    <2>1. x \in Seq(Others)
      BY <1>2, LcdCallsAreOthers
    <2>2. QED
      BY <2>1, OthersAreCalls, SeqMonotonic
  <1> HIDE DEF x
  <1>4. todo' \in Seq(Proper)
    BY <1>1, <1>3, ProperCall, ConcatProperties
  <1>5. QED
    BY <1>1, <1>2, <1>4, ProperSeqs DEF TypeInv, TypeOK, pinVars, lcdVars

\* What the display prints is a text.
LEMMA MessageTyped == ReceiveMessage => text' \in Texts
  <1>1. \A a, b \in Texts : a \o b \in Texts
    BY ConcatProperties DEF Texts
  <1>2. \A m \in Messages : m.alert \in Texts /\ m.rest \in Texts
    BY BoardAssumption
  <1>3. QED
    BY <1>1, <1>2, BoardAssumption DEF ReceiveMessage

LEMMA ReceiveTyped == TypeInv /\ ReceiveMessage => TypeInv'
  <1> SUFFICES ASSUME TypeInv, ReceiveMessage PROVE TypeInv'
    OBVIOUS
  <1>1. PICK m \in Messages :
          todo' = lcd_print(text') \o
                  IF m.led = 0 THEN <<>> ELSE <<Write(POUT[m.led], 1), Write(POUT[m.led], 0)>>
    BY DEF ReceiveMessage
  <1>2. lcd_print(text') \in Seq(Proper)
    BY MessageTyped, LcdCallsAreOthers, OthersAreCalls, SeqMonotonic
  <1> DEFINE t == IF m.led = 0 THEN <<>> ELSE <<Write(POUT[m.led], 1), Write(POUT[m.led], 0)>>
  <1>3. t \in Seq(Proper)
    <2>1. m.led # 0 => POUT[m.led] \in Pins
      BY BoardAssumption DEF Pins, LedPins
    <2>2. \A p \in Pins : Write(p, 1) \in Proper /\ Write(p, 0) \in Proper
      BY DEF Write, Do, Proper, Calls, Nibbles
    <2>3. CASE m.led = 0
      BY <2>3, EmptySeq
    <2>4. CASE m.led # 0
      <3>1. Write(POUT[m.led], 1) \in Proper /\ Write(POUT[m.led], 0) \in Proper
        BY <2>1, <2>2, <2>4
      <3>2. QED
        BY <2>4, <3>1
    <2>5. QED
      BY <2>3, <2>4
  <1> HIDE DEF t
  <1>4. todo' \in Seq(Proper)
    <2>1. todo' = lcd_print(text') \o t
      BY <1>1 DEF t
    <2>2. QED
      BY <2>1, <1>2, <1>3, ConcatProperties
  <1>5. QED
    BY <1>4, MessageTyped, ProperSeqs DEF ReceiveMessage, TypeInv, TypeOK, pinVars, lcdVars

LEMMA MeasureTyped == TypeInv /\ MeasureAgain => TypeInv'
  <1> SUFFICES ASSUME TypeInv, MeasureAgain PROVE TypeInv'
    OBVIOUS
  <1>1. prog \in {"distance", "sensors"}
    BY DEF MeasureAgain, TRIG
  <1>2. TRIG[prog] \in {3, 21} /\ ECHO[prog] \in {2, 20}
    BY <1>1 DEF TRIG, ECHO
  <1>3. /\ Write(TRIG[prog], 1) \in Proper /\ Write(TRIG[prog], 0) \in Proper
        /\ Read(ECHO[prog]) \in Proper
    BY <1>2 DEF Write, Read, Do, Proper, Calls, Pins, Nibbles
  <1>4. Measure(prog) \in Seq(Proper)
    BY <1>3 DEF Measure
  <1>5. QED
    BY <1>4, ProperSeqs DEF MeasureAgain, TypeInv, TypeOK, pinVars, lcdVars, runVars

LEMMA StartTyped == \A p \in Programs : TypeInv /\ Start(p) => TypeInv'
  <1> SUFFICES ASSUME NEW p \in Programs, TypeInv, Start(p) PROVE TypeInv'
    OBVIOUS
  <1>1. Main(p) \in Seq(Proper)
    BY SoundMain DEF Sound
  <1>2. lcd' \in LcdStates
    BY DEF Start, TypeInv, TypeOK, LcdStates
  <1>3. starts' \in 0..MaxStarts
    BY BoardAssumption DEF Start, TypeInv, TypeOK
  <1>4. <<>> \in Texts
    BY EmptySeq DEF Texts
  <1>5. cut' \in BOOLEAN
    <2>1. (lcd.half = 0) \in BOOLEAN
      OBVIOUS
    <2>2. QED
      BY <2>1 DEF Start
  <1>6. status' \in -1..4
    BY DEF Start
  <1>7. QED
    BY <1>1, <1>2, <1>3, <1>4, <1>5, <1>6, ProperSeqs DEF Start, TypeInv, TypeOK, pinVars

LEMMA TypeNext == TypeInv /\ [Next]_vars => TypeInv'
  <1> SUFFICES ASSUME TypeInv, [Next]_vars PROVE TypeInv'
    OBVIOUS
  <1>1. CASE GPIOExport \/ GPIOUnexport \/ GPIODirection \/ GPIOWrite \/ GPIORead
    BY <1>1, PinCallsTyped
  <1>2. CASE ExportFails \/ UnexportFails \/ DirectionFails \/ WriteFails
    BY <1>2, FailuresTyped
  <1>3. CASE pinMode \/ SelectRegister \/ SendNibble \/ PulseMissed \/ Wait
    BY <1>3, LcdCallsTyped
  <1>4. CASE PrintGreeting \/ ReceiveMessage \/ MeasureAgain
    BY <1>4, PrintTyped, ReceiveTyped, MeasureTyped
  <1>5. CASE \E p \in Programs : Start(p)
    BY <1>5, StartTyped
  <1>6. CASE LcdReady
    <2>1. lcd' \in LcdStates
      BY <1>6 DEF LcdReady, TypeInv, TypeOK, LcdStates
    <2>2. QED
      BY <1>6, <2>1 DEF LcdReady, TypeInv, TypeOK, pinVars, runVars
  <1>7. CASE Exit \/ Kill
    <2>1. <<>> \in Seq(Proper) /\ <<>> \in Seq(Calls)
      BY EmptySeq
    <2>2. status' \in -1..4
      BY <1>7 DEF Exit, Kill, TypeInv, TypeOK
    <2>3. QED
      BY <1>7, <2>1, <2>2 DEF Exit, Kill, TypeInv, TypeOK, pinVars, lcdVars, runVars
  <1>8. CASE UNCHANGED vars
    BY <1>8 DEF vars, TypeInv, TypeOK, pinVars, lcdVars, runVars
  <1>9. QED
    BY <1>1, <1>2, <1>3, <1>4, <1>5, <1>6, <1>7, <1>8 DEF Next

\* The variables keep their types: whatever programs ran, failed or were killed, the
\* calls of the one that runs are calls it can make, the controller of the LCD is in one
\* of its states, and what a program returned is one of its codes.
THEOREM BoardTypeCorrect == Spec => []TypeOK
  <1>1. TypeInv => TypeOK
    BY DEF TypeInv
  <1>2. QED
    BY <1>1, TypeInit, TypeNext, PTL DEF Spec
=============================================================================
