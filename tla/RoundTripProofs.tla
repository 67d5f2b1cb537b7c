-------------------------- MODULE RoundTripProofs --------------------------
(***************************************************************************)
(* Proofs about RoundTrip and Clock: what the clock of the Windows branch  *)
(* and the average of the round trips do within the range of their         *)
(* integers, and the invariant of an established connection.  It follows   *)
(* every KeepAlive: what the asking end has read, that its answer has been *)
(* to the other end and waited there, and when it came back.  Behind it,   *)
(* for connections whose numbering has not wrapped, the invariant of       *)
(* sequences and acknowledgements: which sequences were given, where they  *)
(* can be, and since when.                                                 *)
(***************************************************************************)
EXTENDS RoundTrip, RemotePeerProofs

\* The quotient of a division.
LEMMA Quotient ==
    ASSUME NEW a \in Nat, NEW d \in Nat, d > 0
    PROVE  /\ a \div d \in Nat
           /\ d * (a \div d) <= a
           /\ a < d * (a \div d) + d
<1>1. a = (a \div d) * d + (a % d)
  OBVIOUS
<1>2. a % d \in 0 .. d - 1
  OBVIOUS
<1>3. a \div d \in Nat
  OBVIOUS
<1>4. d * (a \div d) = (a \div d) * d /\ (a \div d) * d \in Nat
  BY <1>3
<1> QED
  BY <1>1, <1>2, <1>3, <1>4

\* Division does not change an order.
LEMMA DivisionMonotone ==
    ASSUME NEW a \in Nat, NEW b \in Nat, NEW d \in Nat, d > 0, a <= b
    PROVE  a \div d <= b \div d
<1> DEFINE p == a \div d
           q == b \div d
<1>1. p \in Nat /\ d * p <= a /\ q \in Nat /\ b < d * q + d
  BY Quotient
<1> HIDE DEF p, q
<1>2. ASSUME q < p PROVE FALSE
  <2>1. q + 1 <= p
    BY <1>1, <1>2
  <2>2. d * (q + 1) <= d * p
    BY <1>1, <2>1
  <2>3. d * (q + 1) = d * q + d
    BY <1>1
  <2>4. d * p \in Nat /\ d * q \in Nat
    BY <1>1
  <2> QED
    BY <1>1, <2>2, <2>3, <2>4
<1>3. p <= q
  BY <1>1, <1>2
<1> QED
  BY <1>3 DEF p, q

\* The average of a round trip and a new one is between the two, rounded down
\* but not below them (RemotePeer::UpdateRTT), as long as a hundred times the
\* longer one fits uint32_t.
THEOREM SmoothedAmong ==
    ASSUME NEW low \in Nat, NEW high \in Nat, 100 * high < HalfWord,
           NEW rtt \in low .. high, NEW milliseconds \in low .. high
    PROVE  Smoothed(rtt, milliseconds) \in low .. high
<1> DEFINE sum == rtt * 90 + milliseconds * 10
<1>1. HalfWord \in Nat /\ HalfWord > 0
  BY ClockAssumption
<1>2. sum \in Nat /\ 100 * low <= sum /\ sum <= 100 * high
  OBVIOUS
<1>3. sum % HalfWord = sum
  BY <1>1, <1>2
<1>4. sum \div 100 \in low .. high
  BY <1>2
<1> QED
  BY <1>3, <1>4 DEF Smoothed

\* The other side of the rounding: an average less than ten below the measured
\* round trip never moves up to it.
THEOREM SmoothedSticks ==
    ASSUME NEW rtt \in Nat, NEW milliseconds \in Nat, rtt > 0,
           rtt <= milliseconds, milliseconds < rtt + 10, 100 * milliseconds < HalfWord
    PROVE  Smoothed(rtt, milliseconds) = rtt
<1> DEFINE sum == rtt * 90 + milliseconds * 10
<1>1. HalfWord \in Nat /\ HalfWord > 0
  BY ClockAssumption
<1>2. sum \in Nat /\ 100 * rtt <= sum /\ sum < 100 * rtt + 100
  OBVIOUS
<1>3. sum % HalfWord = sum
  BY <1>1, <1>2
<1>4. sum \div 100 = rtt
  BY <1>2
<1> QED
  BY <1>3, <1>4 DEF Smoothed

\* The clock of the Windows branch counts the time since its first reading, as
\* long as the product it divides fits a LONGLONG.
LEMMA CountFits ==
    ASSUME NEW first \in Int, NEW time \in Int, first <= time,
           2 * ((time - first) * Multiplier) < Word
    PROVE  LET p == ((time - first) * Multiplier) \div NanosPerSecond
           IN  ElapsedWindows(time, first) = p /\ p \in Nat /\ p < Word
<1> DEFINE a == (time - first) * Multiplier
           p == a \div NanosPerSecond
<1>1. /\ NanosPerSecond \in Nat /\ NanosPerSecond > 0
      /\ Multiplier \in Nat
      /\ Word \in Nat /\ Word > 0
  BY ClockAssumption
<1>2. a \in Nat
  <2>1. time - first \in Nat
    OBVIOUS
  <2> QED
    BY <1>1, <2>1
<1>3. 2 * a < Word
  OBVIOUS
<1> HIDE DEF a
<1>4. a < Word /\ a % Word = a
  BY <1>1, <1>2, <1>3
<1>5. p \in Nat /\ NanosPerSecond * p <= a
  BY <1>1, <1>2, Quotient
<1>6. ElapsedWindows(time, first) = p
  BY <1>3, <1>4 DEF ElapsedWindows, a
<1> HIDE DEF p
<1>7. p <= NanosPerSecond * p /\ NanosPerSecond * p \in Nat
  BY <1>1, <1>5
<1>8. p < Word
  BY <1>1, <1>2, <1>4, <1>5, <1>7
<1> QED
  BY <1>5, <1>6, <1>8 DEF p, a

\* It does not go backwards, so that the unsigned difference of two readings is
\* their distance.
THEOREM WindowsClockMonotone ==
    ASSUME NEW first \in Int, NEW earlier \in Int, NEW later \in Int,
           first <= earlier, earlier <= later,
           2 * ((later - first) * Multiplier) < Word
    PROVE  /\ ElapsedWindows(earlier, first) <= ElapsedWindows(later, first)
           /\ Since(ElapsedWindows(later, first), ElapsedWindows(earlier, first))
                = ElapsedWindows(later, first) - ElapsedWindows(earlier, first)
<1> DEFINE a == (earlier - first) * Multiplier
           b == (later - first) * Multiplier
           p == a \div NanosPerSecond
           q == b \div NanosPerSecond
<1>1. /\ NanosPerSecond \in Nat /\ NanosPerSecond > 0
      /\ Multiplier \in Nat
      /\ Word \in Nat /\ Word > 0
  BY ClockAssumption
<1>2. a \in Nat /\ b \in Nat /\ a <= b
  <2>1. earlier - first <= later - first /\ earlier - first \in Nat /\ later - first \in Nat
    OBVIOUS
  <2> QED
    BY <1>1, <2>1
<1>3. 2 * a < Word
  <2>1. 2 * b < Word
    OBVIOUS
  <2> HIDE DEF a, b
  <2> QED
    BY <1>1, <1>2, <2>1
<1>4. /\ p = ElapsedWindows(earlier, first) /\ p \in Nat
      /\ q = ElapsedWindows(later, first) /\ q \in Nat /\ q < Word
  BY <1>3, CountFits
<1> HIDE DEF a, b
<1>5. p <= q
  BY <1>1, <1>2, DivisionMonotone
<1> HIDE DEF p, q
<1>6. (q - p) % Word = q - p
  BY <1>1, <1>4, <1>5
<1> QED
  BY <1>4, <1>5, <1>6 DEF Since
-----------------------------------------------------------------------------
\* The end of time.
LastMoment == MaxFrames * FrameTime

\* What the clock of an end reads at a moment.
ReadingAt(s, e, time) == Elapsed(time, s.first[e])

\* A remainder is not larger than what it is the remainder of.
LEMMA Remainder ==
    ASSUME NEW a \in Nat, NEW d \in Nat, d > 0
    PROVE  a % d \in 0 .. a /\ a % d \in 0 .. d - 1 /\ (a < d => a % d = a)
<1> DEFINE q == a \div d
           r == a % d
<1>1. a = q * d + r /\ q \in Nat /\ r \in 0 .. d - 1
  <2>1. a = q * d + r
    OBVIOUS
  <2>2. r \in 0 .. d - 1
    OBVIOUS
  <2>3. q \in Nat
    OBVIOUS
  <2> QED
    BY <2>1, <2>2, <2>3
<1> HIDE DEF q, r
<1>2. q * d \in Nat
  BY <1>1
<1>3. r \in 0 .. a
  BY <1>1, <1>2
<1>4. a < d => a % d = a
  OBVIOUS
<1> QED
  BY <1>1, <1>3, <1>4 DEF r

\* Counted in units, two durations are not longer than the two together, nor
\* less than a unit shorter.
LEMMA UnitsAdd ==
    ASSUME NEW a \in Nat, NEW b \in Nat
    PROVE  /\ Units(a) \in Nat /\ Units(b) \in Nat /\ Units(a + b) \in Nat
           /\ Units(a) + Units(b) <= Units(a + b)
           /\ Units(a + b) <= Units(a) + Units(b) + 1
<1> DEFINE n == NanosPerSecond
           x == a * Multiplier
           y == b * Multiplier
           p == x \div n
           q == y \div n
           r == (x + y) \div n
<1>1. n \in Nat /\ n > 0 /\ Multiplier \in Nat
  BY ClockAssumption
<1>2. x \in Nat /\ y \in Nat /\ (a + b) * Multiplier = x + y
  BY <1>1
<1>3. Units(a) = p /\ Units(b) = q /\ Units(a + b) = r
  BY <1>2 DEF Units
<1> HIDE DEF n, x, y
<1>4. /\ p \in Nat /\ n * p <= x /\ x < n * p + n
      /\ q \in Nat /\ n * q <= y /\ y < n * q + n
      /\ r \in Nat /\ n * r <= x + y /\ x + y < n * r + n
  BY <1>1, <1>2, Quotient
<1> HIDE DEF p, q, r
<1>5. n * p \in Nat /\ n * q \in Nat /\ n * r \in Nat
  BY <1>1, <1>4
<1>6. p + q <= r
  <2>1. SUFFICES ASSUME r + 1 <= p + q PROVE FALSE
    BY <1>4
  <2>2. n * (r + 1) <= n * (p + q)
    BY <1>1, <1>4, <2>1
  <2>3. n * (r + 1) = n * r + n /\ n * (p + q) = n * p + n * q
    BY <1>1, <1>4
  <2> QED
    BY <1>1, <1>2, <1>4, <1>5, <2>2, <2>3
<1>7. r <= p + q + 1
  <2>1. SUFFICES ASSUME p + q + 2 <= r PROVE FALSE
    BY <1>4
  <2>2. n * (p + q + 2) <= n * r
    BY <1>1, <1>4, <2>1
  <2>3. n * (p + q + 2) = n * p + n * q + n + n
    BY <1>1, <1>4
  <2> QED
    BY <1>1, <1>2, <1>4, <1>5, <2>2, <2>3
<1> QED
  BY <1>3, <1>4, <1>6, <1>7

LEMMA UnitsMonotone ==
    ASSUME NEW a \in Nat, NEW b \in Nat, a <= b
    PROVE  Units(a) \in Nat /\ Units(b) \in Nat /\ Units(a) <= Units(b)
<1>1. b - a \in Nat /\ a + (b - a) = b
  OBVIOUS
<1>2. Units(a) \in Nat /\ Units(b - a) \in Nat /\ Units(a) + Units(b - a) <= Units(a + (b - a))
  BY <1>1, UnitsAdd
<1>3. Units(b) \in Nat
  BY UnitsAdd
<1> QED
  BY <1>1, <1>2, <1>3

\* Readings of one clock at two moments: the later one is not smaller, and
\* their difference is the time between them, to a unit.
LEMMA ReadingsInOrder ==
    ASSUME Platform = "windows", NEW s \in Scenarios, NEW e \in Ends,
           NEW earlier \in 0 .. LastMoment, NEW later \in earlier .. LastMoment
    PROVE  LET p == ReadingAt(s, e, earlier)
               q == ReadingAt(s, e, later)
           IN  /\ p \in Nat /\ q \in Nat /\ p <= q
               /\ Since(q, p) = q - p
               /\ Units(later - earlier) \in Nat
               /\ Units(later - earlier) <= q - p
               /\ q - p <= Units(later - earlier) + 1
<1> DEFINE first == s.first[e]
           p == ReadingAt(s, e, earlier)
           q == ReadingAt(s, e, later)
           a == earlier - first
           b == later - first
           c == later - earlier
<1>1. /\ first \in Int /\ first <= 0
      /\ MaxFrames \in Nat /\ FrameTime \in Nat
      /\ 2 * ((LastMoment - first) * Multiplier) < Word
  BY RoundTripAssumption, ClockLastsAssumption DEF Start, LastMoment
<1>2. /\ NanosPerSecond \in Nat /\ NanosPerSecond > 0
      /\ Multiplier \in Nat /\ Word \in Nat /\ Word > 0
  BY ClockAssumption
<1>3. LastMoment \in Nat
  BY <1>1 DEF LastMoment
<1>4. /\ earlier \in Int /\ later \in Int /\ earlier \in Nat
      /\ first <= earlier /\ earlier <= later /\ later <= LastMoment
  BY <1>1, <1>3
<1>5. p = ElapsedWindows(earlier, first) /\ q = ElapsedWindows(later, first)
  BY DEF ReadingAt, Elapsed
<1> HIDE DEF first
<1>6. /\ a \in Nat /\ b \in Nat /\ c \in Nat /\ a <= b /\ b = a + c
      /\ LastMoment - first \in Nat /\ b <= LastMoment - first
  BY <1>1, <1>3, <1>4
<1>7. 2 * (b * Multiplier) < Word
  <2>1. b * Multiplier <= (LastMoment - first) * Multiplier
    BY <1>2, <1>6
  <2>2. b * Multiplier \in Nat /\ (LastMoment - first) * Multiplier \in Nat
    BY <1>2, <1>6
  <2> QED
    BY <1>1, <1>2, <2>1, <2>2
<1>8. p <= q /\ Since(q, p) = q - p
  BY <1>1, <1>4, <1>5, <1>7, WindowsClockMonotone
<1>9. 2 * (a * Multiplier) < Word
  <2>1. a * Multiplier <= b * Multiplier
    BY <1>2, <1>6
  <2>2. a * Multiplier \in Nat /\ b * Multiplier \in Nat
    BY <1>2, <1>6
  <2> QED
    BY <1>2, <1>7, <2>1, <2>2
<1>10. p = Units(a) /\ q = Units(b) /\ p \in Nat /\ q \in Nat
  BY <1>1, <1>4, <1>5, <1>7, <1>9, CountFits DEF Units
<1> HIDE DEF a, b, c, p, q
<1>11. /\ Units(c) \in Nat /\ Units(a) + Units(c) <= Units(b)
       /\ Units(b) <= Units(a) + Units(c) + 1
  BY <1>6, UnitsAdd
<1>12. Units(c) <= q - p /\ q - p <= Units(c) + 1
  BY <1>10, <1>11
<1> QED
  BY <1>8, <1>10, <1>11, <1>12 DEF p, q, c

\* A way there, the time the other end holds the message, and the way back.
LEMMA ThereAndBack ==
    ASSUME Platform = "windows", NEW s \in Scenarios, NEW e \in Ends, NEW o \in Ends,
           NEW moment \in 0 .. LastMoment, NEW back \in 0 .. moment,
           NEW answered \in 0 .. LastMoment, NEW heard \in 0 .. answered, NEW asked \in 0 .. LastMoment,
           asked + MinDelay <= heard, answered + MinDelay <= back,
           s.latency[o] <= ReadingAt(s, o, answered) - ReadingAt(s, o, heard),
           s.latency[e] <= ReadingAt(s, e, moment) - ReadingAt(s, e, back)
    PROVE  Way + s.latency[e] + s.latency[o] - 1 <= ReadingAt(s, e, moment) - ReadingAt(s, e, asked)
<1>1. /\ MinDelay \in Nat /\ LastMoment \in Nat
      /\ s.latency[e] \in Nat /\ s.latency[o] \in Nat
  BY RoundTripAssumption DEF LastMoment
<1>2. /\ asked \in Nat /\ heard \in Nat /\ answered \in Nat /\ back \in Nat /\ moment \in Nat
      /\ heard - asked \in Nat /\ answered - heard \in Nat /\ back - answered \in Nat
      /\ back - asked \in Nat
      /\ (2 * MinDelay) + (answered - heard) <= back - asked
  BY <1>1
<1>3. /\ asked \in 0 .. LastMoment /\ back \in asked .. LastMoment
      /\ back \in 0 .. LastMoment /\ moment \in back .. LastMoment
      /\ heard \in 0 .. LastMoment /\ answered \in heard .. LastMoment
  BY <1>1, <1>2
<1>4. s.latency[o] - 1 <= Units(answered - heard) /\ Units(answered - heard) \in Nat
  <2> DEFINE p == ReadingAt(s, o, heard)
             q == ReadingAt(s, o, answered)
  <2>1. /\ p \in Nat /\ q \in Nat /\ q - p <= Units(answered - heard) + 1
        /\ Units(answered - heard) \in Nat
    BY <1>3, ReadingsInOrder
  <2> QED
    BY <1>1, <2>1
<1>5. /\ Way \in Nat /\ Way + Units(answered - heard) <= Units(back - asked)
      /\ Units(back - asked) \in Nat
  <2> DEFINE a == 2 * MinDelay
             b == answered - heard
             c == back - asked
  <2>1. a \in Nat /\ b \in Nat /\ c \in Nat /\ a + b \in Nat /\ a + b <= c
    BY <1>1, <1>2
  <2> HIDE DEF a, b, c
  <2>2. Units(a) \in Nat /\ Units(b) \in Nat /\ Units(a + b) \in Nat /\ Units(a) + Units(b) <= Units(a + b)
    BY <2>1, UnitsAdd
  <2>3. Units(a + b) <= Units(c) /\ Units(c) \in Nat
    BY <2>1, UnitsMonotone
  <2>4. Units(a) + Units(b) <= Units(c)
    BY <2>2, <2>3
  <2> QED
    BY <2>2, <2>3, <2>4 DEF Way, a, b, c
<1> DEFINE x == ReadingAt(s, e, asked)
           y == ReadingAt(s, e, back)
           z == ReadingAt(s, e, moment)
<1>6. x \in Nat /\ y \in Nat /\ Units(back - asked) <= y - x
  BY <1>3, ReadingsInOrder
<1>7. z \in Nat
  BY <1>3, ReadingsInOrder
<1>8. s.latency[e] <= z - y
  OBVIOUS
<1> HIDE DEF x, y, z
<1>9. Way + s.latency[e] + s.latency[o] - 1 <= z - x
  BY <1>1, <1>4, <1>5, <1>6, <1>7, <1>8
<1> QED
  BY <1>9 DEF x, z

-----------------------------------------------------------------------------
\* A KeepAlive of the end that measures carries a time its clock has read.
Asks(s, m, time) ==
    \E asked \in 0 .. time : m.m_timeStamp = ReadingAt(s, m.measures, asked)

\* Its answer carries the same time, which has come over the network, and the
\* other end has held it for its fake latency.
Answers(s, m, time) ==
    LET o == Other(m.measures)
    IN  \E answered \in 0 .. time : \E heard \in 0 .. answered : \E asked \in 0 .. heard :
            /\ m.m_timeStamp = ReadingAt(s, m.measures, asked)
            /\ asked + MinDelay <= heard
            /\ s.latency[o] <= ReadingAt(s, o, answered) - ReadingAt(s, o, heard)

AnyMessage ==
    [id : {"KeepAlive", "Game"}, flags : {{}, {"reliable"}}, size : {1},
     m_sequence : Sequences16, measures : Ends, m_timeStamp : Nat]

\* The messages that an end may have written at a moment.
From(s, e, time) ==
    {m \in AnyMessage :
        m.id = "KeepAlive" => IF m.measures = e THEN Asks(s, m, time) ELSE Answers(s, m, time)}

\* What the latency faker of an end may hold: it came over the network.
Held(s, e, time) ==
    {entry \in [message : AnyMessage, m_timeStamp : Nat] :
        \E heard \in MinDelay .. time :
            /\ entry.m_timeStamp = ReadingAt(s, e, heard)
            /\ entry.message \in From(s, Other(e), heard - MinDelay)}

\* The packets on their way to an end.
Wires(s, e, time) ==
    {sent \in [packet : Packets(AnyMessage), left : 0 .. time] :
        sent.packet \in Packets(From(s, Other(e), sent.left))}

\* The connection is so short that a round trip fits 32 bits.
ShortConnection == Units(LastMoment) + 1 < HalfWord

Sources == {"Ack", "KeepAlive"}

Samples(s, time) ==
    {sample \in [milliseconds : 0 .. HalfWord - 1, source : Sources] :
        /\ sample.milliseconds <= Units(time) + 1
        /\ ShortConnection /\ sample.source = "KeepAlive" =>
            Way + s.latency["client"] + s.latency["server"] - 1 <= sample.milliseconds}

\* The RemotePeer of an end.
Remotes(s, e, time) ==
    LET past == 0 .. ReadingAt(s, e, time)
        connected == ReadingAt(s, e, Start) .. ReadingAt(s, e, time)
    IN  [tx : Senders(From(s, e, time)), rx : Receivers,
         m_seqtrackSent : PartialFunctions(Sequences16, connected),
         m_ping : 0 .. HalfWord - 1, m_rtt : 0 .. HalfWord - 1,
         m_lastAckTime : past, m_lastMessageTime : past, m_lastSend : past,
         held : Seq(Held(s, e, time)), timedOut : BOOLEAN,
         heard : 0 .. time, samples : SUBSET Samples(s, time), doubtful : BOOLEAN]

-----------------------------------------------------------------------------
\* Time takes nothing back.
LEMMA FromMonotone ==
    ASSUME NEW s, NEW e \in Ends, NEW t \in Nat, NEW u \in Nat, t <= u
    PROVE  From(s, e, t) \subseteq From(s, e, u)
<1> SUFFICES ASSUME NEW m \in From(s, e, t) PROVE m \in From(s, e, u)
  OBVIOUS
<1>1. 0 .. t \subseteq 0 .. u
  OBVIOUS
<1>2. Asks(s, m, t) => Asks(s, m, u)
  BY <1>1, Zenon DEF Asks
<1>3. Answers(s, m, t) => Answers(s, m, u)
  BY <1>1, Zenon DEF Answers
<1> QED
  BY <1>2, <1>3, Zenon DEF From

LEMMA HeldMonotone ==
    ASSUME NEW s, NEW e \in Ends, NEW t \in Nat, NEW u \in Nat, t <= u
    PROVE  Held(s, e, t) \subseteq Held(s, e, u)
<1>1. MinDelay \in Nat
  BY RoundTripAssumption
<1>2. MinDelay .. t \subseteq MinDelay .. u
  BY <1>1
<1> QED
  BY <1>2, Zenon DEF Held

LEMMA WiresMonotone ==
    ASSUME NEW s, NEW e \in Ends, NEW t \in Nat, NEW u \in Nat, t <= u
    PROVE  Wires(s, e, t) \subseteq Wires(s, e, u)
<1>1. 0 .. t \subseteq 0 .. u
  OBVIOUS
<1> QED
  BY <1>1 DEF Wires

LEMMA SamplesMonotone ==
    ASSUME NEW s, NEW t \in Nat, NEW u \in Nat, t <= u
    PROVE  Samples(s, t) \subseteq Samples(s, u)
<1>1. Units(t) \in Nat /\ Units(u) \in Nat /\ Units(t) <= Units(u)
  BY UnitsMonotone
<1>2. HalfWord \in Nat
  BY ClockAssumption
<1> SUFFICES ASSUME NEW x \in Samples(s, t) PROVE x \in Samples(s, u)
  OBVIOUS
<1>3. x.milliseconds \in Nat /\ x.milliseconds <= Units(t) + 1
  BY <1>2 DEF Samples
<1>4. x.milliseconds <= Units(u) + 1
  BY <1>1, <1>3
<1> QED
  BY <1>4, Zenon DEF Samples

LEMMA RemotesMonotone ==
    ASSUME Platform = "windows", NEW s \in Scenarios, NEW e \in Ends,
           NEW t \in 0 .. LastMoment, NEW u \in t .. LastMoment
    PROVE  Remotes(s, e, t) \subseteq Remotes(s, e, u)
<1> SUFFICES ASSUME NEW p \in Remotes(s, e, t) PROVE p \in Remotes(s, e, u)
  OBVIOUS
<1> DEFINE a == ReadingAt(s, e, Start)
           b == ReadingAt(s, e, t)
           c == ReadingAt(s, e, u)
           M == From(s, e, t)
           N == From(s, e, u)
<1>1. b \in Nat /\ c \in Nat /\ b <= c
  BY ReadingsInOrder
<1>2. t \in Nat /\ u \in Nat /\ t <= u
  BY RoundTripAssumption DEF LastMoment
<1>3. a \in Nat
  <2>1. LastMoment \in Nat
    BY RoundTripAssumption DEF LastMoment
  <2>2. 0 \in 0 .. LastMoment /\ 0 \in 0 .. LastMoment
    BY <2>1
  <2> QED
    BY <2>2, ReadingsInOrder DEF Start
<1>4. /\ M \subseteq N /\ Held(s, e, t) \subseteq Held(s, e, u)
      /\ Samples(s, t) \subseteq Samples(s, u)
  BY <1>2, FromMonotone, HeldMonotone, SamplesMonotone
<1> HIDE DEF a, b, c, M, N
<1>5. 0 .. b \subseteq 0 .. c /\ a .. b \subseteq a .. c /\ 0 .. t \subseteq 0 .. u
  BY <1>1, <1>2, <1>3
<1>6. p.tx \in Senders(N)
  BY <1>4, SendersMonotone DEF Remotes, M
<1>7. p.m_seqtrackSent \in PartialFunctions(Sequences16, a .. c)
  <2> DEFINE f == p.m_seqtrackSent
  <2>1. f \in PartialFunctions(Sequences16, a .. b)
    BY DEF Remotes, a, b
  <2> HIDE DEF f
  <2>2. DOMAIN f \subseteq Sequences16 /\ f \in [DOMAIN f -> a .. b]
    BY <2>1, PartialFunctionsType
  <2>3. f \in [DOMAIN f -> a .. c]
    BY <1>5, <2>2
  <2>4. f \in PartialFunctions(Sequences16, a .. c)
    BY <2>2, <2>3, PartialFunctionsType
  <2> QED
    BY <2>4 DEF f
<1>8. p.held \in Seq(Held(s, e, u))
  BY <1>4, SeqMonotonic DEF Remotes
<1>9. p \in [tx : Senders(M), rx : Receivers,
             m_seqtrackSent : PartialFunctions(Sequences16, a .. b),
             m_ping : 0 .. HalfWord - 1, m_rtt : 0 .. HalfWord - 1,
             m_lastAckTime : 0 .. b, m_lastMessageTime : 0 .. b, m_lastSend : 0 .. b,
             held : Seq(Held(s, e, t)), timedOut : BOOLEAN,
             heard : 0 .. t, samples : SUBSET Samples(s, t), doubtful : BOOLEAN]
  BY DEF Remotes, a, b, M
<1>10. p \in [tx : Senders(N), rx : Receivers,
              m_seqtrackSent : PartialFunctions(Sequences16, a .. c),
              m_ping : 0 .. HalfWord - 1, m_rtt : 0 .. HalfWord - 1,
              m_lastAckTime : 0 .. c, m_lastMessageTime : 0 .. c, m_lastSend : 0 .. c,
              held : Seq(Held(s, e, u)), timedOut : BOOLEAN,
              heard : 0 .. u, samples : SUBSET Samples(s, u), doubtful : BOOLEAN]
  BY <1>4, <1>5, <1>6, <1>7, <1>8, <1>9
<1> QED
  BY <1>10 DEF Remotes, a, c, N

-----------------------------------------------------------------------------
Measured(p) == {sample.milliseconds : sample \in p.samples}

\* Samples whose hundredfold fits uint32_t, as the average is computed with it.
Short(p) == \A n \in Measured(p) : 100 * n < HalfWord

\* The average is among the samples, and 0 as long as there are none.
Averaged(p) ==
    /\ Measured(p) = {} => p.m_rtt = 0
    /\ Measured(p) # {} /\ Short(p) =>
        \E low, high \in Measured(p) : low <= p.m_rtt /\ p.m_rtt <= high

\* What holds of the RemotePeer of an end all the time, within a call too.
Sound(s, e, p) ==
    /\ p \in Remotes(s, e, now)
    /\ p.m_lastMessageTime = ReadingAt(s, e, p.heard)
    /\ Averaged(p)

\* The RemotePeer while packets and held messages are processed.
Runs(s, e, p) == Sound(s, e, p) /\ ~p.timedOut

\* A moment of a behaviour that began with this scenario.
Timely(s) ==
    /\ Platform = "windows"
    /\ now \in 0 .. LastMoment
    /\ scenario.first = s.first
    /\ scenario.latency = s.latency

\* A message that came over the network, and was held for the fake latency.
Arrived(s, e, message) ==
    \E heard \in MinDelay .. now :
        /\ message \in From(s, Other(e), heard - MinDelay)
        /\ s.latency[e] <= ReadingAt(s, e, now) - ReadingAt(s, e, heard)

LEMMA TimelyReadings ==
    ASSUME NEW s \in Scenarios, Timely(s), NEW e \in Ends, NEW time \in 0 .. now
    PROVE  /\ now \in Nat /\ LastMoment \in Nat /\ now <= LastMoment
           /\ time \in 0 .. LastMoment /\ now \in 0 .. LastMoment
           /\ Reading(e) = ReadingAt(s, e, now)
           /\ ReadingAt(s, e, now) \in Nat /\ ReadingAt(s, e, time) \in Nat
           /\ ReadingAt(s, e, time) <= ReadingAt(s, e, now)
           /\ Units(now) \in Nat
           /\ ReadingAt(s, e, now) - ReadingAt(s, e, time) <= Units(now) + 1
<1>1. LastMoment \in Nat
  BY RoundTripAssumption DEF LastMoment
<1>2. /\ now \in Nat /\ now <= LastMoment
      /\ time \in 0 .. LastMoment /\ now \in time .. LastMoment /\ now \in 0 .. LastMoment
  BY <1>1 DEF Timely
<1> DEFINE p == ReadingAt(s, e, time)
           q == ReadingAt(s, e, now)
<1>3. /\ p \in Nat /\ q \in Nat /\ p <= q /\ Units(now - time) \in Nat
      /\ q - p <= Units(now - time) + 1
  BY <1>2, ReadingsInOrder DEF Timely
<1>4. Units(now - time) <= Units(now) /\ Units(now) \in Nat
  <2>1. now - time \in Nat /\ now - time <= now
    BY <1>2
  <2> QED
    BY <1>2, <2>1, UnitsMonotone
<1>5. Reading(e) = q
  BY DEF Timely, Reading, ReadingAt
<1> HIDE DEF p, q
<1>6. q - p <= Units(now) + 1
  BY <1>3, <1>4
<1> QED
  BY <1>1, <1>2, <1>3, <1>4, <1>5, <1>6 DEF p, q

LEMMA FromRenumbered == ASSUME NEW s, NEW e, NEW time PROVE Renumbered(From(s, e, time))
<1> SUFFICES ASSUME NEW m \in From(s, e, time), NEW n \in Sequences16
             PROVE  [m EXCEPT !.m_sequence = n] \in From(s, e, time)
  BY DEF Renumbered
<1> DEFINE o == [m EXCEPT !.m_sequence = n]
<1>1. m \in AnyMessage
  BY DEF From
<1>2. o \in AnyMessage /\ o.id = m.id /\ o.measures = m.measures /\ o.m_timeStamp = m.m_timeStamp
  BY <1>1 DEF AnyMessage
<1> HIDE DEF o
<1>3. Asks(s, m, time) => Asks(s, o, time)
  BY <1>2 DEF Asks
<1>4. Answers(s, m, time) => Answers(s, o, time)
  BY <1>2, Zenon DEF Answers
<1>5. o \in From(s, e, time)
  BY <1>2, <1>3, <1>4, Zenon DEF From
<1> QED
  BY <1>5 DEF o

\* The difference of two readings in 32 bits is not longer than their distance.
LEMMA Since32Span ==
    ASSUME NEW reading \in Int, NEW earlier \in Int, reading - earlier \in Nat
    PROVE  /\ Since32(reading, earlier) \in 0 .. reading - earlier
           /\ Since32(reading, earlier) \in 0 .. HalfWord - 1
           /\ reading - earlier < HalfWord => Since32(reading, earlier) = reading - earlier
<1> DEFINE d == reading - earlier
           w == d % Word
<1>1. Word \in Nat /\ Word > 0 /\ HalfWord \in Nat /\ HalfWord > 0 /\ HalfWord < Word
  BY ClockAssumption
<1> HIDE DEF d
<1>2. w \in 0 .. d /\ (d < Word => w = d)
  BY <1>1, Remainder DEF d
<1>3. d \in Nat
  BY DEF d
<1> HIDE DEF w
<1>4. w \in Nat /\ w <= d
  BY <1>2, <1>3
<1>5. w % HalfWord \in 0 .. w /\ w % HalfWord \in 0 .. HalfWord - 1 /\ (w < HalfWord => w % HalfWord = w)
  BY <1>1, <1>4, Remainder
<1>6. Since32(reading, earlier) = w % HalfWord
  BY DEF Since32, Since, w, d
<1> DEFINE h == w % HalfWord
<1> HIDE DEF h
<1>7. h \in 0 .. d /\ (d < HalfWord => h = d)
  <2>1. h \in 0 .. w /\ (w < HalfWord => h = w)
    BY <1>5 DEF h
  <2> QED
    BY <1>1, <1>2, <1>3, <1>4, <2>1
<1> QED
  BY <1>5, <1>6, <1>7 DEF h, d

LEMMA SmoothedType ==
    ASSUME NEW rtt \in 0 .. HalfWord - 1, NEW milliseconds \in 0 .. HalfWord - 1
    PROVE  Smoothed(rtt, milliseconds) \in 0 .. HalfWord - 1
<1> DEFINE sum == (rtt * 90 + milliseconds * 10) % HalfWord
<1>1. HalfWord \in Nat /\ HalfWord > 0
  BY ClockAssumption
<1>2. rtt * 90 + milliseconds * 10 \in Int
  BY <1>1
<1>3. sum \in 0 .. HalfWord - 1
  BY <1>1, <1>2
<1> HIDE DEF sum
<1>4. sum \div 100 \in 0 .. HalfWord - 1
  BY <1>1, <1>3
<1> QED
  BY <1>4 DEF Smoothed, sum

\* A measurement leaves the average among the samples.
LEMMA UpdateRTTSound ==
    ASSUME NEW s, NEW e, NEW p, Runs(s, e, p), NEW milliseconds, NEW source,
           [milliseconds |-> milliseconds, source |-> source] \in Samples(s, now)
    PROVE  LET q == UpdateRTT(p, milliseconds, source)
           IN  /\ Runs(s, e, q)
               /\ q = [p EXCEPT !.m_ping = q.m_ping, !.m_rtt = q.m_rtt, !.samples = q.samples]
<1> DEFINE sample == [milliseconds |-> milliseconds, source |-> source]
           ping == milliseconds \div 2
           rtt == Smoothed(p.m_rtt, milliseconds)
           samples == p.samples \cup {sample}
           q == UpdateRTT(p, milliseconds, source)
<1>1. p \in Remotes(s, e, now)
  BY DEF Runs, Sound
<1>2. HalfWord \in Nat /\ HalfWord > 0 /\ milliseconds \in 0 .. HalfWord - 1
  BY ClockAssumption DEF Samples
<1>3. p.m_rtt \in 0 .. HalfWord - 1 /\ p.samples \in SUBSET Samples(s, now)
  BY <1>1 DEF Remotes
<1>4. ping \in 0 .. HalfWord - 1 /\ rtt \in 0 .. HalfWord - 1 /\ samples \in SUBSET Samples(s, now)
  <2>1. ping \in 0 .. HalfWord - 1
    BY <1>2
  <2>2. rtt \in 0 .. HalfWord - 1
    BY <1>2, <1>3, SmoothedType
  <2>3. sample \in Samples(s, now)
    OBVIOUS
  <2> HIDE DEF sample
  <2> QED
    BY <1>3, <2>1, <2>2, <2>3
<1>5. q = [p EXCEPT !.m_ping = ping, !.m_rtt = rtt, !.samples = samples]
  BY <1>1 DEF UpdateRTT, Remotes
<1> HIDE DEF ping, rtt, samples, q
<1>6. /\ q \in Remotes(s, e, now)
      /\ q.m_ping = ping /\ q.m_rtt = rtt /\ q.samples = samples
      /\ q.m_lastMessageTime = p.m_lastMessageTime /\ q.heard = p.heard /\ q.timedOut = p.timedOut
  BY <1>1, <1>4, <1>5 DEF Remotes
<1>7. Measured(q) = Measured(p) \cup {milliseconds}
  <2>1. sample.milliseconds = milliseconds
    OBVIOUS
  <2> HIDE DEF sample
  <2>2. q.samples = p.samples \cup {sample}
    BY <1>6 DEF samples
  <2> QED
    BY <2>1, <2>2 DEF Measured
<1>8. Measured(p) \subseteq 0 .. HalfWord - 1
  BY <1>3 DEF Measured, Samples
<1>9. ASSUME Short(q)
      PROVE  \E low, high \in Measured(q) : low <= q.m_rtt /\ q.m_rtt <= high
  <2>1. CASE p.m_rtt = 0
    <3>1. q.m_rtt = milliseconds
      BY <1>6, <2>1 DEF rtt, Smoothed
    <3> QED
      BY <1>2, <1>7, <3>1
  <2>2. CASE p.m_rtt # 0
    <3>1. Measured(p) # {} /\ Short(p)
      BY <1>7, <1>9, <2>2 DEF Runs, Sound, Averaged, Short
    <3>2. PICK low \in Measured(p), high \in Measured(p) : low <= p.m_rtt /\ p.m_rtt <= high
      BY <3>1 DEF Runs, Sound, Averaged
    <3> DEFINE l == IF low <= milliseconds THEN low ELSE milliseconds
               h == IF milliseconds <= high THEN high ELSE milliseconds
    <3>3. /\ l \in Nat /\ h \in Nat /\ l \in Measured(q) /\ h \in Measured(q)
          /\ p.m_rtt \in l .. h /\ milliseconds \in l .. h
      BY <1>2, <1>3, <1>7, <1>8, <3>2
    <3>4. 100 * h < HalfWord
      BY <1>9, <3>3 DEF Short
    <3> HIDE DEF l, h
    <3>5. q.m_rtt \in l .. h
      BY <1>6, <3>3, <3>4, SmoothedAmong DEF rtt
    <3> QED
      BY <3>3, <3>5
  <2> QED
    BY <2>1, <2>2
<1>10. Averaged(q)
  BY <1>7, <1>9 DEF Averaged
<1> QED
  BY <1>5, <1>6, <1>10 DEF Runs, Sound, q
-----------------------------------------------------------------------------
\* The rounds of the loops of the handlers, where x says what the end has got
\* and what its clock reads, and what they keep.
AckNext(p, k, x) ==
    IF k - 1 \in x.packet.m_ackbits
    THEN ProcessAck(p, Wrap(x.packet.m_ackseq - k), x.reading) ELSE p

ParseNext(p, k, x) == ParseMessage(x.end, p, x.packet.messages[k], x.reading)

ReceiveNext(p, k, x) ==
    IF k \in x.arriving THEN ParseBuffer(x.end, p, x.queue[k].packet, x.reading) ELSE p

ReleaseNext(p, k, x) == ProcessMessage(x.end, p, x.held[k].message, x.reading)

StillRuns(p, k, x) == Runs(x.scenario, x.end, p)

StayNext(rest, k, x) == IF k \in x.arriving THEN rest ELSE Append(rest, x.queue[k])

AreWires(rest, k, x) == rest \in Seq(x.wires)

Acks == INSTANCE Loops WITH Step <- AckNext, Holds <- StillRuns
Parsing == INSTANCE Loops WITH Step <- ParseNext, Holds <- StillRuns
Receiving == INSTANCE Loops WITH Step <- ReceiveNext, Holds <- StillRuns
Staying == INSTANCE Loops WITH Step <- StayNext, Holds <- AreWires

-----------------------------------------------------------------------------
\* What does not touch the history and the round trip.
LEMMA OthersRun ==
    ASSUME NEW s, NEW e, NEW p, Runs(s, e, p),
           NEW q \in Remotes(s, e, now),
           q.m_lastMessageTime = p.m_lastMessageTime, q.heard = p.heard,
           q.timedOut = p.timedOut, q.m_rtt = p.m_rtt, q.samples = p.samples
    PROVE  Runs(s, e, q)
BY DEF Runs, Sound, Averaged, Measured, Short

\* What an acknowledgement measures with a time of this connection.
LEMMA AckSample ==
    ASSUME NEW s \in Scenarios, Timely(s), NEW e \in Ends,
           NEW sent \in ReadingAt(s, e, Start) .. ReadingAt(s, e, now)
    PROVE  [milliseconds |-> Since32(ReadingAt(s, e, now), sent), source |-> "Ack"]
                \in Samples(s, now)
<1> DEFINE first == ReadingAt(s, e, Start)
           reading == ReadingAt(s, e, now)
           span == reading - sent
           milliseconds == Since32(reading, sent)
<1>1. /\ reading \in Nat /\ first \in Nat /\ Units(now) \in Nat
      /\ reading - first <= Units(now) + 1
  <2>1. now \in Nat
    BY RoundTripAssumption DEF Timely, LastMoment
  <2>2. 0 \in 0 .. now
    BY <2>1
  <2> QED
    BY <2>2, TimelyReadings DEF Start
<1>2. sent \in Int /\ first <= sent /\ sent <= reading
  BY <1>1
<1> HIDE DEF first, reading
<1>3. span \in Nat /\ span <= Units(now) + 1
  BY <1>1, <1>2
<1>4. milliseconds \in 0 .. span /\ milliseconds \in 0 .. HalfWord - 1
  <2>1. reading \in Int /\ sent \in Int /\ reading - sent \in Nat
    BY <1>1, <1>2, <1>3
  <2> QED
    BY <2>1, Since32Span
<1> HIDE DEF milliseconds, span
<1>5. milliseconds <= Units(now) + 1
  BY <1>1, <1>3, <1>4
<1>6. [milliseconds |-> milliseconds, source |-> "Ack"] \in Samples(s, now)
  BY <1>4, <1>5 DEF Samples, Sources
<1> QED
  BY <1>6 DEF milliseconds, reading

\* What a KeepAlive measures that comes back to the end that asked.
LEMMA KeepAliveSample ==
    ASSUME NEW s \in Scenarios, Timely(s), NEW e \in Ends,
           NEW message, Arrived(s, e, message), message.id = "KeepAlive", message.measures = e
    PROVE  [milliseconds |-> Since32(ReadingAt(s, e, now), message.m_timeStamp), source |-> "KeepAlive"]
                \in Samples(s, now)
<1>1. PICK back \in MinDelay .. now :
        /\ message \in From(s, Other(e), back - MinDelay)
        /\ s.latency[e] <= ReadingAt(s, e, now) - ReadingAt(s, e, back)
  BY DEF Arrived
<1>2. e # Other(e) /\ Other(e) \in Ends
  BY DEF Other, Ends
<1>3. Answers(s, message, back - MinDelay)
  BY <1>1, <1>2 DEF From
<1> DEFINE o == Other(e)
           moment == back - MinDelay
<1>4. PICK answered \in 0 .. moment : \E heard \in 0 .. answered : \E asked \in 0 .. heard :
            /\ message.m_timeStamp = ReadingAt(s, message.measures, asked)
            /\ asked + MinDelay <= heard
            /\ s.latency[o] <= ReadingAt(s, o, answered) - ReadingAt(s, o, heard)
  BY <1>3, Zenon DEF Answers
<1>5. PICK heard \in 0 .. answered : \E asked \in 0 .. heard :
            /\ message.m_timeStamp = ReadingAt(s, message.measures, asked)
            /\ asked + MinDelay <= heard
            /\ s.latency[o] <= ReadingAt(s, o, answered) - ReadingAt(s, o, heard)
  BY <1>4
<1>6. PICK asked \in 0 .. heard :
            /\ message.m_timeStamp = ReadingAt(s, e, asked)
            /\ asked + MinDelay <= heard
            /\ s.latency[o] <= ReadingAt(s, o, answered) - ReadingAt(s, o, heard)
  BY <1>5
<1>7. MinDelay \in Nat /\ now \in 0 .. LastMoment /\ LastMoment \in Nat /\ now \in Nat
  BY RoundTripAssumption DEF Timely, LastMoment
<1>8. /\ back \in Nat /\ answered \in Nat /\ heard \in Nat /\ asked \in Nat
      /\ back \in 0 .. now /\ answered + MinDelay <= back
      /\ answered \in 0 .. LastMoment /\ heard \in 0 .. answered
      /\ asked \in 0 .. LastMoment /\ asked \in 0 .. now
  BY <1>7
<1> DEFINE reading == ReadingAt(s, e, now)
           stamp == ReadingAt(s, e, asked)
           span == reading - stamp
           milliseconds == Since32(reading, stamp)
           Sum == Way + s.latency["client"] + s.latency["server"] - 1
<1> HIDE DEF o
<1>9. Way + s.latency[e] + s.latency[o] - 1 <= span
  BY <1>1, <1>2, <1>6, <1>7, <1>8, ThereAndBack DEF Timely, o
<1>10. Sum = Way + s.latency[e] + s.latency[o] - 1
  <2>1. /\ s.latency["client"] \in Nat /\ s.latency["server"] \in Nat
    BY RoundTripAssumption DEF Ends
  <2>2. Way \in Nat
    BY <1>7, UnitsAdd DEF Way
  <2>3. (e = "client" /\ o = "server") \/ (e = "server" /\ o = "client")
    BY DEF Ends, Other, o
  <2> QED
    BY <2>1, <2>2, <2>3
<1>11. /\ reading \in Nat /\ stamp \in Nat /\ stamp <= reading
       /\ Units(now) \in Nat /\ span <= Units(now) + 1
  BY <1>8, TimelyReadings
<1>12. Units(now) <= Units(LastMoment) /\ Units(LastMoment) \in Nat
  BY <1>7, UnitsMonotone
<1> HIDE DEF reading, stamp
<1>13. span \in Nat
  BY <1>11
<1>14. /\ milliseconds \in 0 .. span /\ milliseconds \in 0 .. HalfWord - 1
       /\ span < HalfWord => milliseconds = span
  <2>1. reading \in Int /\ stamp \in Int /\ reading - stamp \in Nat
    BY <1>11, <1>13
  <2> QED
    BY <2>1, Since32Span
<1> HIDE DEF milliseconds, span, Sum
<1>15. milliseconds <= Units(now) + 1
  BY <1>11, <1>13, <1>14
<1>16. ShortConnection => Sum <= milliseconds
  <2>1. SUFFICES ASSUME ShortConnection PROVE Sum <= milliseconds
    OBVIOUS
  <2>2. HalfWord \in Nat
    BY ClockAssumption
  <2>3. span < HalfWord
    BY <1>11, <1>12, <1>13, <2>1, <2>2 DEF ShortConnection
  <2> QED
    BY <1>9, <1>10, <1>14, <2>3
<1>17. [milliseconds |-> milliseconds, source |-> "KeepAlive"] \in Samples(s, now)
  BY <1>14, <1>15, <1>16 DEF Samples, Sources, Sum
<1> QED
  BY <1>6, <1>17 DEF milliseconds, reading, stamp

LEMMA ProcessAckRuns ==
    ASSUME NEW s \in Scenarios, Timely(s), NEW e \in Ends, NEW p, Runs(s, e, p), NEW sequence
    PROVE  Runs(s, e, ProcessAck(p, sequence, ReadingAt(s, e, now)))
<1> DEFINE M == From(s, e, now)
           reading == ReadingAt(s, e, now)
           times == ReadingAt(s, e, Start) .. reading
           timed == IF sequence \in DOMAIN p.m_seqtrackSent
                    THEN UpdateRTT(p, TimeSinceSent(p, sequence, reading), "Ack")
                    ELSE p
           messages == Acknowledge(timed.tx.m_reliableMessages, sequence)
           tx == [timed.tx EXCEPT !.m_reliableMessages = messages]
           sent == Forget(timed.m_seqtrackSent, sequence)
           q == [[timed EXCEPT !.tx = tx] EXCEPT !.m_seqtrackSent = sent]
<1>1. Runs(s, e, timed)
  <2>1. CASE sequence \in DOMAIN p.m_seqtrackSent
    <3> DEFINE f == p.m_seqtrackSent
               milliseconds == Since32(reading, f[sequence])
    <3>1. f \in PartialFunctions(Sequences16, times)
      BY DEF Runs, Sound, Remotes
    <3> HIDE DEF f, times
    <3>2. f \in [DOMAIN f -> times]
      BY <3>1, PartialFunctionsType
    <3>3. f[sequence] \in times
      BY <2>1, <3>2 DEF f
    <3>4. [milliseconds |-> milliseconds, source |-> "Ack"] \in Samples(s, now)
      BY <3>3, AckSample DEF times
    <3> HIDE DEF milliseconds
    <3>5. Runs(s, e, UpdateRTT(p, milliseconds, "Ack"))
      BY <3>4, UpdateRTTSound
    <3> QED
      BY <2>1, <3>5 DEF milliseconds, f, TimeSinceSent
  <2>2. CASE sequence \notin DOMAIN p.m_seqtrackSent
    BY <2>2
  <2> QED
    BY <2>1, <2>2
<1>2. ProcessAck(p, sequence, reading) \in {p, [timed EXCEPT !.tx.m_reliableMessages = Acknowledge(@, sequence),
                                                            !.m_seqtrackSent = Forget(@, sequence)]}
  BY DEF ProcessAck
<1> HIDE DEF timed
<1>3. timed \in Remotes(s, e, now)
  BY <1>1 DEF Runs, Sound
<1>4. tx \in Senders(M)
  <2>1. timed.tx \in Senders(M)
    BY <1>3 DEF Remotes
  <2> HIDE DEF M
  <2>2. messages \in Seq(M)
    BY <2>1, AcknowledgeType DEF Senders
  <2> HIDE DEF messages
  <2> QED
    BY <2>1, <2>2 DEF Senders
<1>5. sent \in PartialFunctions(Sequences16, times)
  <2>1. timed.m_seqtrackSent \in PartialFunctions(Sequences16, times)
    BY <1>3 DEF Remotes
  <2> DEFINE f == timed.m_seqtrackSent
  <2> HIDE DEF f, times
  <2>2. DOMAIN f \subseteq Sequences16 /\ f \in [DOMAIN f -> times]
    BY <2>1, PartialFunctionsType DEF f
  <2>3. /\ Forget(f, sequence) \in [DOMAIN f \ {sequence} -> times]
        /\ DOMAIN f \ {sequence} \in SUBSET Sequences16
    BY <2>2 DEF Forget
  <2>4. Forget(f, sequence) \in PartialFunctions(Sequences16, times)
    BY <2>3 DEF PartialFunctions
  <2> QED
    BY <2>4 DEF f
<1>6. [timed EXCEPT !.tx.m_reliableMessages = Acknowledge(@, sequence),
                    !.m_seqtrackSent = Forget(@, sequence)] = q
  BY <1>3 DEF Remotes
<1> HIDE DEF tx, sent
<1>7. Runs(s, e, q)
  <2>1. q \in Remotes(s, e, now)
    BY <1>3, <1>4, <1>5 DEF Remotes
  <2>2. /\ q.m_lastMessageTime = timed.m_lastMessageTime /\ q.heard = timed.heard
        /\ q.timedOut = timed.timedOut /\ q.m_rtt = timed.m_rtt /\ q.samples = timed.samples
    BY <1>3 DEF Remotes
  <2> HIDE DEF q
  <2> QED
    BY <1>1, <2>1, <2>2, OthersRun
<1> QED
  BY <1>2, <1>6, <1>7

LEMMA ProcessAcksRuns ==
    ASSUME NEW s \in Scenarios, Timely(s), NEW e \in Ends, NEW p, Runs(s, e, p), NEW packet
    PROVE  Runs(s, e, ProcessAcks(p, packet, ReadingAt(s, e, now)))
<1> DEFINE reading == ReadingAt(s, e, now)
           x == [scenario |-> s, end |-> e, packet |-> packet, reading |-> reading]
           first == ProcessAck(p, packet.m_ackseq, reading)
           IsAfter(f) == f = [k \in 0 .. AckBits |->
                IF k = 0 THEN ProcessAck(p, packet.m_ackseq, reading)
                ELSE IF k - 1 \in packet.m_ackbits
                     THEN ProcessAck(f[k - 1], Wrap(packet.m_ackseq - k), reading)
                ELSE f[k - 1]]
           after == CHOOSE f : IsAfter(f)
           last == after[AckBits]
<1>1. AckBits \in Nat /\ reading \in Nat
  <2>1. now \in 0 .. now
    BY RoundTripAssumption DEF Timely, LastMoment
  <2> QED
    BY <2>1, SequenceAssumption, TimelyReadings
<1>2. PICK r : Acks!IsLoop(r, AckBits, first, x)
  BY <1>1, Acks!LoopExists
<1>3. IsAfter(r)
  BY <1>2 DEF Acks!IsLoop, AckNext
<1>4. IsAfter(after)
  BY <1>3
<1>5. Acks!IsLoop(after, AckBits, first, x)
  BY <1>4 DEF Acks!IsLoop, AckNext
<1>6. StillRuns(first, 0, x)
  BY ProcessAckRuns DEF StillRuns
<1>7. \A k \in 1 .. AckBits : \A q : StillRuns(q, k - 1, x) => StillRuns(AckNext(q, k, x), k, x)
  BY ProcessAckRuns DEF StillRuns, AckNext
<1>8. ProcessAcks(p, packet, reading) = [last EXCEPT !.m_lastAckTime = reading]
  BY DEF ProcessAcks
<1> HIDE DEF after
<1>9. \A k \in 0 .. AckBits : StillRuns(after[k], k, x)
  <2> HIDE DEF x, first
  <2> QED
    BY <1>1, <1>5, <1>6, <1>7, Acks!LoopInvariant
<1>10. Runs(s, e, last)
  BY <1>1, <1>9 DEF StillRuns
<1> HIDE DEF last
<1> DEFINE q == [last EXCEPT !.m_lastAckTime = reading]
<1>11. q \in Remotes(s, e, now)
  <2>1. last \in Remotes(s, e, now)
    BY <1>10 DEF Runs, Sound
  <2>2. reading \in 0 .. reading
    BY <1>1
  <2> HIDE DEF reading
  <2> QED
    BY <2>1, <2>2 DEF Remotes, reading
<1>12. /\ q.m_lastMessageTime = last.m_lastMessageTime /\ q.heard = last.heard
       /\ q.timedOut = last.timedOut /\ q.m_rtt = last.m_rtt /\ q.samples = last.samples
  BY <1>10 DEF Runs, Sound, Remotes
<1> HIDE DEF q
<1>13. Runs(s, e, q)
  BY <1>10, <1>11, <1>12, OthersRun
<1> QED
  BY <1>8, <1>13 DEF q

LEMMA EnqueueRuns ==
    ASSUME NEW s, NEW e, NEW p, Runs(s, e, p), NEW m \in From(s, e, now)
    PROVE  Runs(s, e, [p EXCEPT !.tx = EnqueueMessage(@, m)])
<1> DEFINE M == From(s, e, now)
           tx == EnqueueMessage(p.tx, m)
           q == [p EXCEPT !.tx = tx]
<1>1. p \in Remotes(s, e, now)
  BY DEF Runs, Sound
<1>2. tx \in Senders(M)
  <2>1. p.tx \in Senders(M)
    BY <1>1 DEF Remotes
  <2> HIDE DEF M
  <2> QED
    BY <2>1, EnqueueMessageType DEF M
<1> HIDE DEF tx
<1>3. q \in Remotes(s, e, now)
  BY <1>1, <1>2 DEF Remotes
<1>4. /\ q.m_lastMessageTime = p.m_lastMessageTime /\ q.heard = p.heard
      /\ q.timedOut = p.timedOut /\ q.m_rtt = p.m_rtt /\ q.samples = p.samples
  BY <1>1 DEF Remotes
<1> HIDE DEF q
<1>5. Runs(s, e, q)
  BY <1>1, <1>3, <1>4, OthersRun
<1> QED
  BY <1>5 DEF tx, q

\* A KeepAlive of the end itself, and its answer to one of the other end.
LEMMA AskType ==
    ASSUME NEW s \in Scenarios, Timely(s), NEW e \in Ends
    PROVE  KeepAlive(e, ReadingAt(s, e, now)) \in From(s, e, now)
<1> DEFINE reading == ReadingAt(s, e, now)
           m == KeepAlive(e, reading)
<1>1. now \in 0 .. now
  BY RoundTripAssumption DEF Timely, LastMoment
<1>2. reading \in Nat
  BY <1>1, TimelyReadings
<1>3. 0 \in Sequences16
  BY SequenceAssumption DEF Sequences16, Modulus
<1>4. m \in AnyMessage /\ m.measures = e /\ m.m_timeStamp = ReadingAt(s, e, now)
  <2> HIDE DEF reading
  <2>1. m \in AnyMessage /\ m.measures = e /\ m.m_timeStamp = reading
    BY <1>2, <1>3 DEF KeepAlive, AnyMessage
  <2> QED
    BY <2>1 DEF reading
<1> HIDE DEF m
<1>5. Asks(s, m, now)
  BY <1>1, <1>4 DEF Asks
<1>6. m \in From(s, e, now)
  BY <1>4, <1>5 DEF From
<1> QED
  BY <1>6 DEF m

LEMMA AnswerType ==
    ASSUME NEW s \in Scenarios, Timely(s), NEW e \in Ends,
           NEW message, Arrived(s, e, message), message.id = "KeepAlive", message.measures # e,
           NEW reading
    PROVE  Answer(message, reading) \in From(s, e, now)
<1> DEFINE m == Answer(message, reading)
           o == message.measures
<1>1. PICK heard \in MinDelay .. now :
        /\ message \in From(s, Other(e), heard - MinDelay)
        /\ s.latency[e] <= ReadingAt(s, e, now) - ReadingAt(s, e, heard)
  BY DEF Arrived
<1>2. message \in AnyMessage
  BY <1>1 DEF From
<1>3. o \in Ends /\ o = Other(e) /\ Other(o) = e
  BY <1>2 DEF AnyMessage, Ends, Other
<1>4. Asks(s, message, heard - MinDelay)
  BY <1>1, <1>3 DEF From
<1>5. PICK asked \in 0 .. heard - MinDelay : message.m_timeStamp = ReadingAt(s, o, asked)
  BY <1>4 DEF Asks
<1>6. /\ now \in Nat /\ MinDelay \in Nat /\ now \in 0 .. now
      /\ heard \in 0 .. now /\ asked \in 0 .. heard /\ asked + MinDelay <= heard
  BY RoundTripAssumption DEF Timely, LastMoment
<1>7. 0 \in Sequences16
  BY SequenceAssumption DEF Sequences16, Modulus
<1>8. m \in AnyMessage /\ m.measures = o /\ m.m_timeStamp = message.m_timeStamp
  BY <1>2, <1>7 DEF Answer, KeepAlive, AnyMessage
<1> HIDE DEF m
<1>9. Answers(s, m, now)
  <2> HIDE DEF o
  <2>1. /\ m.m_timeStamp = ReadingAt(s, m.measures, asked)
        /\ asked + MinDelay <= heard
        /\ s.latency[Other(m.measures)]
             <= ReadingAt(s, Other(m.measures), now) - ReadingAt(s, Other(m.measures), heard)
    BY <1>1, <1>3, <1>5, <1>6, <1>8
  <2> QED
    BY <1>6, <2>1, Zenon DEF Answers
<1>10. m.measures # e
  BY <1>8
<1>11. m \in From(s, e, now)
  BY <1>8, <1>9, <1>10 DEF From
<1> QED
  BY <1>11 DEF m

\* The last message and the moment it was heard stay together.
LEMMA ProcessMessageRuns ==
    ASSUME NEW s \in Scenarios, Timely(s), NEW e \in Ends, NEW p, Runs(s, e, p),
           NEW message, Arrived(s, e, message)
    PROVE  Runs(s, e, ProcessMessage(e, p, message, ReadingAt(s, e, now)))
<1> DEFINE reading == ReadingAt(s, e, now)
           q == [[p EXCEPT !.m_lastMessageTime = reading] EXCEPT !.heard = now]
           milliseconds == Since32(reading, message.m_timeStamp)
<1>1. reading \in Nat /\ reading \in 0 .. reading /\ now \in 0 .. now
  <2>1. now \in 0 .. now
    BY RoundTripAssumption DEF Timely, LastMoment
  <2>2. reading \in Nat
    BY <2>1, TimelyReadings
  <2> HIDE DEF reading
  <2> QED
    BY <2>1, <2>2
<1>2. p \in Remotes(s, e, now) /\ ~p.timedOut /\ Averaged(p)
  BY DEF Runs, Sound
<1>3. Runs(s, e, q)
  <2> HIDE DEF reading
  <2>1. q \in Remotes(s, e, now)
    BY <1>1, <1>2 DEF Remotes, reading
  <2>2. /\ q.m_lastMessageTime = reading /\ q.heard = now
        /\ q.timedOut = p.timedOut /\ q.m_rtt = p.m_rtt /\ q.samples = p.samples
    BY <1>2 DEF Remotes
  <2> HIDE DEF q
  <2>3. Averaged(q)
    BY <1>2, <2>2 DEF Averaged, Measured, Short
  <2> QED
    BY <1>2, <2>1, <2>2, <2>3 DEF Runs, Sound, reading
<1>4. ProcessMessage(e, p, message, reading) =
        IF message.id # "KeepAlive" THEN q
        ELSE IF message.measures = e THEN UpdateRTT(q, milliseconds, "KeepAlive")
        ELSE [q EXCEPT !.tx = EnqueueMessage(@, Answer(message, reading))]
  BY <1>2 DEF ProcessMessage
<1> HIDE DEF q
<1>5. ASSUME message.id = "KeepAlive", message.measures = e
      PROVE  Runs(s, e, UpdateRTT(q, milliseconds, "KeepAlive"))
  <2>1. [milliseconds |-> milliseconds, source |-> "KeepAlive"] \in Samples(s, now)
    BY <1>5, KeepAliveSample
  <2> HIDE DEF milliseconds
  <2> QED
    BY <1>3, <2>1, UpdateRTTSound
<1>6. ASSUME message.id = "KeepAlive", message.measures # e
      PROVE  Runs(s, e, [q EXCEPT !.tx = EnqueueMessage(@, Answer(message, reading))])
  <2>1. Answer(message, reading) \in From(s, e, now)
    BY <1>6, AnswerType
  <2> QED
    BY <1>3, <2>1, EnqueueRuns
<1> QED
  BY <1>3, <1>4, <1>5, <1>6

\* The reliable messages that wait and their send times are the same.
SameTable(p, q) ==
    /\ q.tx.m_reliableMessages = p.tx.m_reliableMessages
    /\ q.m_seqtrackSent = p.m_seqtrackSent

\* Processing messages does not touch the send times or the reliable messages.
LEMMA ProcessMessageSame ==
    ASSUME NEW s, NEW e, NEW p, Runs(s, e, p), NEW f, NEW message, NEW reading
    PROVE  SameTable(p, ProcessMessage(f, p, message, reading))
<1>1. p \in Remotes(s, e, now)
  BY DEF Runs, Sound
<1> QED
  BY <1>1 DEF ProcessMessage, UpdateRTT, EnqueueMessage, Remotes, Senders, SameTable

\* A message that has just come over the network.
Arriving(s, e) == IF MinDelay <= now THEN From(s, Other(e), now - MinDelay) ELSE {}

LEMMA AddPendingMessageRuns ==
    ASSUME NEW s \in Scenarios, Timely(s), NEW e \in Ends, NEW p, Runs(s, e, p),
           NEW message \in Arriving(s, e)
    PROVE  Runs(s, e, AddPendingMessage(p, message, ReadingAt(s, e, now)))
<1> DEFINE reading == ReadingAt(s, e, now)
           entry == [message |-> message, m_timeStamp |-> reading]
           held == Append(p.held, entry)
           q == [p EXCEPT !.held = held]
<1>1. p \in Remotes(s, e, now)
  BY DEF Runs, Sound
<1>2. reading \in Nat /\ now \in MinDelay .. now
  <2>1. now \in 0 .. now /\ now \in Nat
    BY RoundTripAssumption DEF Timely, LastMoment
  <2>2. reading \in Nat
    BY <2>1, TimelyReadings
  <2>3. MinDelay \in Nat /\ MinDelay <= now
    BY RoundTripAssumption DEF Arriving
  <2> QED
    BY <2>1, <2>2, <2>3
<1>3. held \in Seq(Held(s, e, now))
  <2>1. p.held \in Seq(Held(s, e, now))
    BY <1>1 DEF Remotes
  <2>2. message \in From(s, Other(e), now - MinDelay) /\ message \in AnyMessage
    BY DEF Arriving, From
  <2>3. entry \in Held(s, e, now)
    <3>1. /\ entry \in [message : AnyMessage, m_timeStamp : Nat]
          /\ entry.m_timeStamp = ReadingAt(s, e, now) /\ entry.message = message
      BY <1>2, <2>2
    <3> HIDE DEF entry
    <3> QED
      BY <1>2, <2>2, <3>1, Zenon DEF Held
  <2> HIDE DEF entry
  <2> QED
    BY <2>1, <2>3, AppendProperties
<1>4. AddPendingMessage(p, message, reading) = q
  BY <1>1 DEF AddPendingMessage
<1> HIDE DEF held, reading
<1>5. q \in Remotes(s, e, now)
  BY <1>1, <1>3 DEF Remotes
<1>6. /\ q.m_lastMessageTime = p.m_lastMessageTime /\ q.heard = p.heard
      /\ q.timedOut = p.timedOut /\ q.m_rtt = p.m_rtt /\ q.samples = p.samples
  BY <1>1 DEF Remotes
<1> HIDE DEF q
<1>7. Runs(s, e, q)
  BY <1>5, <1>6, OthersRun
<1> QED
  BY <1>4, <1>7 DEF reading

LEMMA ParseMessageRuns ==
    ASSUME NEW s \in Scenarios, Timely(s), NEW e \in Ends, NEW p, Runs(s, e, p),
           NEW message \in Arriving(s, e)
    PROVE  Runs(s, e, ParseMessage(e, p, message, ReadingAt(s, e, now)))
<1> DEFINE reading == ReadingAt(s, e, now)
           ordered == IsOrderedOnly(message)
           rx == AfterSequenceCheck(p.rx, message.m_sequence, ordered)
           q == [p EXCEPT !.rx = rx]
<1>1. p \in Remotes(s, e, now)
  BY DEF Runs, Sound
<1>2. rx \in Receivers
  <2>1. p.rx \in Receivers /\ message.m_sequence \in Sequences16
    BY <1>1 DEF Remotes, Arriving, From, AnyMessage
  <2> QED
    BY <2>1, AfterSequenceCheckType
<1> HIDE DEF rx
<1>3. q \in Remotes(s, e, now)
  BY <1>1, <1>2 DEF Remotes
<1>4. /\ q.m_lastMessageTime = p.m_lastMessageTime /\ q.heard = p.heard
      /\ q.timedOut = p.timedOut /\ q.m_rtt = p.m_rtt /\ q.samples = p.samples
  BY <1>1 DEF Remotes
<1>5. \/ ParseMessage(e, p, message, reading) = q
      \/ ParseMessage(e, p, message, reading) = AddPendingMessage(q, message, reading)
      \/ /\ ~(scenario.latency[e] > 0)
         /\ ParseMessage(e, p, message, reading) = ProcessMessage(e, q, message, reading)
  BY <1>1 DEF ParseMessage, rx
<1> HIDE DEF q
<1>6. Runs(s, e, q)
  BY <1>3, <1>4, OthersRun
<1>7. ASSUME ~(scenario.latency[e] > 0) PROVE Arrived(s, e, message)
  <2>1. now \in 0 .. now /\ now \in Nat
    BY RoundTripAssumption DEF Timely, LastMoment
  <2>2. reading \in Nat
    BY <2>1, TimelyReadings
  <2>3. s.latency[e] = 0
    <3>1. s.latency[e] \in Nat
      BY RoundTripAssumption
    <3> QED
      BY <1>7, <3>1 DEF Timely
  <2>4. now \in MinDelay .. now
    BY <2>1, RoundTripAssumption DEF Arriving
  <2>5. message \in From(s, Other(e), now - MinDelay)
    BY DEF Arriving
  <2> HIDE DEF reading
  <2>6. s.latency[e] <= reading - reading
    BY <2>2, <2>3
  <2> QED
    BY <2>4, <2>5, <2>6 DEF Arrived, reading
<1> QED
  BY <1>5, <1>6, <1>7, AddPendingMessageRuns, ProcessMessageRuns

LEMMA ParseMessageSame ==
    ASSUME NEW s, NEW e, NEW p, Runs(s, e, p), NEW message,
           NEW rx \in Receivers, NEW reading, NEW f,
           rx = AfterSequenceCheck(p.rx, message.m_sequence, IsOrderedOnly(message))
    PROVE  SameTable(p, ParseMessage(f, p, message, reading))
<1> DEFINE q == [p EXCEPT !.rx = rx]
<1>1. p \in Remotes(s, e, now)
  BY DEF Runs, Sound
<1>2. q \in Remotes(s, e, now)
  BY <1>1 DEF Remotes
<1>3. /\ q.m_lastMessageTime = p.m_lastMessageTime /\ q.heard = p.heard
      /\ q.timedOut = p.timedOut /\ q.m_rtt = p.m_rtt /\ q.samples = p.samples
      /\ SameTable(p, q)
  BY <1>1 DEF Remotes, SameTable
<1>4. q = [p EXCEPT !.rx = AfterSequenceCheck(@, message.m_sequence, IsOrderedOnly(message))]
  BY <1>1 DEF Remotes
<1>5. ParseMessage(f, p, message, reading)
        \in {q, AddPendingMessage(q, message, reading), ProcessMessage(f, q, message, reading)}
  BY <1>4 DEF ParseMessage
<1> HIDE DEF q
<1>6. Runs(s, e, q)
  BY <1>2, <1>3, OthersRun
<1>7. SameTable(q, AddPendingMessage(q, message, reading))
  BY <1>2 DEF Remotes, AddPendingMessage, SameTable
<1>8. SameTable(q, ProcessMessage(f, q, message, reading))
  BY <1>6, ProcessMessageSame
<1> QED
  BY <1>3, <1>5, <1>7, <1>8 DEF SameTable

LEMMA ParseBufferRuns ==
    ASSUME NEW s \in Scenarios, Timely(s), NEW e \in Ends, NEW p, Runs(s, e, p),
           NEW packet \in Packets(Arriving(s, e))
    PROVE  Runs(s, e, ParseBuffer(e, p, packet, ReadingAt(s, e, now)))
<1> DEFINE M == Arriving(s, e)
           reading == ReadingAt(s, e, now)
           x == [scenario |-> s, end |-> e, packet |-> packet, reading |-> reading]
           N == Len(packet.messages)
           first == ProcessAcks(p, packet, reading)
           IsParsed(f) == f = [k \in 0 .. Len(packet.messages) |->
                IF k = 0 THEN ProcessAcks(p, packet, reading)
                ELSE ParseMessage(e, f[k - 1], packet.messages[k], reading)]
           parsed == CHOOSE f : IsParsed(f)
<1>1. packet.messages \in Seq(M)
  BY DEF Packets
<1>2. N \in Nat /\ \A k \in 1 .. N : packet.messages[k] \in M
  BY <1>1, LenProperties, ElementOfSeq
<1>3. PICK r : Parsing!IsLoop(r, N, first, x)
  BY <1>2, Parsing!LoopExists
<1>4. IsParsed(r)
  BY <1>3 DEF Parsing!IsLoop, ParseNext
<1>5. IsParsed(parsed)
  BY <1>4
<1>6. Parsing!IsLoop(parsed, N, first, x)
  BY <1>5 DEF Parsing!IsLoop, ParseNext
<1>7. StillRuns(first, 0, x)
  BY ProcessAcksRuns DEF StillRuns
<1>8. \A k \in 1 .. N : \A q : StillRuns(q, k - 1, x) => StillRuns(ParseNext(q, k, x), k, x)
  BY <1>2, ParseMessageRuns DEF StillRuns, ParseNext
<1>9. ParseBuffer(e, p, packet, reading) = parsed[N]
  BY DEF ParseBuffer
<1> HIDE DEF parsed
<1>10. \A k \in 0 .. N : StillRuns(parsed[k], k, x)
  <2> HIDE DEF x, first, N
  <2> QED
    BY <1>2, <1>6, <1>7, <1>8, Parsing!LoopInvariant
<1>11. Runs(s, e, parsed[N])
  BY <1>2, <1>10 DEF StillRuns
<1> QED
  BY <1>9, <1>11

\* The packets that arrive bring messages that arrive.
LEMMA ArrivingPackets ==
    ASSUME NEW s \in Scenarios, Timely(s), NEW e \in Ends,
           net[e] \in Seq(Wires(s, e, now)), NEW arriving \in SUBSET Deliverable(e),
           NEW k \in 1 .. Len(net[e]), k \in arriving
    PROVE  net[e][k].packet \in Packets(Arriving(s, e))
<1> DEFINE queue == net[e]
           left == queue[k].left
<1>1. queue[k] \in Wires(s, e, now)
  <2> HIDE DEF queue
  <2> QED
    BY ElementOfSeq DEF queue
<1>2. left \in 0 .. now /\ queue[k].packet \in Packets(From(s, Other(e), left))
  BY <1>1 DEF Wires
<1>3. now - left >= MinDelay
  BY DEF Deliverable
<1> HIDE DEF left
<1>4. /\ MinDelay \in Nat /\ now \in Nat /\ left \in Nat /\ now - MinDelay \in Nat
      /\ left <= now - MinDelay /\ MinDelay <= now
  <2>1. MinDelay \in Nat /\ now \in Nat
    BY RoundTripAssumption DEF Timely, LastMoment
  <2>2. left \in Nat
    BY <1>2, <2>1
  <2> QED
    BY <1>3, <2>1, <2>2
<1>5. Other(e) \in Ends
  BY DEF Other, Ends
<1>6. From(s, Other(e), left) \subseteq Arriving(s, e)
  BY <1>4, <1>5, FromMonotone DEF Arriving
<1> QED
  BY <1>2, <1>6, PacketsMonotone

LEMMA ReceiveRuns ==
    ASSUME NEW s \in Scenarios, Timely(s), NEW e \in Ends, Runs(s, e, remote[e]),
           net[e] \in Seq(Wires(s, e, now)), NEW arriving \in SUBSET Deliverable(e)
    PROVE  Runs(s, e, Receive(e, arriving, ReadingAt(s, e, now)))
<1> DEFINE reading == ReadingAt(s, e, now)
           queue == net[e]
           x == [scenario |-> s, end |-> e, arriving |-> arriving, queue |-> queue, reading |-> reading]
           N == Len(queue)
           first == remote[e]
           IsReceived(f) == f = [k \in 0 .. Len(net[e]) |->
                IF k = 0 THEN remote[e]
                ELSE IF k \in arriving THEN ParseBuffer(e, f[k - 1], net[e][k].packet, reading)
                ELSE f[k - 1]]
           received == CHOOSE f : IsReceived(f)
<1>1. N \in Nat
  BY LenProperties
<1>2. ASSUME NEW k \in 1 .. N, k \in arriving
      PROVE  queue[k].packet \in Packets(Arriving(s, e))
  BY <1>2, ArrivingPackets
<1>3. PICK r : Receiving!IsLoop(r, N, first, x)
  BY <1>1, Receiving!LoopExists
<1>4. IsReceived(r)
  BY <1>3 DEF Receiving!IsLoop, ReceiveNext
<1>5. IsReceived(received)
  BY <1>4
<1>6. Receiving!IsLoop(received, N, first, x)
  BY <1>5 DEF Receiving!IsLoop, ReceiveNext
<1>7. StillRuns(first, 0, x)
  BY DEF StillRuns
<1>8. \A k \in 1 .. N : \A q : StillRuns(q, k - 1, x) => StillRuns(ReceiveNext(q, k, x), k, x)
  BY <1>2, ParseBufferRuns DEF StillRuns, ReceiveNext
<1>9. Receive(e, arriving, reading) = received[N]
  BY DEF Receive
<1> HIDE DEF received
<1>10. \A k \in 0 .. N : StillRuns(received[k], k, x)
  <2> HIDE DEF x, first, N
  <2> QED
    BY <1>1, <1>6, <1>7, <1>8, Receiving!LoopInvariant
<1>11. Runs(s, e, received[N])
  BY <1>1, <1>10 DEF StillRuns
<1> QED
  BY <1>9, <1>11

LEMMA StillOnTheirWayType ==
    ASSUME NEW S, NEW queue \in Seq(S), NEW arriving
    PROVE  StillOnTheirWay(queue, arriving) \in Seq(S)
<1> DEFINE x == [arriving |-> arriving, queue |-> queue, wires |-> S]
           N == Len(queue)
           first == <<>>
           IsRest(f) == f = [k \in 0 .. Len(queue) |->
                IF k = 0 THEN <<>>
                ELSE IF k \in arriving THEN f[k - 1]
                ELSE Append(f[k - 1], queue[k])]
           rest == CHOOSE f : IsRest(f)
<1>1. N \in Nat /\ \A k \in 1 .. N : queue[k] \in S
  BY LenProperties, ElementOfSeq
<1>2. PICK r : Staying!IsLoop(r, N, first, x)
  BY <1>1, Staying!LoopExists
<1>3. IsRest(r)
  BY <1>2 DEF Staying!IsLoop, StayNext
<1>4. IsRest(rest)
  BY <1>3
<1>5. Staying!IsLoop(rest, N, first, x)
  BY <1>4 DEF Staying!IsLoop, StayNext
<1>6. AreWires(first, 0, x)
  BY EmptySeq DEF AreWires
<1>7. \A k \in 1 .. N : \A q : AreWires(q, k - 1, x) => AreWires(StayNext(q, k, x), k, x)
  BY <1>1, AppendProperties DEF AreWires, StayNext
<1>8. StillOnTheirWay(queue, arriving) = rest[N]
  BY DEF StillOnTheirWay
<1> HIDE DEF rest
<1>9. \A k \in 0 .. N : AreWires(rest[k], k, x)
  <2> HIDE DEF x, first, N
  <2> QED
    BY <1>1, <1>5, <1>6, <1>7, Staying!LoopInvariant
<1>10. rest[N] \in Seq(S)
  BY <1>1, <1>9 DEF AreWires
<1> QED
  BY <1>8, <1>10

\* The greatest element of a set of numbers up to n.
LEMMA MaxOfBounded ==
    ASSUME NEW n \in Nat, NEW T \in SUBSET (0 .. n), T # {}
    PROVE  Max(T) \in T /\ \A m \in T : m <= Max(T)
<1> DEFINE D == {d \in Nat : n - d \in T}
<1>1. D \in SUBSET Nat
  OBVIOUS
<1>2. D # {}
  <2>1. PICK m \in T : TRUE
    OBVIOUS
  <2>2. n - m \in D
    BY <2>1
  <2> QED
    BY <2>2
<1>3. PICK d \in D : \A c \in D : ~(c < d)
  <2> HIDE DEF D
  <2> QED
    BY <1>1, <1>2, Acks!LeastElement
<1>4. n - d \in T /\ \A m \in T : m <= n - d
  <2>1. n - d \in T
    BY <1>3
  <2>2. ASSUME NEW m \in T PROVE m <= n - d
    <3>1. n - m \in D
      OBVIOUS
    <3>2. ~(n - m < d)
      BY <1>3, <3>1
    <3> QED
      BY <1>3, <3>2
  <2> QED
    BY <2>1, <2>2
<1> QED
  BY <1>4 DEF Max

\* What the latency faker releases has been held for the latency.
LEMMA ReleasedArrived ==
    ASSUME NEW s \in Scenarios, Timely(s), NEW e \in Ends, NEW entry \in Held(s, e, now),
           ShouldArrive(entry, scenario.latency[e], ReadingAt(s, e, now))
    PROVE  Arrived(s, e, entry.message)
<1>1. PICK heard \in MinDelay .. now :
            /\ entry.m_timeStamp = ReadingAt(s, e, heard)
            /\ entry.message \in From(s, Other(e), heard - MinDelay)
  BY DEF Held
<1> DEFINE latency == s.latency[e]
           p == ReadingAt(s, e, heard)
           q == ReadingAt(s, e, now)
<1>2. p \in Nat /\ q \in Nat /\ p <= q
  <2>1. heard \in 0 .. now
    BY RoundTripAssumption DEF Timely, LastMoment
  <2> QED
    BY <2>1, TimelyReadings
<1>3. latency \in Nat
  BY RoundTripAssumption
<1>4. latency = 0 \/ Since32(q, p) >= latency
  BY <1>1 DEF ShouldArrive, Timely
<1> HIDE DEF latency, p, q
<1>5. latency <= q - p
  <2>1. q \in Int /\ p \in Int /\ q - p \in Nat
    BY <1>2
  <2>2. Since32(q, p) \in 0 .. q - p
    BY <2>1, Since32Span
  <2> QED
    BY <1>3, <1>4, <2>1, <2>2
<1> QED
  BY <1>1, <1>5 DEF Arrived, latency, p, q

RunsSame(p, k, x) == Runs(x.scenario, x.end, p) /\ SameTable(x.peer, p)

Releasing == INSTANCE Loops WITH Step <- ReleaseNext, Holds <- RunsSame

LEMMA ProcessHeldRuns ==
    ASSUME NEW s \in Scenarios, Timely(s), NEW e \in Ends, NEW p, Runs(s, e, p)
    PROVE  LET q == ProcessHeld(e, p, ReadingAt(s, e, now))
           IN  Runs(s, e, q) /\ SameTable(p, q)
<1> DEFINE reading == ReadingAt(s, e, now)
           entries == Held(s, e, now)
           held == p.held
           ready(k) == \A i \in 1 .. k : ShouldArrive(held[i], scenario.latency[e], reading)
           T == {k \in 0 .. Len(held) : ready(k)}
           N == Max(T)
           left == SubSeq(held, N + 1, Len(held))
           first == [p EXCEPT !.held = left]
           x == [scenario |-> s, end |-> e, held |-> held, reading |-> reading, peer |-> p]
           IsProcessed(f) == f = [k \in 0 .. N |->
                IF k = 0 THEN [p EXCEPT !.held = SubSeq(@, N + 1, Len(@))]
                ELSE ProcessMessage(e, f[k - 1], p.held[k].message, reading)]
           processed == CHOOSE f : IsProcessed(f)
<1>1. p \in Remotes(s, e, now)
  BY DEF Runs, Sound
<1>2. held \in Seq(entries)
  BY <1>1 DEF Remotes
<1>3. Len(held) \in Nat /\ \A k \in 1 .. Len(held) : held[k] \in entries
  <2> HIDE DEF held, entries
  <2> QED
    BY <1>2, LenProperties, ElementOfSeq
<1>4. N \in 0 .. Len(held) /\ ready(N)
  <2>1. 0 \in T
    BY <1>3
  <2>2. T \in SUBSET (0 .. Len(held))
    OBVIOUS
  <2> DEFINE K == T
  <2> HIDE DEF K, held
  <2>3. Max(K) \in K
    BY <1>3, <2>1, <2>2, MaxOfBounded DEF K
  <2> QED
    BY <2>3 DEF K
<1>5. ProcessHeld(e, p, reading) = processed[N]
  BY DEF ProcessHeld
<1>6. first = [p EXCEPT !.held = SubSeq(@, N + 1, Len(@))]
  BY <1>1 DEF Remotes
<1> HIDE DEF T
<1>7. left \in Seq(entries)
  <2> HIDE DEF N, entries, held
  <2> QED
    BY <1>3, <1>4, SubSeqProperties
<1>8. Runs(s, e, first) /\ SameTable(p, first)
  <2> HIDE DEF left
  <2>1. first \in Remotes(s, e, now)
    BY <1>1, <1>7 DEF Remotes
  <2>2. /\ first.m_lastMessageTime = p.m_lastMessageTime /\ first.heard = p.heard
        /\ first.timedOut = p.timedOut /\ first.m_rtt = p.m_rtt /\ first.samples = p.samples
        /\ SameTable(p, first)
    BY <1>1 DEF Remotes, SameTable
  <2> HIDE DEF first
  <2> QED
    BY <2>1, <2>2, OthersRun
<1>9. N \in Nat
  BY <1>3, <1>4
<1> HIDE DEF N, left
<1>10. PICK r : Releasing!IsLoop(r, N, first, x)
  BY <1>9, Releasing!LoopExists
<1>11. IsProcessed(r)
  BY <1>6, <1>10 DEF Releasing!IsLoop, ReleaseNext
<1>12. IsProcessed(processed)
  BY <1>11
<1>13. Releasing!IsLoop(processed, N, first, x)
  <2> HIDE DEF processed
  <2> QED
    BY <1>6, <1>12 DEF Releasing!IsLoop, ReleaseNext
<1> HIDE DEF first
<1>14. RunsSame(first, 0, x)
  BY <1>8 DEF RunsSame
<1>15. \A k \in 1 .. N : \A q : RunsSame(q, k - 1, x) => RunsSame(ReleaseNext(q, k, x), k, x)
  <2> TAKE k \in 1 .. N
  <2>1. k \in 1 .. Len(held)
    BY <1>3, <1>4, <1>9
  <2>2. Arrived(s, e, held[k].message)
    BY <1>3, <1>4, <2>1, ReleasedArrived
  <2> QED
    BY <2>2, ProcessMessageRuns, ProcessMessageSame DEF RunsSame, SameTable, ReleaseNext
<1> HIDE DEF processed
<1>16. \A k \in 0 .. N : RunsSame(processed[k], k, x)
  <2> HIDE DEF x
  <2> QED
    BY <1>9, <1>13, <1>14, <1>15, Releasing!LoopInvariant
<1>17. Runs(s, e, processed[N]) /\ SameTable(p, processed[N])
  BY <1>9, <1>16 DEF RunsSame
<1> QED
  BY <1>5, <1>17

-----------------------------------------------------------------------------
\* Where the messages are that are left when one is taken out.
LEMMA RemoveAtPlaces ==
    ASSUME NEW M, NEW messages \in Seq(M), NEW i \in DOMAIN messages
    PROVE  /\ DOMAIN RemoveAt(messages, i) = 1 .. Len(messages) - 1
           /\ \A k \in 1 .. Len(messages) - 1 :
                RemoveAt(messages, i)[k] = messages[IF k < i THEN k ELSE k + 1]
<1> DEFINE n == Len(messages)
           before == SubSeq(messages, 1, i - 1)
           behind == SubSeq(messages, i + 1, n)
           both == before \o behind
<1>1. n \in Nat /\ i \in 1 .. n /\ i \in Int
  BY LenProperties
<1>2. \A k \in 1 .. n : messages[k] \in M
  BY ElementOfSeq
<1>3. /\ before \in Seq(M) /\ Len(before) = i - 1
      /\ \A k \in 1 .. i - 1 : before[k] = messages[k]
  BY <1>1, <1>2, SubSeqProperties
<1>4. /\ behind \in Seq(M) /\ Len(behind) = n - i
      /\ \A k \in 1 .. n - i : behind[k] = messages[i + k]
  BY <1>1, <1>2, SubSeqProperties
<1>5. RemoveAt(messages, i) = both
  BY DEF RemoveAt
<1> HIDE DEF before, behind, n
<1>6. /\ both \in Seq(M) /\ Len(both) = n - 1
      /\ \A k \in 1 .. n - 1 : both[k] = IF k <= i - 1 THEN before[k] ELSE behind[k - (i - 1)]
  <2>1. /\ both \in Seq(M) /\ Len(both) = Len(before) + Len(behind)
        /\ \A k \in 1 .. Len(before) + Len(behind) :
                both[k] = IF k <= Len(before) THEN before[k] ELSE behind[k - Len(before)]
    BY <1>3, <1>4, ConcatProperties
  <2>2. Len(before) + Len(behind) = n - 1
    BY <1>1, <1>3, <1>4
  <2> HIDE DEF both
  <2> QED
    BY <1>3, <2>1, <2>2
<1> HIDE DEF both
<1>7. DOMAIN both = 1 .. n - 1
  BY <1>6, LenProperties
<1>8. ASSUME NEW k \in 1 .. n - 1 PROVE both[k] = messages[IF k < i THEN k ELSE k + 1]
  <2>1. CASE k < i
    <3>1. k \in 1 .. i - 1 /\ k <= i - 1
      BY <1>1, <2>1
    <3> QED
      BY <1>3, <1>6, <2>1, <3>1
  <2>2. CASE ~(k < i)
    <3>1. ~(k <= i - 1) /\ k - (i - 1) \in 1 .. n - i /\ i + (k - (i - 1)) = k + 1
      BY <1>1, <2>2
    <3> QED
      BY <1>4, <1>6, <2>2, <3>1
  <2> QED
    BY <2>1, <2>2
<1> QED
  BY <1>5, <1>7, <1>8 DEF n

\* An acknowledgement takes out just the message with its sequence, if
\* sequences are apart, and leaves them so.
LEMMA AcknowledgeApart ==
    ASSUME NEW M, NEW messages \in Seq(M), Apart(messages), NEW s
    PROVE  /\ Apart(Acknowledge(messages, s))
           /\ ToSet(Acknowledge(messages, s)) = {m \in ToSet(messages) : m.m_sequence # s}
<1> DEFINE found == {i \in DOMAIN messages : messages[i].m_sequence = s}
<1>1. found \subseteq DOMAIN messages /\ found \in SUBSET Nat
  BY LenProperties
<1>2. CASE found = {}
  <2>1. Acknowledge(messages, s) = messages
    BY <1>2 DEF Acknowledge
  <2>2. \A m \in ToSet(messages) : m.m_sequence # s
    BY <1>2 DEF ToSet
  <2> QED
    BY <2>1, <2>2
<1>3. CASE found # {}
  <2> DEFINE i == Min(found)
             n == Len(messages)
             left == RemoveAt(messages, i)
  <2>1. Acknowledge(messages, s) = left
    BY <1>3 DEF Acknowledge
  <2>2. i \in found
    <3> HIDE DEF found
    <3> QED
      BY <1>1, <1>3, MinOfNats
  <2>3. i \in DOMAIN messages /\ messages[i].m_sequence = s
    BY <2>2
  <2> HIDE DEF found, i
  <2>4. /\ DOMAIN left = 1 .. n - 1
        /\ \A k \in 1 .. n - 1 : left[k] = messages[IF k < i THEN k ELSE k + 1]
    BY <2>3, RemoveAtPlaces
  <2>5. n \in Nat /\ DOMAIN messages = 1 .. n
    BY LenProperties
  <2> HIDE DEF left, n
  <2>6. i \in 1 .. n
    BY <2>3, <2>5
  <2>7. ASSUME NEW j \in 1 .. n - 1
        PROVE  (IF j < i THEN j ELSE j + 1) \in 1 .. n /\ (IF j < i THEN j ELSE j + 1) # i
    BY <2>5, <2>6
  <2>8. ASSUME NEW j \in 1 .. n, j # i
        PROVE  \E k \in 1 .. n - 1 : (IF k < i THEN k ELSE k + 1) = j
    <3>1. CASE j < i
      <4>1. j \in 1 .. n - 1
        BY <2>5, <2>6, <3>1
      <4> QED
        BY <3>1, <4>1
    <3>2. CASE j > i
      <4>1. j - 1 \in 1 .. n - 1 /\ ~(j - 1 < i) /\ (j - 1) + 1 = j
        BY <2>5, <2>6, <3>2
      <4> QED
        BY <4>1
    <3> QED
      BY <2>6, <2>8, <3>1, <3>2
  <2>9. Apart(left)
    <3> SUFFICES ASSUME NEW j \in 1 .. n - 1, NEW k \in 1 .. n - 1,
                        left[j].m_sequence = left[k].m_sequence
                 PROVE  j = k
      BY <2>4 DEF Apart
    <3> DEFINE a == IF j < i THEN j ELSE j + 1
               b == IF k < i THEN k ELSE k + 1
    <3>1. a \in 1 .. n /\ b \in 1 .. n
      BY <2>7
    <3>2. messages[a].m_sequence = messages[b].m_sequence
      BY <2>4
    <3>3. a = b
      <4> HIDE DEF a, b
      <4> QED
        BY <2>5, <3>1, <3>2 DEF Apart
    <3> QED
      BY <2>5, <2>6, <3>3
  <2>10. \A m \in ToSet(left) : m \in ToSet(messages) /\ m.m_sequence # s
    <3> SUFFICES ASSUME NEW j \in 1 .. n - 1
                 PROVE  left[j] \in ToSet(messages) /\ left[j].m_sequence # s
      BY <2>4 DEF ToSet
    <3> DEFINE a == IF j < i THEN j ELSE j + 1
    <3>1. a \in 1 .. n /\ a # i
      BY <2>7
    <3>2. left[j] = messages[a]
      BY <2>4
    <3> HIDE DEF a
    <3>3. messages[a] \in ToSet(messages)
      BY <2>5, <3>1 DEF ToSet
    <3>4. messages[a].m_sequence # s
      BY <2>3, <2>5, <2>6, <3>1 DEF Apart
    <3> QED
      BY <3>2, <3>3, <3>4
  <2>11. \A m \in ToSet(messages) : m.m_sequence # s => m \in ToSet(left)
    <3> SUFFICES ASSUME NEW j \in 1 .. n, messages[j].m_sequence # s
                 PROVE  messages[j] \in ToSet(left)
      BY <2>5 DEF ToSet
    <3>1. PICK k \in 1 .. n - 1 : (IF k < i THEN k ELSE k + 1) = j
      BY <2>3, <2>8
    <3> QED
      BY <2>4, <3>1 DEF ToSet
  <2> QED
    BY <2>1, <2>9, <2>10, <2>11
<1> QED
  BY <1>2, <1>3

\* Those that wait are reliable and have a send time each, and no other
\* sequence has one.
Tracked(p) ==
    LET queue == p.tx.m_reliableMessages
    IN  /\ \A m \in ToSet(queue) : IsReliable(m)
        /\ DOMAIN p.m_seqtrackSent = {m.m_sequence : m \in ToSet(queue)}

TrackedOwn(p) == Tracked(p) /\ Own(p.tx.m_reliableMessages)

StillTracked(p, k, x) == Runs(x.scenario, x.end, p) /\ TrackedOwn(p)

AcksTrack == INSTANCE Loops WITH Step <- AckNext, Holds <- StillTracked
ParsingTracks == INSTANCE Loops WITH Step <- ParseNext, Holds <- StillTracked
ReceivingTracks == INSTANCE Loops WITH Step <- ReceiveNext, Holds <- StillTracked

LEMMA SameTableTracked ==
    ASSUME NEW p, NEW q, SameTable(p, q)
    PROVE  /\ Tracked(p) => Tracked(q)
           /\ TrackedOwn(p) => TrackedOwn(q)
BY DEF SameTable, Tracked, TrackedOwn

LEMMA ProcessAckTracked ==
    ASSUME NEW s, NEW e, NEW p, Runs(s, e, p), TrackedOwn(p), NEW sequence, NEW reading
    PROVE  TrackedOwn(ProcessAck(p, sequence, reading))
<1> DEFINE timed == IF sequence \in DOMAIN p.m_seqtrackSent
                    THEN UpdateRTT(p, TimeSinceSent(p, sequence, reading), "Ack")
                    ELSE p
           queue == p.tx.m_reliableMessages
           sent == p.m_seqtrackSent
           q == [timed EXCEPT !.tx.m_reliableMessages = Acknowledge(@, sequence),
                              !.m_seqtrackSent = Forget(@, sequence)]
<1>1. p \in Remotes(s, e, now)
  BY DEF Runs, Sound
<1>2. ProcessAck(p, sequence, reading) \in {p, q}
  BY DEF ProcessAck
<1>3. /\ q.tx.m_reliableMessages = Acknowledge(queue, sequence)
      /\ q.m_seqtrackSent = Forget(sent, sequence)
  BY <1>1 DEF UpdateRTT, Remotes, Senders
<1> HIDE DEF q
<1>4. queue \in Seq(From(s, e, now))
  BY <1>1 DEF Remotes, Senders
<1> HIDE DEF queue, sent
<1>5. /\ \A m \in ToSet(queue) : IsReliable(m)
      /\ DOMAIN sent = {m.m_sequence : m \in ToSet(queue)}
      /\ Apart(queue) /\ \A m \in ToSet(queue) : ~IsFresh(m)
  BY DEF TrackedOwn, Tracked, Own, queue, sent
<1>6. /\ Apart(Acknowledge(queue, sequence))
      /\ ToSet(Acknowledge(queue, sequence)) = {m \in ToSet(queue) : m.m_sequence # sequence}
  BY <1>4, <1>5, AcknowledgeApart
<1>7. DOMAIN Forget(sent, sequence) = DOMAIN sent \ {sequence}
  BY DEF Forget
<1>8. TrackedOwn(q)
  <2>1. \A m \in ToSet(q.tx.m_reliableMessages) : IsReliable(m)
    BY <1>3, <1>5, <1>6
  <2>2. DOMAIN q.m_seqtrackSent = {m.m_sequence : m \in ToSet(q.tx.m_reliableMessages)}
    BY <1>3, <1>5, <1>6, <1>7
  <2>3. Own(q.tx.m_reliableMessages)
    BY <1>3, <1>5, <1>6 DEF Own
  <2> QED
    BY <2>1, <2>2, <2>3 DEF TrackedOwn, Tracked
<1> QED
  BY <1>2, <1>8

LEMMA ProcessAcksTracked ==
    ASSUME NEW s \in Scenarios, Timely(s), NEW e \in Ends, NEW p, Runs(s, e, p),
           TrackedOwn(p), NEW packet
    PROVE  TrackedOwn(ProcessAcks(p, packet, ReadingAt(s, e, now)))
<1> DEFINE reading == ReadingAt(s, e, now)
           x == [scenario |-> s, end |-> e, packet |-> packet, reading |-> reading]
           first == ProcessAck(p, packet.m_ackseq, reading)
           IsAfter(f) == f = [k \in 0 .. AckBits |->
                IF k = 0 THEN ProcessAck(p, packet.m_ackseq, reading)
                ELSE IF k - 1 \in packet.m_ackbits
                     THEN ProcessAck(f[k - 1], Wrap(packet.m_ackseq - k), reading)
                ELSE f[k - 1]]
           after == CHOOSE f : IsAfter(f)
           last == after[AckBits]
<1>1. AckBits \in Nat
  BY SequenceAssumption
<1>2. PICK r : AcksTrack!IsLoop(r, AckBits, first, x)
  BY <1>1, AcksTrack!LoopExists
<1>3. IsAfter(r)
  BY <1>2 DEF AcksTrack!IsLoop, AckNext
<1>4. IsAfter(after)
  BY <1>3
<1>5. AcksTrack!IsLoop(after, AckBits, first, x)
  BY <1>4 DEF AcksTrack!IsLoop, AckNext
<1>6. StillTracked(first, 0, x)
  BY ProcessAckRuns, ProcessAckTracked DEF StillTracked
<1>7. \A k \in 1 .. AckBits : \A q : StillTracked(q, k - 1, x) => StillTracked(AckNext(q, k, x), k, x)
  BY ProcessAckRuns, ProcessAckTracked DEF StillTracked, AckNext
<1>8. ProcessAcks(p, packet, reading) = [last EXCEPT !.m_lastAckTime = reading]
  BY DEF ProcessAcks
<1> HIDE DEF after
<1>9. \A k \in 0 .. AckBits : StillTracked(after[k], k, x)
  <2> HIDE DEF x, first
  <2> QED
    BY <1>1, <1>5, <1>6, <1>7, AcksTrack!LoopInvariant
<1>10. Runs(s, e, last) /\ TrackedOwn(last)
  BY <1>1, <1>9 DEF StillTracked
<1> HIDE DEF last
<1>11. SameTable(last, [last EXCEPT !.m_lastAckTime = reading])
  <2>1. last \in Remotes(s, e, now)
    BY <1>10 DEF Runs, Sound
  <2> QED
    BY <2>1 DEF Remotes, SameTable
<1>12. TrackedOwn([last EXCEPT !.m_lastAckTime = reading])
  BY <1>10, <1>11, SameTableTracked
<1> QED
  BY <1>8, <1>12

LEMMA ParseMessageTracked ==
    ASSUME NEW s \in Scenarios, Timely(s), NEW e \in Ends, NEW p, Runs(s, e, p),
           TrackedOwn(p), NEW message \in Arriving(s, e), NEW reading
    PROVE  TrackedOwn(ParseMessage(e, p, message, reading))
<1> DEFINE rx == AfterSequenceCheck(p.rx, message.m_sequence, IsOrderedOnly(message))
<1>1. rx \in Receivers
  <2>1. p.rx \in Receivers /\ message.m_sequence \in Sequences16
    BY DEF Runs, Sound, Remotes, Arriving, From, AnyMessage
  <2> QED
    BY <2>1, AfterSequenceCheckType
<1>2. SameTable(p, ParseMessage(e, p, message, reading))
  BY <1>1, ParseMessageSame
<1> QED
  BY <1>2, SameTableTracked

LEMMA ParseBufferTracked ==
    ASSUME NEW s \in Scenarios, Timely(s), NEW e \in Ends, NEW p, Runs(s, e, p),
           TrackedOwn(p), NEW packet \in Packets(Arriving(s, e))
    PROVE  TrackedOwn(ParseBuffer(e, p, packet, ReadingAt(s, e, now)))
<1> DEFINE M == Arriving(s, e)
           reading == ReadingAt(s, e, now)
           x == [scenario |-> s, end |-> e, packet |-> packet, reading |-> reading]
           N == Len(packet.messages)
           first == ProcessAcks(p, packet, reading)
           IsParsed(f) == f = [k \in 0 .. Len(packet.messages) |->
                IF k = 0 THEN ProcessAcks(p, packet, reading)
                ELSE ParseMessage(e, f[k - 1], packet.messages[k], reading)]
           parsed == CHOOSE f : IsParsed(f)
<1>1. packet.messages \in Seq(M)
  BY DEF Packets
<1>2. N \in Nat /\ \A k \in 1 .. N : packet.messages[k] \in M
  BY <1>1, LenProperties, ElementOfSeq
<1>3. PICK r : ParsingTracks!IsLoop(r, N, first, x)
  BY <1>2, ParsingTracks!LoopExists
<1>4. IsParsed(r)
  BY <1>3 DEF ParsingTracks!IsLoop, ParseNext
<1>5. IsParsed(parsed)
  BY <1>4
<1>6. ParsingTracks!IsLoop(parsed, N, first, x)
  BY <1>5 DEF ParsingTracks!IsLoop, ParseNext
<1>7. StillTracked(first, 0, x)
  BY ProcessAcksRuns, ProcessAcksTracked DEF StillTracked
<1>8. \A k \in 1 .. N : \A q : StillTracked(q, k - 1, x) => StillTracked(ParseNext(q, k, x), k, x)
  BY <1>2, ParseMessageRuns, ParseMessageTracked DEF StillTracked, ParseNext
<1>9. ParseBuffer(e, p, packet, reading) = parsed[N]
  BY DEF ParseBuffer
<1> HIDE DEF parsed
<1>10. \A k \in 0 .. N : StillTracked(parsed[k], k, x)
  <2> HIDE DEF x, first, N
  <2> QED
    BY <1>2, <1>6, <1>7, <1>8, ParsingTracks!LoopInvariant
<1>11. TrackedOwn(parsed[N])
  BY <1>2, <1>10 DEF StillTracked
<1> QED
  BY <1>9, <1>11

LEMMA ReceiveTracked ==
    ASSUME NEW s \in Scenarios, Timely(s), NEW e \in Ends, Runs(s, e, remote[e]),
           TrackedOwn(remote[e]),
           net[e] \in Seq(Wires(s, e, now)), NEW arriving \in SUBSET Deliverable(e)
    PROVE  TrackedOwn(Receive(e, arriving, ReadingAt(s, e, now)))
<1> DEFINE reading == ReadingAt(s, e, now)
           queue == net[e]
           x == [scenario |-> s, end |-> e, arriving |-> arriving, queue |-> queue, reading |-> reading]
           N == Len(queue)
           first == remote[e]
           IsReceived(f) == f = [k \in 0 .. Len(net[e]) |->
                IF k = 0 THEN remote[e]
                ELSE IF k \in arriving THEN ParseBuffer(e, f[k - 1], net[e][k].packet, reading)
                ELSE f[k - 1]]
           received == CHOOSE f : IsReceived(f)
<1>1. N \in Nat
  BY LenProperties
<1>2. PICK r : ReceivingTracks!IsLoop(r, N, first, x)
  BY <1>1, ReceivingTracks!LoopExists
<1>3. IsReceived(r)
  BY <1>2 DEF ReceivingTracks!IsLoop, ReceiveNext
<1>4. IsReceived(received)
  BY <1>3
<1>5. ReceivingTracks!IsLoop(received, N, first, x)
  BY <1>4 DEF ReceivingTracks!IsLoop, ReceiveNext
<1>6. StillTracked(first, 0, x)
  BY DEF StillTracked
<1>7. \A k \in 1 .. N : \A q : StillTracked(q, k - 1, x) => StillTracked(ReceiveNext(q, k, x), k, x)
  BY ArrivingPackets, ParseBufferRuns, ParseBufferTracked DEF StillTracked, ReceiveNext
<1>8. Receive(e, arriving, reading) = received[N]
  BY DEF Receive
<1> HIDE DEF received
<1>9. \A k \in 0 .. N : StillTracked(received[k], k, x)
  <2> HIDE DEF x, first, N
  <2> QED
    BY <1>1, <1>5, <1>6, <1>7, ReceivingTracks!LoopInvariant
<1>10. TrackedOwn(received[N])
  BY <1>1, <1>9 DEF StillTracked
<1> QED
  BY <1>8, <1>10

-----------------------------------------------------------------------------
\* A peer that timed out was silent for too long.
Lasting(s, e, p) ==
    /\ Sound(s, e, p)
    /\ p.timedOut => Units(now - p.heard) + 1 > ConnectionTimeout

\* The moment is one of a behaviour that began with this scenario.
Scheduled(s) ==
    /\ \E k \in 0 .. MaxFrames : now = k * FrameTime
    /\ DOMAIN scenario = {"first", "latency", "messages", "frames", "losses", "stalls", "endures"}
    /\ scenario.first = s.first
    /\ scenario.latency = s.latency

Going(s) ==
    /\ Scheduled(s)
    /\ DOMAIN remote = Ends /\ DOMAIN net = Ends
    /\ \A e \in Ends : Lasting(s, e, remote[e]) /\ net[e] \in Seq(Wires(s, e, now))

IInv == \E s \in Scenarios : Going(s)

LEMMA ScheduledTimely ==
    ASSUME Platform = "windows", NEW s, Scheduled(s) PROVE Timely(s)
<1>1. PICK k \in 0 .. MaxFrames : now = k * FrameTime
  BY DEF Scheduled
<1>2. MaxFrames \in Nat /\ FrameTime \in Nat
  BY RoundTripAssumption
<1>3. k \in Nat /\ k <= MaxFrames
  BY <1>2
<1>4. k * FrameTime <= MaxFrames * FrameTime
  BY <1>2, <1>3
<1>5. k * FrameTime \in Nat /\ MaxFrames * FrameTime \in Nat
  BY <1>2, <1>3
<1>6. now \in 0 .. LastMoment
  BY <1>1, <1>4, <1>5 DEF LastMoment
<1> QED
  BY <1>6 DEF Timely, Scheduled

\* The timers give up a peer only after it was silent for s_connectionTimeout.
LEMMA UpdatePeerLasts ==
    ASSUME NEW s \in Scenarios, Timely(s), NEW e \in Ends, NEW p, Runs(s, e, p)
    PROVE  LET q == UpdatePeer(e, p, ReadingAt(s, e, now))
           IN  Lasting(s, e, q) /\ (~q.timedOut => Runs(s, e, q))
<1> DEFINE reading == ReadingAt(s, e, now)
           expired == [p EXCEPT !.timedOut = TRUE]
           asked == [p EXCEPT !.tx = EnqueueMessage(@, KeepAlive(e, reading))]
           q == UpdatePeer(e, p, reading)
<1>1. p \in Remotes(s, e, now) /\ ~p.timedOut
  BY DEF Runs, Sound
<1>2. /\ LastMoment \in Nat /\ now \in Nat /\ now <= LastMoment /\ now \in 0 .. now
  BY RoundTripAssumption DEF Timely, LastMoment
<1>3. reading \in Nat
  BY <1>2, TimelyReadings
<1>4. ASSUME Since(reading, p.m_lastMessageTime) > ConnectionTimeout
      PROVE  Lasting(s, e, expired)
  <2>1. p.heard \in 0 .. now /\ p.m_lastMessageTime = ReadingAt(s, e, p.heard)
    BY <1>1 DEF Runs, Sound, Remotes
  <2> DEFINE heard == p.heard
             stamp == ReadingAt(s, e, heard)
             silent == now - heard
  <2>2. heard \in 0 .. LastMoment /\ now \in heard .. LastMoment
    BY <1>2, <2>1
  <2>3. /\ Since(reading, stamp) = reading - stamp
        /\ reading - stamp <= Units(silent) + 1
        /\ reading \in Nat /\ stamp \in Nat /\ Units(silent) \in Nat
    BY <2>2, ReadingsInOrder DEF Timely
  <2>4. ConnectionTimeout \in Nat
    BY RoundTripAssumption
  <2>5. Since(reading, stamp) > ConnectionTimeout
    BY <1>4, <2>1
  <2> HIDE DEF reading, stamp, silent
  <2>6. Units(silent) + 1 > ConnectionTimeout
    BY <2>3, <2>4, <2>5
  <2>7. expired \in Remotes(s, e, now)
    BY <1>1 DEF Remotes
  <2>8. /\ expired.m_lastMessageTime = p.m_lastMessageTime /\ expired.heard = p.heard
        /\ expired.m_rtt = p.m_rtt /\ expired.samples = p.samples
    BY <1>1 DEF Remotes
  <2> HIDE DEF expired
  <2>9. Averaged(expired)
    BY <2>8 DEF Runs, Sound, Averaged, Measured, Short
  <2> QED
    BY <2>1, <2>6, <2>7, <2>8, <2>9 DEF Lasting, Sound, silent
<1>5. Runs(s, e, [asked EXCEPT !.m_lastAckTime = reading])
  <2>1. Runs(s, e, asked)
    BY AskType, EnqueueRuns
  <2> HIDE DEF asked
  <2>2. asked \in Remotes(s, e, now)
    BY <2>1 DEF Runs, Sound
  <2> DEFINE r == [asked EXCEPT !.m_lastAckTime = reading]
  <2> HIDE DEF reading
  <2>3. reading \in 0 .. reading
    BY <1>3
  <2>4. r \in Remotes(s, e, now)
    BY <2>2, <2>3 DEF Remotes, reading
  <2>5. /\ r.m_lastMessageTime = asked.m_lastMessageTime /\ r.heard = asked.heard
        /\ r.timedOut = asked.timedOut /\ r.m_rtt = asked.m_rtt /\ r.samples = asked.samples
    BY <2>2 DEF Remotes
  <2> HIDE DEF r
  <2>6. Runs(s, e, r)
    BY <2>1, <2>4, <2>5, OthersRun
  <2> QED
    BY <2>6 DEF r
<1>6. CASE Since(reading, p.m_lastMessageTime) > ConnectionTimeout
  <2>1. q = expired
    BY <1>6 DEF UpdatePeer
  <2>2. expired.timedOut
    BY <1>1 DEF Remotes
  <2> HIDE DEF q, expired
  <2> QED
    BY <1>4, <1>6, <2>1, <2>2 DEF q
<1>7. CASE ~(Since(reading, p.m_lastMessageTime) > ConnectionTimeout)
  <2>1. q \in {p, [asked EXCEPT !.m_lastAckTime = reading]}
    BY <1>1, <1>7 DEF UpdatePeer, Remotes
  <2> HIDE DEF q, asked
  <2>2. Runs(s, e, q)
    BY <1>5, <2>1
  <2> QED
    BY <2>2 DEF Lasting, Runs, q
<1> QED
  BY <1>6, <1>7

\* The timers do not touch the send times or the reliable messages.
LEMMA UpdatePeerSame ==
    ASSUME NEW s, NEW e, NEW p, Runs(s, e, p), NEW reading
    PROVE  SameTable(p, UpdatePeer(e, p, reading))
<1>1. p \in Remotes(s, e, now)
  BY DEF Runs, Sound
<1> QED
  BY <1>1 DEF UpdatePeer, EnqueueMessage, Remotes, Senders, SameTable

\* Sending gives the reliable messages of the packet a send time; the one that
\* goes out again keeps its sequence, and leaves no time behind.
LEMMA AfterPacketTracked ==
    ASSUME NEW s, NEW e, NEW p, Runs(s, e, p), TrackedOwn(p), NEW reading
    PROVE  Tracked(AfterPacket(p, BuildPacket(p.tx, p.rx), reading))
<1> DEFINE M == From(s, e, now)
           tx == p.tx
           queue == tx.m_reliableMessages
           packet == BuildPacket(tx, p.rx)
           messages == packet.messages
           reliable == {m \in ToSet(messages) : IsReliable(m)}
           r == Len(OldestReliable(tx))
           rest == SubSeq(queue, r + 1, Len(queue))
           q == AfterPacket(p, packet, reading)
<1>1. p \in Remotes(s, e, now)
  BY DEF Runs, Sound
<1>2. tx \in Senders(M) /\ p.rx \in Receivers /\ queue \in Seq(M)
  BY <1>1 DEF Remotes, Senders
<1>3. messages \in Seq(M) /\ Len(messages) = Len(PacketMessages(tx))
  <2>1. Renumbered(M)
    BY FromRenumbered
  <2> HIDE DEF M, tx
  <2>2. packet \in Packets(M) /\ Len(messages) = Len(PacketMessages(tx))
    BY <1>2, <2>1, BuildPacketType
  <2> QED
    BY <2>2 DEF Packets
<1>4. /\ q.tx = AfterSend(tx, packet)
      /\ DOMAIN q.m_seqtrackSent = DOMAIN p.m_seqtrackSent \cup {m.m_sequence : m \in reliable}
  BY <1>1 DEF AfterPacket, Remotes
<1>5. /\ \A m \in ToSet(queue) : IsReliable(m) /\ ~IsFresh(m)
      /\ DOMAIN p.m_seqtrackSent = {m.m_sequence : m \in ToSet(queue)}
  BY DEF TrackedOwn, Tracked, Own
<1>6. messages = GenerateMessageHeaders(PacketMessages(tx), tx.m_sequenceOut)
  BY DEF BuildPacket
<1> HIDE DEF M, tx, packet, q
<1>7. PICK requeued \in Seq(M) :
        /\ AfterSend(tx, packet).m_reliableMessages = requeued
        /\ ToSet(requeued) = ToSet(rest) \cup reliable
  BY <1>2, <1>3, AfterSendEffect
<1> HIDE DEF rest
<1>8. ToSet(queue) \subseteq ToSet(rest) \cup reliable /\ ToSet(rest) \subseteq ToSet(queue)
  <2>1. Len(queue) \in Nat /\ DOMAIN queue = 1 .. Len(queue) /\ r \in 0 .. Len(queue)
    BY <1>2, LenProperties, OldestReliableType
  <2>2. \A j \in 1 .. Len(queue) : queue[j] \in M
    BY <1>2, ElementOfSeq
  <2> HIDE DEF r, queue
  <2>3. /\ rest \in Seq(M) /\ Len(rest) = Len(queue) - r
        /\ \A k \in 1 .. Len(queue) - r : rest[k] = queue[r + k]
    <3> DEFINE n == Len(queue)
    <3>1. \A k \in r + 1 .. n : queue[k] \in M
      BY <2>1, <2>2
    <3>2. /\ SubSeq(queue, r + 1, n) \in Seq(M) /\ Len(SubSeq(queue, r + 1, n)) = n - (r + 1) + 1
          /\ \A k \in 1 .. n - (r + 1) + 1 : SubSeq(queue, r + 1, n)[k] = queue[(r + 1) + k - 1]
      <4> HIDE DEF n
      <4>1. n \in Nat /\ r \in 0 .. n
        BY <2>1 DEF n
      <4>2. r + 1 \in 1 .. n + 1 /\ n \in r .. n
        BY <4>1
      <4> QED
        BY <3>1, <4>1, <4>2, SubSeqProperties
    <3>3. n - (r + 1) + 1 = n - r /\ \A k \in 1 .. n - r : (r + 1) + k - 1 = r + k
      BY <2>1
    <3>4. rest = SubSeq(queue, r + 1, n)
      BY DEF rest
    <3> HIDE DEF n
    <3>5. rest \in Seq(M) /\ Len(rest) = n - r /\ \A k \in 1 .. n - r : rest[k] = queue[r + k]
      BY <3>2, <3>3, <3>4
    <3> QED
      BY <3>5 DEF n
  <2>4. DOMAIN rest = 1 .. Len(queue) - r
    BY <2>3, LenProperties
  <2>5. ToSet(rest) \subseteq ToSet(queue)
    <3> SUFFICES ASSUME NEW k \in 1 .. Len(queue) - r PROVE rest[k] \in ToSet(queue)
      BY <2>4 DEF ToSet
    <3>1. r + k \in 1 .. Len(queue)
      BY <2>1
    <3> QED
      BY <2>1, <2>3, <3>1 DEF ToSet
  <2>6. /\ r \in {0, 1}
        /\ r = 0 => queue = <<>>
        /\ r = 1 => queue # <<>> /\ PacketMessages(tx)[1] = Head(queue)
    BY <1>2, PacketMessagesAt DEF r, queue
  <2>7. ASSUME NEW j \in 1 .. Len(queue) PROVE queue[j] \in ToSet(rest) \cup reliable
    <3>1. r = 1
      <4>1. queue = <<>> => Len(queue) = 0
        BY DEF queue
      <4> QED
        BY <2>1, <2>6, <4>1
    <3>2. CASE j = 1
      <4>1. Head(queue) = queue[1] /\ PacketMessages(tx)[1] = queue[1]
        BY <1>2, <2>6, <3>1 DEF queue
      <4>2. queue[1] \in ToSet(queue)
        BY <2>1, <3>2 DEF ToSet
      <4>3. 1 \in DOMAIN PacketMessages(tx)
        <5>1. /\ PacketMessages(tx) \in Seq(M)
              /\ Len(PacketMessages(tx)) = r + PendingTaken(tx)
              /\ PendingTaken(tx) \in 0 .. Len(tx.m_pendingMessages)
          BY <1>2, PacketMessagesType, PendingTakenType DEF r
        <5>2. Len(tx.m_pendingMessages) \in Nat
          BY <1>2, LenProperties DEF Senders
        <5>3. Len(PacketMessages(tx)) \in Nat /\ 1 <= Len(PacketMessages(tx))
          BY <3>1, <5>1, <5>2
        <5> QED
          BY <5>1, <5>3, LenProperties
      <4>4. messages[1] = queue[1] /\ 1 \in DOMAIN messages
        BY <1>5, <1>6, <4>1, <4>2, <4>3 DEF GenerateMessageHeaders, queue
      <4> QED
        BY <1>5, <3>2, <4>2, <4>4 DEF ToSet, queue
    <3>3. CASE j # 1
      <4>1. j - 1 \in 1 .. Len(queue) - r /\ r + (j - 1) = j
        BY <2>1, <3>1, <3>3
      <4> QED
        BY <2>3, <2>4, <4>1 DEF ToSet
    <3> QED
      BY <3>2, <3>3
  <2>8. ToSet(queue) \subseteq ToSet(rest) \cup reliable
    BY <2>1, <2>7 DEF ToSet
  <2> QED
    BY <2>5, <2>8 DEF queue
<1> HIDE DEF queue, reliable
<1>9. \A m \in ToSet(requeued) : IsReliable(m)
  BY <1>5, <1>7, <1>8 DEF reliable
<1>10. DOMAIN q.m_seqtrackSent = {m.m_sequence : m \in ToSet(requeued)}
  BY <1>4, <1>5, <1>7, <1>8
<1>11. q.tx.m_reliableMessages = requeued
  BY <1>4, <1>7
<1>12. Tracked(q)
  BY <1>9, <1>10, <1>11 DEF Tracked
<1> QED
  BY <1>12 DEF q, packet, tx

LEMMA AfterPacketRuns ==
    ASSUME NEW s \in Scenarios, Timely(s), NEW e \in Ends, NEW p, Runs(s, e, p)
    PROVE  LET packet == BuildPacket(p.tx, p.rx)
           IN  /\ packet \in Packets(From(s, e, now))
               /\ Runs(s, e, AfterPacket(p, packet, ReadingAt(s, e, now)))
<1> DEFINE M == From(s, e, now)
           reading == ReadingAt(s, e, now)
           first == ReadingAt(s, e, Start)
           times == first .. reading
           packet == BuildPacket(p.tx, p.rx)
           reliable == {m.m_sequence : m \in {n \in ToSet(packet.messages) : IsReliable(n)}}
           old == p.m_seqtrackSent
           sent == [n \in DOMAIN old \cup reliable |-> IF n \in reliable THEN reading ELSE old[n]]
           tx == AfterSend(p.tx, packet)
           doubtful == p.doubtful \/ p.tx.m_reliableMessages # <<>>
           q == [[[[p EXCEPT !.tx = tx] EXCEPT !.m_seqtrackSent = sent]
                    EXCEPT !.m_lastSend = reading] EXCEPT !.doubtful = doubtful]
<1>1. p \in Remotes(s, e, now)
  BY DEF Runs, Sound
<1>2. p.tx \in Senders(M) /\ p.rx \in Receivers
  BY <1>1 DEF Remotes
<1>3. packet \in Packets(M) /\ Len(packet.messages) = Len(PacketMessages(p.tx))
  <2>1. Renumbered(M)
    BY FromRenumbered
  <2> HIDE DEF M
  <2> QED
    BY <1>2, <2>1, BuildPacketType
<1>4. AfterPacket(p, packet, reading) = q
  BY <1>1 DEF AfterPacket, Remotes
<1> HIDE DEF packet
<1>5. tx \in Senders(M)
  <2> HIDE DEF M
  <2> QED
    BY <1>2, <1>3, AfterSendType
<1>6. reliable \subseteq Sequences16
  <2>1. packet.messages \in Seq(M)
    BY <1>3 DEF Packets
  <2> HIDE DEF M
  <2>2. \A i \in DOMAIN packet.messages : packet.messages[i] \in M
    BY <2>1, ElementOfSeq, LenProperties
  <2>3. \A m \in M : m.m_sequence \in Sequences16
    BY DEF M, From, AnyMessage
  <2>4. \A m \in ToSet(packet.messages) : m.m_sequence \in Sequences16
    BY <2>2, <2>3 DEF ToSet
  <2> QED
    BY <2>4
<1>7. first \in Nat /\ reading \in Nat /\ first <= reading
  <2>1. Start \in 0 .. now
    BY RoundTripAssumption DEF Timely, LastMoment, Start
  <2> QED
    BY <2>1, TimelyReadings
<1> HIDE DEF first, reading
<1>8. reading \in 0 .. reading /\ reading \in times
  BY <1>7
<1> HIDE DEF times
<1>9. sent \in PartialFunctions(Sequences16, times)
  <2>1. old \in PartialFunctions(Sequences16, times)
    BY <1>1 DEF Remotes, times, first, reading
  <2> HIDE DEF old, reliable
  <2>2. DOMAIN old \subseteq Sequences16 /\ old \in [DOMAIN old -> times]
    BY <2>1, PartialFunctionsType
  <2>3. /\ sent \in [DOMAIN old \cup reliable -> times]
        /\ DOMAIN old \cup reliable \in SUBSET Sequences16
    BY <1>6, <1>8, <2>2
  <2> HIDE DEF sent
  <2> QED
    BY <2>3 DEF PartialFunctions
<1>10. doubtful \in BOOLEAN
  BY <1>1 DEF Remotes
<1> HIDE DEF M, sent, tx, doubtful
<1>11. q \in Remotes(s, e, now)
  <2> DEFINE a == [p EXCEPT !.tx = tx]
             b == [a EXCEPT !.m_seqtrackSent = sent]
             c == [b EXCEPT !.m_lastSend = reading]
  <2>1. a \in Remotes(s, e, now)
    BY <1>1, <1>5 DEF Remotes, M
  <2> HIDE DEF a
  <2>2. b \in Remotes(s, e, now)
    BY <1>9, <2>1 DEF Remotes, times, first, reading
  <2> HIDE DEF b
  <2>3. c \in Remotes(s, e, now)
    BY <1>8, <2>2 DEF Remotes, reading
  <2> HIDE DEF c
  <2>4. [c EXCEPT !.doubtful = doubtful] \in Remotes(s, e, now)
    BY <1>10, <2>3 DEF Remotes
  <2> QED
    BY <2>4 DEF a, b, c
<1>12. /\ q.m_lastMessageTime = p.m_lastMessageTime /\ q.heard = p.heard
       /\ q.timedOut = p.timedOut /\ q.m_rtt = p.m_rtt /\ q.samples = p.samples
  BY <1>1 DEF Remotes
<1> HIDE DEF q
<1>13. Runs(s, e, q)
  BY <1>11, <1>12, OthersRun
<1> QED
  BY <1>3, <1>4, <1>13 DEF M, reading, packet

-----------------------------------------------------------------------------
\* What a step does without time passing.
LEMMA SameMoment ==
    ASSUME NEW s \in Scenarios, Scheduled(s), now' = now, DOMAIN scenario' = DOMAIN scenario,
           scenario'.first = scenario.first, scenario'.latency = scenario.latency,
           DOMAIN remote' = Ends, DOMAIN net' = Ends,
           \A e \in Ends : Lasting(s, e, remote'[e]) /\ net'[e] \in Seq(Wires(s, e, now))
    PROVE  IInv'
<1>1. Scheduled(s)'
  BY DEF Scheduled
<1>2. ASSUME NEW e \in Ends PROVE Lasting(s, e, remote[e])'
  BY DEF Lasting, Sound
<1>3. ASSUME NEW e \in Ends PROVE (net[e] \in Seq(Wires(s, e, now)))'
  OBVIOUS
<1>4. Going(s)'
  BY <1>1, <1>2, <1>3 DEF Going
<1> QED
  BY <1>4 DEF IInv

LEMMA InitIInv == ASSUME Platform = "windows", Init PROVE IInv
<1> DEFINE s == scenario
<1>1. s \in Scenarios /\ now = 0 /\ Start = 0
  BY DEF Init, Start
<1>2. Scheduled(s)
  <2>1. 0 \in 0 .. MaxFrames /\ 0 * FrameTime = 0
    BY RoundTripAssumption
  <2> QED
    BY <1>1, <2>1, RoundTripAssumption DEF Scheduled
<1> HIDE DEF s
<1>3. Timely(s)
  BY <1>2, ScheduledTimely
<1>4. DOMAIN remote = Ends /\ DOMAIN net = Ends
  BY DEF Init
<1>5. ASSUME NEW e \in Ends PROVE net[e] \in Seq(Wires(s, e, now))
  BY EmptySeq DEF Init
<1>6. ASSUME NEW e \in Ends PROVE Lasting(s, e, remote[e])
  <2> DEFINE M == From(s, e, now)
             reading == ReadingAt(s, e, now)
             p == remote[e]
  <2>1. p = NewRemotePeer(reading)
    BY <1>1 DEF Init, ReadingAt, s
  <2>2. reading \in Nat
    <3>1. now \in 0 .. now
      BY <1>1
    <3> QED
      BY <1>1, <1>3, <3>1, TimelyReadings
  <2>3. /\ Sender(1) \in Senders(M) /\ NewReceiver \in Receivers
        /\ <<>> \in Seq(Held(s, e, now))
        /\ <<>> \in PartialFunctions(Sequences16, ReadingAt(s, e, Start) .. ReadingAt(s, e, now))
    BY SenderType, NewReceiverType, EmptySeq, EmptyPartialFunction
  <2>4. 0 \in 0 .. HalfWord - 1 /\ 0 \in 0 .. now /\ {} \in SUBSET Samples(s, now)
    BY <1>1, ClockAssumption
  <2> HIDE DEF M, reading, p
  <2>5. 0 \in 0 .. reading /\ reading \in 0 .. reading
    BY <2>2
  <2>6. p \in Remotes(s, e, now)
    BY <2>1, <2>3, <2>4, <2>5, Zenon DEF NewRemotePeer, Remotes, Start, M, reading
  <2>7. /\ p.m_lastMessageTime = reading /\ p.heard = 0 /\ ~p.timedOut
        /\ p.samples = {} /\ p.m_rtt = 0
    BY <2>1 DEF NewRemotePeer, Start
  <2>8. Averaged(p)
    BY <2>7 DEF Averaged, Measured
  <2> QED
    BY <1>1, <2>6, <2>7, <2>8 DEF Lasting, Sound, reading, p
<1>7. Going(s)
  BY <1>2, <1>4, <1>5, <1>6 DEF Going
<1> QED
  BY <1>1, <1>7 DEF IInv

LEMMA UpdateNetworkKeeps ==
    ASSUME Platform = "windows", NEW s \in Scenarios, Going(s), NEW e \in Ends, UpdateNetwork(e)
    PROVE  /\ IInv'
           /\ TrackedOwn(remote[e]) => Tracked(remote'[e])
           /\ \A f \in Ends \ {e} : remote'[f] = remote[f]
<1>1. PICK arriving \in SUBSET Deliverable(e) :
        LET reading_1 == Reading(e)
            received == Receive(e, arriving, reading_1)
            updated == UpdatePeer(e, ProcessHeld(e, received, reading_1), reading_1)
            packet == BuildPacket(updated.tx, updated.rx)
            rest == [net EXCEPT ![e] = StillOnTheirWay(@, arriving)]
        IN  /\ Overdue(e) \subseteq arriving
            /\ IF IsDue(updated, reading_1)
               THEN /\ remote' = [remote EXCEPT ![e] = AfterPacket(updated, packet, reading_1)]
                    /\ net' = [rest EXCEPT ![Other(e)] =
                                    Append(@, [packet |-> packet, left |-> now])]
               ELSE /\ remote' = [remote EXCEPT ![e] = updated]
                    /\ net' = rest
  BY Zenon DEF UpdateNetwork
<1> DEFINE reading == ReadingAt(s, e, now)
           received == Receive(e, arriving, reading)
           processed == ProcessHeld(e, received, reading)
           updated == UpdatePeer(e, processed, reading)
           packet == BuildPacket(updated.tx, updated.rx)
           rest == [net EXCEPT ![e] = StillOnTheirWay(@, arriving)]
           sent == AfterPacket(updated, packet, reading)
           wire == [packet |-> packet, left |-> now]
           o == Other(e)
<1>2. /\ Scheduled(s) /\ Timely(s) /\ DOMAIN remote = Ends /\ DOMAIN net = Ends
      /\ \A f \in Ends : Lasting(s, f, remote[f]) /\ net[f] \in Seq(Wires(s, f, now))
  BY ScheduledTimely DEF Going
<1>3. Runs(s, e, remote[e])
  BY <1>2 DEF UpdateNetwork, Lasting, Runs
<1>4. /\ Runs(s, e, received)
      /\ TrackedOwn(remote[e]) => TrackedOwn(received)
  BY <1>2, <1>3, ReceiveRuns, ReceiveTracked
<1>5. Reading(e) = reading /\ now \in 0 .. now
  <2>1. now \in 0 .. now
    BY <1>2, RoundTripAssumption DEF Timely, LastMoment
  <2> QED
    BY <1>2, <2>1, TimelyReadings
<1> HIDE DEF received
<1>6. Runs(s, e, processed) /\ SameTable(received, processed)
  BY <1>2, <1>4, ProcessHeldRuns
<1> HIDE DEF processed
<1>7. Lasting(s, e, updated) /\ (~updated.timedOut => Runs(s, e, updated))
  BY <1>2, <1>6, UpdatePeerLasts
<1>14. TrackedOwn(remote[e]) => TrackedOwn(updated)
  <2>1. SameTable(processed, updated)
    BY <1>6, UpdatePeerSame
  <2> HIDE DEF updated
  <2> QED
    BY <1>4, <1>6, <2>1, SameTableTracked
<1>8. \/ remote' = [remote EXCEPT ![e] = updated] /\ net' = rest
      \/ /\ ~updated.timedOut
         /\ remote' = [remote EXCEPT ![e] = sent]
         /\ net' = [rest EXCEPT ![o] = Append(@, wire)]
  BY <1>1, <1>5, Zenon DEF IsDue, received, processed
<1> HIDE DEF updated
<1>15. ~updated.timedOut /\ TrackedOwn(updated) => Tracked(sent)
  BY <1>7, AfterPacketTracked
<1>9. ~updated.timedOut => Lasting(s, e, sent) /\ packet \in Packets(From(s, e, now))
  <2>1. SUFFICES ASSUME ~updated.timedOut
                 PROVE  Lasting(s, e, sent) /\ packet \in Packets(From(s, e, now))
    OBVIOUS
  <2>2. Runs(s, e, sent) /\ packet \in Packets(From(s, e, now))
    BY <1>2, <1>7, <2>1, AfterPacketRuns
  <2> QED
    BY <2>2 DEF Lasting, Runs
<1> HIDE DEF sent, packet
<1>10. DOMAIN rest = Ends /\ \A f \in Ends : rest[f] \in Seq(Wires(s, f, now))
  <2>1. StillOnTheirWay(net[e], arriving) \in Seq(Wires(s, e, now))
    BY <1>2, StillOnTheirWayType
  <2> QED
    BY <1>2, <2>1
<1>11. o \in Ends /\ Other(o) = e
  BY DEF Other, Ends
<1>12. /\ DOMAIN remote' = Ends /\ DOMAIN net' = Ends
       /\ \A f \in Ends : Lasting(s, f, remote'[f]) /\ net'[f] \in Seq(Wires(s, f, now))
  <2> HIDE DEF rest, o
  <2>1. CASE remote' = [remote EXCEPT ![e] = updated] /\ net' = rest
    BY <1>2, <1>7, <1>10, <2>1
  <2>2. CASE /\ ~updated.timedOut
             /\ remote' = [remote EXCEPT ![e] = sent]
             /\ net' = [rest EXCEPT ![o] = Append(@, wire)]
    <3>1. wire \in Wires(s, o, now)
      <4>1. packet \in Packets(AnyMessage)
        <5>1. From(s, e, now) \subseteq AnyMessage
          BY DEF From
        <5> QED
          BY <1>9, <2>2, <5>1, PacketsMonotone
      <4> QED
        BY <1>5, <1>9, <1>11, <2>2, <4>1 DEF Wires
    <3> HIDE DEF wire
    <3>2. Append(rest[o], wire) \in Seq(Wires(s, o, now))
      BY <1>10, <1>11, <3>1, AppendProperties
    <3>3. DOMAIN net' = Ends /\ \A f \in Ends : net'[f] \in Seq(Wires(s, f, now))
      BY <1>10, <2>2, <3>2
    <3>4. DOMAIN remote' = Ends /\ \A f \in Ends : Lasting(s, f, remote'[f])
      BY <1>2, <1>9, <2>2
    <3> QED
      BY <3>3, <3>4
  <2> QED
    BY <1>8, <2>1, <2>2
<1>13. now' = now /\ scenario' = scenario
  BY DEF UpdateNetwork
<1>16. IInv'
  BY <1>2, <1>12, <1>13, SameMoment
<1>17. TrackedOwn(remote[e]) => Tracked(remote'[e])
  BY <1>2, <1>8, <1>14, <1>15 DEF TrackedOwn
<1>18. \A f \in Ends \ {e} : remote'[f] = remote[f]
  BY <1>2, <1>8
<1> QED
  BY <1>16, <1>17, <1>18

LEMMA SendToKeeps ==
    ASSUME Platform = "windows", NEW s \in Scenarios, Going(s), NEW e \in Ends, SendTo(e)
    PROVE  IInv'
<1> DEFINE q == [remote[e] EXCEPT !.tx = EnqueueMessage(@, GameMessage(e))]
<1>1. /\ Scheduled(s) /\ DOMAIN remote = Ends /\ DOMAIN net = Ends
      /\ \A f \in Ends : Lasting(s, f, remote[f]) /\ net[f] \in Seq(Wires(s, f, now))
  BY DEF Going
<1>2. Runs(s, e, remote[e])
  BY <1>1 DEF SendTo, Lasting, Runs
<1>3. GameMessage(e) \in From(s, e, now)
  <2>1. 0 \in Sequences16
    BY SequenceAssumption DEF Sequences16, Modulus
  <2> QED
    BY <2>1 DEF GameMessage, From, AnyMessage
<1>4. Runs(s, e, q)
  BY <1>2, <1>3, EnqueueRuns
<1>5. remote' = [remote EXCEPT ![e] = q]
  <2>1. remote[e] \in Remotes(s, e, now)
    BY <1>2 DEF Runs, Sound
  <2> QED
    BY <1>1, <2>1 DEF SendTo
<1> HIDE DEF q
<1>6. DOMAIN remote' = Ends /\ \A f \in Ends : Lasting(s, f, remote'[f])
  BY <1>1, <1>4, <1>5 DEF Lasting, Runs
<1>7. now' = now /\ net' = net
  BY DEF SendTo
<1>8. /\ DOMAIN scenario' = DOMAIN scenario /\ scenario'.first = scenario.first
      /\ scenario'.latency = scenario.latency
  BY <1>1 DEF SendTo, Scheduled
<1> QED
  BY <1>1, <1>6, <1>7, <1>8, SameMoment

LEMMA LoseKeeps ==
    ASSUME NEW s \in Scenarios, Going(s), NEW e \in Ends, Lose(e)
    PROVE  IInv'
<1>1. /\ Scheduled(s) /\ DOMAIN remote = Ends /\ DOMAIN net = Ends
      /\ \A f \in Ends : Lasting(s, f, remote[f]) /\ net[f] \in Seq(Wires(s, f, now))
  BY DEF Going
<1>2. PICK i \in DOMAIN net[e] : net' = [net EXCEPT ![e] = RemoveAt(@, i)]
  BY DEF Lose
<1>3. RemoveAt(net[e], i) \in Seq(Wires(s, e, now))
  BY <1>1, RemoveAtType
<1>4. DOMAIN net' = Ends /\ \A f \in Ends : net'[f] \in Seq(Wires(s, f, now))
  BY <1>1, <1>2, <1>3
<1>5. now' = now /\ remote' = remote
  BY DEF Lose
<1>6. /\ DOMAIN scenario' = DOMAIN scenario /\ scenario'.first = scenario.first
      /\ scenario'.latency = scenario.latency
  BY <1>1 DEF Lose, Scheduled
<1> QED
  BY <1>1, <1>4, <1>5, <1>6, SameMoment

LEMMA StallKeeps ==
    ASSUME NEW s \in Scenarios, Going(s), NEW e \in Ends, Stall(e)
    PROVE  IInv'
<1>1. /\ Scheduled(s) /\ DOMAIN remote = Ends /\ DOMAIN net = Ends
      /\ \A f \in Ends : Lasting(s, f, remote[f]) /\ net[f] \in Seq(Wires(s, f, now))
  BY DEF Going
<1>2. now' = now /\ remote' = remote /\ net' = net
  BY DEF Stall
<1>3. /\ DOMAIN scenario' = DOMAIN scenario /\ scenario'.first = scenario.first
      /\ scenario'.latency = scenario.latency
  BY <1>1 DEF Stall, Scheduled
<1> QED
  BY <1>1, <1>2, <1>3, SameMoment

\* Time passes: what came before stays before.
LEMMA TickKeeps ==
    ASSUME Platform = "windows", NEW s \in Scenarios, Going(s), Tick
    PROVE  IInv'
<1>1. /\ Scheduled(s) /\ Timely(s) /\ DOMAIN remote = Ends /\ DOMAIN net = Ends
      /\ \A f \in Ends : Lasting(s, f, remote[f]) /\ net[f] \in Seq(Wires(s, f, now))
  BY ScheduledTimely DEF Going
<1>2. /\ now < MaxFrames * FrameTime /\ now' = now + FrameTime
      /\ scenario' = scenario /\ remote' = remote /\ net' = net
  BY DEF Tick
<1>3. MaxFrames \in Nat /\ FrameTime \in Nat /\ FrameTime > 0
  BY RoundTripAssumption
<1>4. PICK k \in 0 .. MaxFrames : now = k * FrameTime
  BY <1>1 DEF Scheduled
<1>5. k + 1 \in 0 .. MaxFrames /\ now' = (k + 1) * FrameTime
  <2>1. k < MaxFrames
    BY <1>2, <1>3, <1>4
  <2> QED
    BY <1>2, <1>3, <1>4, <2>1
<1>6. Scheduled(s)'
  BY <1>1, <1>2, <1>5 DEF Scheduled
<1>7. /\ now \in Nat /\ now' \in Nat /\ now <= now'
      /\ now \in 0 .. LastMoment /\ now' \in now .. LastMoment
  <2>1. (k + 1) * FrameTime <= MaxFrames * FrameTime
    BY <1>3, <1>5
  <2>2. MaxFrames * FrameTime \in Nat /\ k * FrameTime \in Nat
    BY <1>3
  <2> QED
    BY <1>2, <1>3, <1>4, <1>5, <2>1, <2>2 DEF LastMoment
<1>8. ASSUME NEW e \in Ends PROVE (net[e] \in Seq(Wires(s, e, now)))'
  <2> DEFINE V == Wires(s, e, now)
             W == Wires(s, e, now')
  <2>1. V \subseteq W
    BY <1>7, WiresMonotone
  <2> HIDE DEF V, W
  <2>2. Seq(V) \subseteq Seq(W)
    BY <2>1, SeqMonotonic
  <2>3. net[e] \in Seq(W)
    BY <1>1, <2>2 DEF V
  <2> QED
    BY <1>2, <2>3 DEF W
<1>9. ASSUME NEW e \in Ends PROVE Lasting(s, e, remote[e])'
  <2> DEFINE p == remote[e]
             before == now - p.heard
             after == now' - p.heard
  <2>1. /\ p \in Remotes(s, e, now) /\ Averaged(p)
        /\ p.m_lastMessageTime = ReadingAt(s, e, p.heard)
        /\ p.timedOut => Units(before) + 1 > ConnectionTimeout
    BY <1>1 DEF Lasting, Sound
  <2>2. p \in Remotes(s, e, now')
    BY <1>7, <2>1, RemotesMonotone
  <2>3. p.heard \in 0 .. now
    BY <2>1 DEF Remotes
  <2>4. before \in Nat /\ after \in Nat /\ before <= after /\ ConnectionTimeout \in Nat
    BY <1>7, <2>3, RoundTripAssumption
  <2> HIDE DEF before, after
  <2>5. Units(before) \in Nat /\ Units(after) \in Nat /\ Units(before) <= Units(after)
    BY <2>4, UnitsMonotone
  <2>6. p.timedOut => Units(after) + 1 > ConnectionTimeout
    BY <2>1, <2>4, <2>5
  <2>7. p' = p
    BY <1>2
  <2> QED
    BY <2>1, <2>2, <2>6, <2>7 DEF Lasting, Sound, after
<1>10. Going(s)'
  BY <1>1, <1>2, <1>6, <1>8, <1>9 DEF Going
<1> QED
  BY <1>10 DEF IInv

LEMMA NextIInv == ASSUME Platform = "windows", IInv, [Next]_vars PROVE IInv'
<1>1. PICK s \in Scenarios : Going(s)
  BY DEF IInv
<1>2. ASSUME Next PROVE IInv'
  BY <1>1, <1>2, TickKeeps, SendToKeeps, UpdateNetworkKeeps, LoseKeeps, StallKeeps DEF Next
<1>3. ASSUME UNCHANGED vars PROVE IInv'
  <2>1. now' = now /\ scenario' = scenario /\ remote' = remote /\ net' = net
    BY <1>3 DEF vars
  <2>2. /\ Scheduled(s) /\ DOMAIN remote = Ends /\ DOMAIN net = Ends
        /\ \A f \in Ends : Lasting(s, f, remote[f]) /\ net[f] \in Seq(Wires(s, f, now))
    BY <1>1 DEF Going
  <2> QED
    BY <2>1, <2>2, SameMoment
<1> QED
  BY <1>2, <1>3

-----------------------------------------------------------------------------
\* In every run on the clock of the Windows branch, times are earlier readings
\* of the clock they were read from; a KeepAlive carries one of the end that
\* measures, and its answer has been to the other end and waited there; the
\* last message is the one that was heard last; and the average is among the
\* samples.
THEOREM ReadingsStaySound ==
    ASSUME Platform = "windows" PROVE Spec => []IInv
<1>1. Init => IInv
  BY InitIInv
<1>2. IInv /\ [Next]_vars => IInv'
  BY NextIInv
<1> QED
  BY <1>1, <1>2, PTL DEF Spec

LEMMA FromStamped ==
    ASSUME NEW s \in Scenarios, Timely(s), NEW e \in Ends, NEW time \in 0 .. now,
           NEW m \in From(s, e, time), m.id = "KeepAlive"
    PROVE  m.m_timeStamp \in 0 .. Reading(m.measures)
<1> DEFINE f == m.measures
<1>1. f \in Ends /\ now \in Nat
  BY RoundTripAssumption DEF From, AnyMessage, Timely, LastMoment
<1>2. Asks(s, m, time) \/ Answers(s, m, time)
  BY DEF From
<1>3. PICK asked \in 0 .. now : m.m_timeStamp = ReadingAt(s, f, asked)
  <2>1. CASE Asks(s, m, time)
    <3>1. PICK asked \in 0 .. time : m.m_timeStamp = ReadingAt(s, f, asked)
      BY <2>1 DEF Asks
    <3> QED
      BY <1>1, <3>1
  <2>2. CASE Answers(s, m, time)
    <3>1. PICK answered \in 0 .. time : \E heard \in 0 .. answered : \E asked \in 0 .. heard :
                m.m_timeStamp = ReadingAt(s, f, asked)
      BY <2>2, Zenon DEF Answers
    <3>2. PICK heard \in 0 .. answered : \E asked \in 0 .. heard :
                m.m_timeStamp = ReadingAt(s, f, asked)
      BY <3>1
    <3>3. PICK asked \in 0 .. heard : m.m_timeStamp = ReadingAt(s, f, asked)
      BY <3>2
    <3> QED
      BY <1>1, <3>1, <3>2, <3>3
  <2> QED
    BY <1>2, <2>1, <2>2
<1> DEFINE p == ReadingAt(s, f, asked)
           q == ReadingAt(s, f, now)
<1>4. p \in Nat /\ q \in Nat /\ p <= q /\ Reading(f) = q
  BY <1>1, <1>3, TimelyReadings
<1> HIDE DEF f, p, q
<1>5. p \in 0 .. Reading(f)
  BY <1>4
<1> QED
  BY <1>3, <1>5 DEF f, p

\* Times and timestamps are readings their own end has made, wherever a
\* KeepAlive is, so that no difference of two of them wraps.
THEOREM RoundTripTypeOK ==
    ASSUME Platform = "windows" PROVE Spec => []TypeOK
<1>1. IInv => TypeOK
  <2> SUFFICES ASSUME IInv PROVE TypeOK
    OBVIOUS
  <2>1. PICK s \in Scenarios : Going(s)
    BY DEF IInv
  <2>2. /\ Timely(s) /\ now \in Nat /\ now \in 0 .. now
        /\ \A e \in Ends : remote[e] \in Remotes(s, e, now) /\ net[e] \in Seq(Wires(s, e, now))
    <3>1. Timely(s)
      BY <2>1, ScheduledTimely DEF Going
    <3> QED
      BY <2>1, <3>1, RoundTripAssumption DEF Going, Lasting, Sound, Timely, LastMoment
  <2>3. ASSUME NEW e \in Ends
        PROVE  LET p == remote[e]
               IN  /\ {p.m_lastAckTime, p.m_lastMessageTime, p.m_lastSend} \subseteq 0 .. Reading(e)
                   /\ p.m_seqtrackSent \in [DOMAIN p.m_seqtrackSent -> 0 .. Reading(e)]
                   /\ {entry.m_timeStamp : entry \in ToSet(p.held)} \subseteq 0 .. Reading(e)
                   /\ {p.m_ping, p.m_rtt} \subseteq 0 .. HalfWord - 1
    <3> DEFINE p == remote[e]
               a == ReadingAt(s, e, Start)
               r == ReadingAt(s, e, now)
    <3>1. p \in Remotes(s, e, now)
      BY <2>2
    <3> HIDE DEF p
    <3>2. /\ {p.m_lastAckTime, p.m_lastMessageTime, p.m_lastSend} \subseteq 0 .. r
          /\ {p.m_ping, p.m_rtt} \subseteq 0 .. HalfWord - 1
          /\ p.m_seqtrackSent \in PartialFunctions(Sequences16, a .. r)
          /\ p.held \in Seq(Held(s, e, now))
      BY <3>1 DEF Remotes
    <3>3. a \in Nat /\ r \in Nat /\ a .. r \subseteq 0 .. r /\ r = Reading(e)
      <4>1. Start \in 0 .. now
        BY <2>2 DEF Start
      <4>2. a \in Nat /\ r \in Nat /\ r = Reading(e)
        BY <2>2, <4>1, TimelyReadings
      <4> HIDE DEF a, r
      <4> QED
        BY <4>2
    <3> HIDE DEF a, r
    <3>4. p.m_seqtrackSent \in [DOMAIN p.m_seqtrackSent -> 0 .. r]
      <4> DEFINE f == p.m_seqtrackSent
      <4> HIDE DEF f
      <4>1. f \in [DOMAIN f -> a .. r]
        BY <3>2, PartialFunctionsType DEF f
      <4>2. f \in [DOMAIN f -> 0 .. r]
        BY <3>3, <4>1
      <4> QED
        BY <4>2 DEF f
    <3>5. {entry.m_timeStamp : entry \in ToSet(p.held)} \subseteq 0 .. r
      <4>1. \A i \in DOMAIN p.held : p.held[i] \in Held(s, e, now)
        BY <3>2, ElementOfSeq, LenProperties
      <4>2. ASSUME NEW entry \in Held(s, e, now) PROVE entry.m_timeStamp \in 0 .. r
        <5>1. PICK heard \in MinDelay .. now : entry.m_timeStamp = ReadingAt(s, e, heard)
          BY DEF Held
        <5>2. heard \in 0 .. now
          BY <2>2, RoundTripAssumption
        <5> DEFINE h == ReadingAt(s, e, heard)
        <5>3. h \in Nat /\ h <= r
          BY <2>2, <5>2, TimelyReadings DEF r
        <5> QED
          BY <3>3, <5>1, <5>3
      <4> QED
        BY <4>1, <4>2 DEF ToSet
    <3> QED
      BY <3>2, <3>3, <3>4, <3>5 DEF p
  <2>4. ASSUME NEW m \in KeepAlives PROVE m.m_timeStamp \in 0 .. Reading(m.measures)
    <3>1. ASSUME NEW e \in Ends, m \in ToSet(remote[e].tx.m_pendingMessages)
          PROVE  m \in From(s, e, now)
      <4>1. remote[e].tx.m_pendingMessages \in Seq(From(s, e, now))
        BY <2>2 DEF Remotes, Senders
      <4> QED
        BY <3>1, <4>1, ElementOfSeq, LenProperties DEF ToSet
    <3>2. ASSUME NEW e \in Ends, m \in {entry.message : entry \in ToSet(remote[e].held)}
          PROVE  \E time \in 0 .. now : m \in From(s, Other(e), time)
      <4>1. remote[e].held \in Seq(Held(s, e, now))
        BY <2>2 DEF Remotes
      <4>2. \A i \in DOMAIN remote[e].held : remote[e].held[i] \in Held(s, e, now)
        BY <4>1, ElementOfSeq, LenProperties
      <4>3. PICK entry \in Held(s, e, now) : m = entry.message
        BY <3>2, <4>2 DEF ToSet
      <4>4. PICK heard \in MinDelay .. now : m \in From(s, Other(e), heard - MinDelay)
        BY <4>3 DEF Held
      <4>5. heard - MinDelay \in 0 .. now
        BY <2>2, RoundTripAssumption
      <4> QED
        BY <4>4, <4>5
    <3>3. ASSUME NEW e \in Ends,
                 m \in UNION {ToSet(sent.packet.messages) : sent \in ToSet(net[e])}
          PROVE  \E time \in 0 .. now : m \in From(s, Other(e), time)
      <4>1. PICK sent \in ToSet(net[e]) : m \in ToSet(sent.packet.messages)
        BY <3>3
      <4>2. sent \in Wires(s, e, now)
        <5>1. net[e] \in Seq(Wires(s, e, now))
          BY <2>2
        <5> QED
          BY <4>1, <5>1, ElementOfSeq, LenProperties DEF ToSet
      <4> DEFINE left == sent.left
                 M == From(s, Other(e), left)
      <4>3. left \in 0 .. now /\ sent.packet.messages \in Seq(M)
        BY <4>2 DEF Wires, Packets
      <4> HIDE DEF M
      <4>4. m \in M
        BY <4>1, <4>3, ElementOfSeq, LenProperties DEF ToSet
      <4> QED
        BY <4>3, <4>4 DEF M
    <3>4. m.id = "KeepAlive" /\ \E e \in Ends : \E time \in 0 .. now : m \in From(s, e, time)
      <4>1. m.id = "KeepAlive"
        BY DEF KeepAlives
      <4>2. \A e \in Ends : Other(e) \in Ends
        BY DEF Other, Ends
      <4>3. PICK e \in Ends :
                \/ m \in ToSet(remote[e].tx.m_pendingMessages)
                \/ m \in {entry.message : entry \in ToSet(remote[e].held)}
                \/ m \in UNION {ToSet(sent.packet.messages) : sent \in ToSet(net[e])}
        BY Zenon DEF KeepAlives
      <4> QED
        BY <2>2, <3>1, <3>2, <3>3, <4>1, <4>2, <4>3
    <3> QED
      BY <2>2, <3>4, FromStamped
  <2> QED
    BY <2>3, <2>4 DEF TypeOK
<1> QED
  BY <1>1, ReadingsStaySound, PTL

\* A connection is given up only after s_connectionTimeout without a message.
THEOREM TimedOutOnlyInTime ==
    ASSUME Platform = "windows" PROVE Spec => []TimedOutInTime
<1>1. IInv => TimedOutInTime
  BY DEF IInv, Going, Lasting, TimedOutInTime
<1> QED
  BY <1>1, ReadingsStaySound, PTL

\* The round trips that KeepAlives measure are real: none is shorter than the
\* network and both latency fakers allow, in a connection that is shorter than
\* what 32 bits of milliseconds hold (seven weeks).
THEOREM KeepAlivesStayReal ==
    ASSUME Platform = "windows", ShortConnection PROVE Spec => []KeepAlivesReal
<1>1. IInv => KeepAlivesReal
  <2> SUFFICES ASSUME IInv, NEW e \in Ends, NEW sample \in remote[e].samples,
                      sample.source = "KeepAlive"
               PROVE  sample.milliseconds \in
                        Way + scenario.latency["client"] + scenario.latency["server"] - 1
                            .. Units(now) + 1
    BY DEF KeepAlivesReal
  <2>1. PICK s \in Scenarios : Going(s)
    BY DEF IInv
  <2>2. Timely(s) /\ remote[e] \in Remotes(s, e, now)
    BY <2>1, ScheduledTimely DEF Going, Lasting, Sound
  <2>3. sample \in Samples(s, now)
    BY <2>2 DEF Remotes
  <2>4. /\ sample.milliseconds \in 0 .. HalfWord - 1
        /\ sample.milliseconds <= Units(now) + 1
        /\ Way + s.latency["client"] + s.latency["server"] - 1 <= sample.milliseconds
    BY <2>3 DEF Samples
  <2>5. now \in Nat /\ MinDelay \in Nat
    BY <2>2, RoundTripAssumption DEF Timely, LastMoment
  <2>6. Way \in Nat /\ Units(now) \in Nat
    <3>1. 2 * MinDelay \in Nat
      BY <2>5
    <3> QED
      BY <2>5, <3>1, UnitsAdd DEF Way
  <2>7. s.latency["client"] \in Nat /\ s.latency["server"] \in Nat /\ HalfWord \in Nat
    BY RoundTripAssumption, ClockAssumption DEF Ends
  <2>8. scenario.latency = s.latency
    BY <2>2 DEF Timely
  <2> QED
    BY <2>4, <2>6, <2>7, <2>8
<1> QED
  BY <1>1, ReadingsStaySound, PTL

\* The average is among the round trips it was made of, as long as none of them
\* is so long that its hundredfold does not fit uint32_t (twelve hours).
AverageAmongShort ==
    (\A e \in Ends : Short(remote[e])) => AverageAmongSamples

THEOREM AverageStaysAmongShort ==
    ASSUME Platform = "windows" PROVE Spec => []AverageAmongShort
<1>1. IInv => AverageAmongShort
  <2> SUFFICES ASSUME IInv, \A f \in Ends : Short(remote[f]), NEW e \in Ends, Measured(remote[e]) # {}
               PROVE  remote[e].m_rtt \in Min(Measured(remote[e])) .. Max(Measured(remote[e]))
    BY DEF AverageAmongShort, AverageAmongSamples, Measured
  <2> DEFINE p == remote[e]
             T == Measured(p)
  <2>1. PICK s \in Scenarios : Going(s)
    BY DEF IInv
  <2>2. p \in Remotes(s, e, now) /\ Averaged(p)
    BY <2>1 DEF Going, Lasting, Sound
  <2>3. HalfWord \in Nat /\ HalfWord > 0
    BY ClockAssumption
  <2>4. T \in SUBSET (0 .. HalfWord - 1) /\ p.m_rtt \in Nat
    BY <2>2, <2>3 DEF Remotes, Samples, Measured
  <2>5. PICK low \in T, high \in T : low <= p.m_rtt /\ p.m_rtt <= high
    BY <2>2 DEF Averaged
  <2> HIDE DEF T, p
  <2>6. HalfWord - 1 \in Nat /\ T \in SUBSET Nat
    BY <2>3, <2>4
  <2>7. Min(T) \in T /\ Min(T) <= low
    BY <2>5, <2>6, MinOfNats
  <2>8. Max(T) \in T /\ high <= Max(T)
    BY <2>4, <2>5, <2>6, MaxOfBounded
  <2>9. p.m_rtt \in Min(T) .. Max(T)
    <3>1. Min(T) \in Nat /\ Max(T) \in Nat /\ low \in Nat /\ high \in Nat
      BY <2>5, <2>6, <2>7, <2>8
    <3> QED
      BY <2>4, <2>5, <2>7, <2>8, <3>1
  <2> QED
    BY <2>9 DEF T, p
<1> QED
  BY <1>1, ReadingsStaySound, PTL

\* So it is in every connection that is shorter than that.
THEOREM AverageStaysAmong ==
    ASSUME Platform = "windows", 100 * (Units(LastMoment) + 1) < HalfWord
    PROVE  Spec => []AverageAmongSamples
<1>1. IInv /\ AverageAmongShort => AverageAmongSamples
  <2> SUFFICES ASSUME IInv, AverageAmongShort, NEW e \in Ends PROVE Short(remote[e])
    BY DEF AverageAmongShort
  <2> SUFFICES ASSUME NEW sample \in remote[e].samples PROVE 100 * sample.milliseconds < HalfWord
    BY DEF Short, Measured
  <2>1. PICK s \in Scenarios : Going(s)
    BY DEF IInv
  <2>2. Timely(s) /\ remote[e] \in Remotes(s, e, now)
    BY <2>1, ScheduledTimely DEF Going, Lasting, Sound, Timely
  <2>3. sample \in Samples(s, now)
    BY <2>2 DEF Remotes
  <2> DEFINE n == sample.milliseconds
  <2>4. n \in 0 .. HalfWord - 1 /\ n <= Units(now) + 1
    BY <2>3 DEF Samples
  <2>5. now \in Nat /\ LastMoment \in Nat /\ now <= LastMoment /\ HalfWord \in Nat
    BY <2>2, RoundTripAssumption, ClockAssumption DEF Timely, LastMoment
  <2>6. Units(now) \in Nat /\ Units(LastMoment) \in Nat /\ Units(now) <= Units(LastMoment)
    BY <2>5, UnitsMonotone
  <2> HIDE DEF n
  <2>7. 100 * n < HalfWord
    BY <2>4, <2>5, <2>6
  <2> QED
    BY <2>7 DEF n
<1> QED
  BY <1>1, ReadingsStaySound, AverageStaysAmongShort, PTL

-----------------------------------------------------------------------------
SentSides == \A e \in Ends : Tracked(remote[e])

LEMMA NextSentSides ==
    ASSUME Platform = "windows", IInv, SentSides, SequencesOwn, [Next]_vars
    PROVE  SentSides'
<1>1. PICK s \in Scenarios : Going(s)
  BY DEF IInv
<1>2. DOMAIN remote = Ends /\ \A f \in Ends : remote[f] \in Remotes(s, f, now) /\ Tracked(remote[f])
  BY <1>1 DEF Going, Lasting, Sound, SentSides
<1>3. ASSUME NEW e \in Ends, SendTo(e) PROVE SentSides'
  <2> DEFINE q == [remote[e] EXCEPT !.tx = EnqueueMessage(@, GameMessage(e))]
  <2>1. SameTable(remote[e], q)
    BY <1>2 DEF EnqueueMessage, Remotes, Senders, SameTable
  <2>2. remote' = [remote EXCEPT ![e] = q]
    BY <1>2, <1>3 DEF SendTo, Remotes
  <2> HIDE DEF q
  <2>3. \A f \in Ends : Tracked(remote'[f])
    BY <1>2, <2>1, <2>2, SameTableTracked
  <2> QED
    BY <2>3 DEF SentSides, Tracked
<1>4. ASSUME NEW e \in Ends, UpdateNetwork(e) PROVE SentSides'
  <2>1. TrackedOwn(remote[e])
    BY <1>2 DEF SequencesOwn, TrackedOwn
  <2>2. /\ Tracked(remote'[e])
        /\ \A f \in Ends \ {e} : remote'[f] = remote[f]
    BY <1>1, <1>4, <2>1, UpdateNetworkKeeps
  <2>3. \A f \in Ends : Tracked(remote'[f])
    BY <1>2, <2>2
  <2> QED
    BY <2>3 DEF SentSides, Tracked
<1>5. ASSUME remote' = remote PROVE SentSides'
  BY <1>5 DEF SentSides, Tracked
<1> QED
  BY <1>3, <1>4, <1>5 DEF Next, Tick, Lose, Stall, vars

\* There is a send time for each message that waits and for no other sequence:
\* no acknowledgement takes the time of an earlier message with its sequence.
THEOREM SentTimesStayTracked ==
    ASSUME Platform = "windows" PROVE Spec /\ []SequencesOwn => []SentTracked
<1>1. Init => SentSides
  <2> SUFFICES ASSUME Init, NEW e \in Ends PROVE Tracked(remote[e])
    BY DEF SentSides
  <2>1. ToSet(<<>>) = {} /\ DOMAIN <<>> = {}
    BY DEF ToSet
  <2>2. remote[e].tx.m_reliableMessages = <<>> /\ remote[e].m_seqtrackSent = <<>>
    BY DEF Init, NewRemotePeer, Sender
  <2> QED
    BY <2>1, <2>2 DEF Tracked
<1>2. IInv /\ SentSides /\ SequencesOwn /\ [Next]_vars => SentSides'
  BY NextSentSides
<1>3. SentSides => SentTracked
  BY DEF SentSides, SentTracked, Tracked
<1> QED
  BY <1>1, <1>2, <1>3, ReadingsStaySound, PTL DEF Spec

-----------------------------------------------------------------------------
\* The sequences that an end has got, and those that a packet numbers and
\* acknowledges.
Acked(rx) == {rx.m_sequenceIn} \cup DOMAIN rx.m_seqtrackReceived
Numbers(packet) == {m.m_sequence : m \in ToSet(packet.messages)}
Acknowledges(packet) == AckedSequences(packet.m_ackseq, packet.m_ackbits)

\* A sequence is acknowledged only if it has been got.
LEMMA CheckAcked ==
    ASSUME NEW rx, NEW n, NEW ordered
    PROVE  Acked(AfterSequenceCheck(rx, n, ordered)) \subseteq Acked(rx) \cup {n}
BY DEF Acked, AfterSequenceCheck, SaveReceivedSequence, SetSequenceIn, Receiver

LEMMA BuildPacketAcks ==
    ASSUME NEW tx, NEW rx \in Receivers
    PROVE  Acknowledges(BuildPacket(tx, rx)) \subseteq Acked(rx)
<1> DEFINE newest == rx.m_sequenceIn
           bits == GetAckBits(rx)
<1>1. Acknowledges(BuildPacket(tx, rx)) = AckedSequences(newest, bits)
  BY DEF Acknowledges, BuildPacket
<1>2. newest \in Sequences16 /\ newest \in Int /\ newest >= 0 /\ newest < Modulus
  BY ModulusType DEF Receivers, Sequences16
<1>3. ASSUME NEW i \in bits PROVE Wrap(newest - (i + 1)) \in DOMAIN rx.m_seqtrackReceived
  <2>1. /\ i \in 0 .. AckBits - 1
        /\ AckSequence(rx, i) \in DOMAIN rx.m_seqtrackReceived
    BY AckBitsUnfolded
  <2>2. AckBits \in Nat /\ AckBits < Modulus
    BY SequenceAssumption
  <2>3. i \in Nat /\ i < AckBits
    BY <2>1, <2>2
  <2> HIDE DEF newest, bits
  <2>4. Wrap(newest - (i + 1)) = Wrap(Wrap(newest - 1) - i)
    <3>1. CASE newest = 0
      <4>1. Wrap(newest - 1) = Modulus - 1
        BY <3>1, WrapNear, ModulusType
      <4>2. /\ newest - (i + 1) \in Int /\ newest - (i + 1) < 0
            /\ 0 <= newest - (i + 1) + Modulus
        BY <2>2, <2>3, <3>1, ModulusType
      <4>3. Wrap(newest - (i + 1)) = newest - (i + 1) + Modulus
        BY <4>2, WrapNear
      <4>4. Modulus - 1 - i \in Int /\ 0 <= Modulus - 1 - i /\ Modulus - 1 - i < Modulus
        BY <2>2, <2>3, ModulusType
      <4>5. Wrap(Modulus - 1 - i) = Modulus - 1 - i
        BY <4>4, WrapNear
      <4> QED
        BY <2>3, <3>1, <4>1, <4>3, <4>5, ModulusType
    <3>2. CASE newest # 0
      <4>1. newest - 1 \in Int /\ 0 <= newest - 1 /\ newest - 1 < Modulus
        BY <1>2, <3>2, ModulusType
      <4>2. Wrap(newest - 1) = newest - 1
        BY <4>1, WrapNear
      <4>3. newest - 1 - i = newest - (i + 1)
        BY <1>2, <2>3
      <4> QED
        BY <4>2, <4>3
    <3> QED
      BY <3>1, <3>2
  <2> QED
    BY <2>1, <2>4 DEF AckSequence, newest
<1> QED
  BY <1>1, <1>3 DEF AckedSequences, Acked

-----------------------------------------------------------------------------
\* Sizes when every message has size 1: at least as many units as rounds.
OneEach(size, k, pending) == size \in Nat /\ size >= k

Filling == INSTANCE Loops WITH Step <- AddSize, Holds <- OneEach

LEMMA OldestSize ==
    ASSUME NEW M, NEW tx \in Senders(M), \A m \in M : m.size = 1
    PROVE  Size(OldestReliable(tx)) \in Nat
<1> DEFINE oldest == OldestReliable(tx)
           IsSizes(f) == f = [k \in 0 .. Len(oldest) |->
                IF k = 0 THEN 0 ELSE f[k - 1] + oldest[k].size]
           sizeOf == CHOOSE f : IsSizes(f)
           N == Len(oldest)
<1>1. oldest \in Seq(M) /\ N \in Nat /\ \A k \in 1 .. N : oldest[k].size = 1
  BY OldestReliableType, LenProperties, ElementOfSeq
<1> HIDE DEF oldest
<1>2. PICK r : Filling!IsLoop(r, N, 0, oldest)
  BY <1>1, Filling!LoopExists
<1>3. IsSizes(r)
  BY <1>2 DEF Filling!IsLoop, AddSize
<1>4. IsSizes(sizeOf)
  BY <1>3
<1>5. Filling!IsLoop(sizeOf, N, 0, oldest)
  BY <1>4 DEF Filling!IsLoop, AddSize
<1>6. Size(oldest) = sizeOf[N]
  BY DEF Size
<1> HIDE DEF sizeOf, N
<1>7. OneEach(0, 0, oldest)
  BY DEF OneEach
<1>8. \A k \in 1 .. N : \A n : OneEach(n, k - 1, oldest) => OneEach(AddSize(n, k, oldest), k, oldest)
  BY <1>1 DEF OneEach, AddSize
<1>9. \A k \in 0 .. N : OneEach(sizeOf[k], k, oldest)
  BY <1>1, <1>5, <1>7, <1>8, Filling!LoopInvariant
<1> QED
  BY <1>1, <1>6, <1>9 DEF OneEach, oldest

\* A packet of messages of size 1 is full before it has more than fit.
LEMMA PendingTakenFits ==
    ASSUME NEW M, NEW tx \in Senders(M), \A m \in M : m.size = 1
    PROVE  PendingTaken(tx) <= MaximumPacketSize
<1> DEFINE pending == tx.m_pendingMessages
           N == Len(pending)
           first == Size(OldestReliable(tx))
           IsSizes(f) == f = [k \in 0 .. Len(pending) |->
                IF k = 0 THEN Size(OldestReliable(tx)) ELSE f[k - 1] + pending[k].size]
           sizeWith == CHOOSE f : IsSizes(f)
           full == {k \in DOMAIN sizeWith : sizeWith[k] >= MaximumPacketSize}
<1>1. N \in Nat /\ \A k \in 1 .. N : pending[k].size = 1
  BY LenProperties, ElementOfSeq DEF Senders
<1>2. PICK r : Filling!IsLoop(r, N, first, pending)
  BY <1>1, Filling!LoopExists
<1>3. IsSizes(r)
  BY <1>2 DEF Filling!IsLoop, AddSize
<1>4. IsSizes(sizeWith)
  BY <1>3
<1>5. DOMAIN sizeWith = 0 .. N /\ Filling!IsLoop(sizeWith, N, first, pending)
  BY <1>4 DEF Filling!IsLoop, AddSize
<1>6. PendingTaken(tx) = IF full = {} THEN N ELSE Min(full)
  BY DEF PendingTaken
<1>7. first \in Nat
  BY OldestSize
<1> HIDE DEF sizeWith, N, first, pending
<1>8. OneEach(first, 0, pending)
  BY <1>7 DEF OneEach
<1>9. \A k \in 1 .. N : \A n : OneEach(n, k - 1, pending) => OneEach(AddSize(n, k, pending), k, pending)
  BY <1>1 DEF OneEach, AddSize
<1>10. \A k \in 0 .. N : OneEach(sizeWith[k], k, pending)
  BY <1>1, <1>5, <1>8, <1>9, Filling!LoopInvariant
<1>11. MaximumPacketSize \in Nat
  BY PacketSizeAssumption
<1>12. MaximumPacketSize <= N => MaximumPacketSize \in full
  <2> SUFFICES ASSUME MaximumPacketSize <= N PROVE MaximumPacketSize \in full
    OBVIOUS
  <2>1. MaximumPacketSize \in 0 .. N
    BY <1>1, <1>11
  <2> QED
    BY <1>5, <1>10, <2>1 DEF OneEach
<1>13. full \in SUBSET Nat
  BY <1>1, <1>5
<1> HIDE DEF full
<1>14. full # {} => Min(full) \in Nat /\ \A k \in full : Min(full) <= k
  BY <1>13, MinOfNats
<1>15. CASE full = {}
  BY <1>1, <1>6, <1>11, <1>12, <1>15
<1>16. CASE full # {}
  <2>1. PICK k \in full : TRUE
    BY <1>16
  <2>2. CASE MaximumPacketSize <= N
    BY <1>6, <1>12, <1>14, <1>16, <2>2
  <2>3. CASE ~(MaximumPacketSize <= N)
    <3>1. PendingTaken(tx) \in 0 .. Len(tx.m_pendingMessages)
      BY PendingTakenType
    <3> QED
      BY <1>1, <1>11, <2>3, <3>1 DEF N, pending
  <2> QED
    BY <2>2, <2>3
<1> QED
  BY <1>15, <1>16

-----------------------------------------------------------------------------
\* A sequence counter that a packet has not taken back has not wrapped.
LEMMA CountedOn ==
    ASSUME NEW out \in Sequences16, NEW fresh \in Nat, fresh < Modulus, out <= Wrap(out + fresh)
    PROVE  out + fresh < Modulus /\ Wrap(out + fresh) = out + fresh
<1> DEFINE x == out + fresh
           d == x \div Modulus
<1>1. Modulus \in Nat /\ Modulus > 2
  BY ModulusType
<1>2. out \in Nat /\ x \in Nat /\ x < out + Modulus
  BY <1>1 DEF Sequences16
<1>3. d \in Nat /\ Modulus * d <= x /\ x < Modulus * d + Modulus
  BY <1>1, <1>2, Quotient
<1>4. x = d * Modulus + (x % Modulus)
  BY <1>1, <1>2
<1> HIDE DEF d
<1>5. Wrap(x) = x - d * Modulus
  <2>1. x % Modulus \in 0 .. Modulus - 1 /\ d * Modulus \in Nat
    BY <1>1, <1>2, <1>3
  <2> QED
    BY <1>2, <1>4, <2>1 DEF Wrap
<1>6. out <= Wrap(x)
  OBVIOUS
<1> HIDE DEF x
<1>7. d = 0
  <2> SUFFICES ASSUME d >= 1 PROVE FALSE
    BY <1>3
  <2>1. d * Modulus >= Modulus /\ d * Modulus \in Nat
    BY <1>1, <1>3
  <2> QED
    BY <1>1, <1>2, <1>5, <1>6, <2>1
<1>8. d * Modulus = 0 /\ Modulus * d = 0
  BY <1>1, <1>7
<1> QED
  BY <1>1, <1>2, <1>3, <1>5, <1>8 DEF x

\* A packet does not use all the sequences there are.
LEMMA FewFresh ==
    ASSUME MaximumPacketSize < Modulus - 1, NEW M \in SUBSET AnyMessage, NEW tx \in Senders(M)
    PROVE  LET n == Len(PacketMessages(tx))
           IN  FreshUpTo(PacketMessages(tx), n) \in Nat /\ FreshUpTo(PacketMessages(tx), n) < Modulus
<1> DEFINE messages == PacketMessages(tx)
           n == Len(messages)
           r == Len(OldestReliable(tx))
           t == PendingTaken(tx)
           fresh == {j \in 1 .. n : IsFresh(messages[j])}
<1>1. n = r + t /\ n \in Nat
  BY PacketMessagesType, LenProperties
<1>2. r \in {0, 1}
  BY PacketMessagesAt
<1>3. t <= MaximumPacketSize /\ t \in Nat
  <2>1. \A m \in M : m.size = 1
    BY DEF AnyMessage
  <2>2. t \in 0 .. Len(tx.m_pendingMessages) /\ Len(tx.m_pendingMessages) \in Nat
    BY PendingTakenType, LenProperties DEF Senders
  <2> QED
    BY <2>1, <2>2, PendingTakenFits
<1>4. n < Modulus
  <2> HIDE DEF n, r, t
  <2> QED
    BY <1>1, <1>2, <1>3, ModulusType, PacketSizeAssumption
<1> HIDE DEF n, messages
<1>5. IsFiniteSet(1 .. n) /\ Cardinality(1 .. n) = n /\ fresh \subseteq 1 .. n
  <2>1. 1 \in Int /\ n \in Int
    BY <1>1
  <2>2. IsFiniteSet(1 .. n) /\ Cardinality(1 .. n) = IF 1 > n THEN 0 ELSE n - 1 + 1
    BY <2>1, FS_Interval
  <2> QED
    BY <1>1, <2>2
<1>6. IsFiniteSet(fresh) /\ Cardinality(fresh) <= n
  BY <1>5, FS_Subset
<1>7. Cardinality(fresh) \in Nat
  BY <1>6, FS_CardinalityType
<1>8. FreshUpTo(messages, n) = Cardinality(fresh)
  BY DEF FreshUpTo
<1> HIDE DEF fresh
<1>9. FreshUpTo(messages, n) \in Nat /\ FreshUpTo(messages, n) < Modulus
  BY <1>1, <1>4, <1>6, <1>7, <1>8, ModulusType
<1> QED
  BY <1>9 DEF messages, n

\* The messages of a packet: the one that goes out again is as it was, and the
\* others have the next sequences, each its own.
LEMMA PacketNumbers ==
    ASSUME NEW M \in SUBSET AnyMessage, NEW tx \in Senders(M),
           \A m \in ToSet(tx.m_pendingMessages) : IsFresh(m),
           \A m \in ToSet(tx.m_reliableMessages) : ~IsFresh(m),
           tx.m_sequenceOut + FreshUpTo(PacketMessages(tx), Len(PacketMessages(tx))) < Modulus
    PROVE  LET out == tx.m_sequenceOut
               n == Len(PacketMessages(tx))
               r == Len(OldestReliable(tx))
               messages == GenerateMessageHeaders(PacketMessages(tx), out)
           IN  /\ r = 1 => n >= 1 /\ messages[1] = Head(tx.m_reliableMessages)
               /\ \A i \in r + 1 .. n :
                    /\ messages[i].m_sequence \in Int
                    /\ out <= messages[i].m_sequence
                    /\ messages[i].m_sequence < out + FreshUpTo(PacketMessages(tx), n)
               /\ \A i, j \in r + 1 .. n :
                    i < j => messages[i].m_sequence < messages[j].m_sequence
<1> DEFINE out == tx.m_sequenceOut
           before == PacketMessages(tx)
           n == Len(before)
           r == Len(OldestReliable(tx))
           t == PendingTaken(tx)
           up(k) == FreshUpTo(before, k)
           messages == GenerateMessageHeaders(before, out)
           pending == tx.m_pendingMessages
           queue == tx.m_reliableMessages
<1>1. /\ before \in Seq(M) /\ n = r + t /\ n \in Nat /\ DOMAIN before = 1 .. n
      /\ t \in 0 .. Len(pending)
      /\ pending \in Seq(M) /\ Len(pending) \in Nat /\ DOMAIN pending = 1 .. Len(pending)
      /\ queue \in Seq(M) /\ Len(queue) \in Nat /\ DOMAIN queue = 1 .. Len(queue)
  BY PacketMessagesType, PendingTakenType, LenProperties DEF Senders
<1>2. /\ r \in {0, 1}
      /\ r = 1 => before[1] = Head(queue) /\ queue # <<>>
      /\ \A i \in 1 .. t : before[r + i] = pending[i]
  BY PacketMessagesAt
<1>3. out \in Nat /\ Modulus \in Nat
  BY ModulusType DEF Senders, Sequences16
<1>4. /\ \A k \in Nat : up(k) \in Nat
      /\ \A k \in Nat \ {0} : up(k) = up(k - 1) + (IF IsFresh(before[k]) THEN 1 ELSE 0)
      /\ \A k \in Nat : \A j \in 0 .. k : up(j) <= up(k)
  BY FreshUpToGrows, FreshUpToMonotone
<1>5. messages = [i \in 1 .. n |->
            IF IsFresh(before[i]) THEN [before[i] EXCEPT !.m_sequence = Wrap(out + up(i - 1))]
                                  ELSE before[i]]
  BY <1>1 DEF GenerateMessageHeaders
<1>6. out + up(n) < Modulus
  OBVIOUS
<1>7. ASSUME r = 1 PROVE n >= 1 /\ messages[1] = Head(queue)
  <2>1. n >= 1 /\ 1 \in 1 .. n
    BY <1>1, <1>7
  <2>2. ~IsFresh(Head(queue))
    <3>1. Len(queue) >= 1 /\ 1 \in DOMAIN queue /\ Head(queue) = queue[1]
      <4>1. Len(queue) # 0
        BY <1>1, <1>2, <1>7, EmptySeq
      <4> QED
        BY <1>1, <4>1
    <3> QED
      BY <3>1 DEF ToSet
  <2> HIDE DEF messages
  <2> QED
    BY <1>2, <1>5, <1>7, <2>1, <2>2
<1> HIDE DEF before, n, r, t, up, messages, pending, queue, out
<1>8. ASSUME NEW i \in r + 1 .. n
      PROVE  /\ i \in 1 .. n /\ i - 1 \in 0 .. n /\ i \in Nat \ {0}
             /\ IsFresh(before[i]) /\ before[i] \in M
             /\ up(i) = up(i - 1) + 1 /\ up(i) <= up(n) /\ up(i - 1) \in Nat
  <2>1. i - r \in 1 .. t /\ i = r + (i - r) /\ i \in 1 .. n /\ i \in Nat \ {0}
    BY <1>1, <1>2
  <2>2. before[i] = pending[i - r]
    BY <1>2, <2>1
  <2>3. pending[i - r] \in ToSet(pending)
    BY <1>1, <2>1 DEF ToSet
  <2>4. IsFresh(before[i])
    BY <2>2, <2>3 DEF pending
  <2>5. before[i] \in M
    BY <1>1, <2>1, ElementOfSeq DEF n
  <2>6. i - 1 \in 0 .. n /\ i - 1 \in Nat
    <3>1. i \in Nat /\ 1 <= i /\ i <= n /\ n \in Nat
      BY <1>1, <2>1
    <3> QED
      BY <3>1
  <2>7. up(i) = up(i - 1) + 1
    BY <1>4, <2>1, <2>4
  <2>8. up(i) <= up(n)
    BY <1>1, <1>4, <2>1
  <2> QED
    BY <1>4, <2>1, <2>4, <2>5, <2>6, <2>7, <2>8
<1>9. ASSUME NEW i \in r + 1 .. n
      PROVE  messages[i].m_sequence = out + up(i - 1)
  <2>1. messages[i] = [before[i] EXCEPT !.m_sequence = Wrap(out + up(i - 1))]
    BY <1>5, <1>8
  <2>2. before[i] \in AnyMessage
    BY <1>8
  <2>3. messages[i].m_sequence = Wrap(out + up(i - 1))
    BY <2>1, <2>2 DEF AnyMessage
  <2>4. out + up(i - 1) \in Int /\ 0 <= out + up(i - 1) /\ out + up(i - 1) < Modulus
    <3>1. up(i - 1) \in Nat /\ up(i) = up(i - 1) + 1 /\ up(i) <= up(n) /\ up(n) \in Nat
      BY <1>1, <1>4, <1>8
    <3> QED
      BY <1>3, <1>6, <3>1
  <2> QED
    BY <2>3, <2>4, WrapNear
<1>10. ASSUME NEW i \in r + 1 .. n
       PROVE  /\ messages[i].m_sequence \in Int
              /\ out <= messages[i].m_sequence
              /\ messages[i].m_sequence < out + up(n)
  <2>1. up(i - 1) \in Nat /\ up(i) = up(i - 1) + 1 /\ up(i) <= up(n) /\ up(n) \in Nat
    BY <1>1, <1>4, <1>8
  <2>2. messages[i].m_sequence = out + up(i - 1)
    BY <1>9
  <2> QED
    BY <1>3, <2>1, <2>2
<1>11. ASSUME NEW i \in r + 1 .. n, NEW j \in r + 1 .. n, i < j
       PROVE  messages[i].m_sequence < messages[j].m_sequence
  <2>1. /\ up(i - 1) \in Nat /\ up(i) = up(i - 1) + 1 /\ up(j - 1) \in Nat
        /\ messages[i].m_sequence = out + up(i - 1)
        /\ messages[j].m_sequence = out + up(j - 1)
    BY <1>8, <1>9
  <2>2. up(i) <= up(j - 1)
    <3>1. i \in 0 .. j - 1 /\ j - 1 \in Nat
      BY <1>8, <1>11
    <3> QED
      BY <1>4, <3>1
  <2> QED
    BY <1>3, <2>1, <2>2
<1> QED
  BY <1>7, <1>10, <1>11 DEF before, n, r, up, messages, queue, out

-----------------------------------------------------------------------------
LEMMA ApartAppend ==
    ASSUME NEW M, NEW messages \in Seq(M), Apart(messages), NEW m \in M,
           \A n \in ToSet(messages) : n.m_sequence # m.m_sequence
    PROVE  Apart(Append(messages, m))
<1> DEFINE n == Len(messages)
           longer == Append(messages, m)
<1>1. /\ n \in Nat /\ DOMAIN messages = 1 .. n
      /\ longer \in Seq(M) /\ Len(longer) = n + 1
      /\ \A i \in 1 .. n : longer[i] = messages[i]
      /\ longer[n + 1] = m
  BY LenProperties, AppendProperties
<1>2. DOMAIN longer = 1 .. n + 1
  BY <1>1, LenProperties
<1> HIDE DEF n, longer
<1>3. \A i \in 1 .. n : messages[i].m_sequence # m.m_sequence
  BY <1>1 DEF ToSet
<1>4. ASSUME NEW i \in 1 .. n + 1, NEW j \in 1 .. n + 1,
             longer[i].m_sequence = longer[j].m_sequence
      PROVE  i = j
  <2>1. i \in 1 .. n \/ i = n + 1
    BY <1>1
  <2>2. j \in 1 .. n \/ j = n + 1
    BY <1>1
  <2>3. CASE i \in 1 .. n /\ j \in 1 .. n
    BY <1>1, <1>4, <2>3 DEF Apart
  <2> QED
    BY <1>1, <1>3, <1>4, <2>1, <2>2, <2>3
<1> QED
  BY <1>2, <1>4 DEF Apart, longer

\* The reliable messages that do not go out with a packet.
Rest(tx) ==
    SubSeq(tx.m_reliableMessages, Len(OldestReliable(tx)) + 1, Len(tx.m_reliableMessages))

LEMMA RestApart ==
    ASSUME NEW M, NEW tx \in Senders(M), Apart(tx.m_reliableMessages)
    PROVE  LET queue == tx.m_reliableMessages
           IN  /\ Rest(tx) \in Seq(M) /\ Apart(Rest(tx))
               /\ ToSet(Rest(tx)) \subseteq ToSet(queue)
               /\ \A m \in ToSet(Rest(tx)) : m.m_sequence # Head(queue).m_sequence
<1> DEFINE queue == tx.m_reliableMessages
           r == Len(OldestReliable(tx))
           n == Len(queue)
           rest == Rest(tx)
<1>1. /\ queue \in Seq(M) /\ n \in Nat /\ DOMAIN queue = 1 .. n /\ r \in 0 .. n
      /\ \A j \in 1 .. n : queue[j] \in M
  BY LenProperties, OldestReliableType, ElementOfSeq DEF Senders
<1>2. r \in {0, 1} /\ (r = 1 => queue # <<>>) /\ (r = 0 => queue = <<>>)
  BY PacketMessagesAt
<1>3. n > 0 => Head(queue) = queue[1]
  BY <1>1
<1>4. n = 0 => r = 0
  BY <1>1
<1>5. n > 0 => r = 1
  BY <1>1, <1>2
<1>6. rest = SubSeq(queue, r + 1, n)
  BY DEF Rest
<1>13. Apart(queue)
  OBVIOUS
<1> HIDE DEF queue, r, n, rest
<1>7. /\ rest \in Seq(M) /\ Len(rest) = n - r
      /\ \A k \in 1 .. n - r : rest[k] = queue[r + k]
  <2>1. r + 1 \in 1 .. n + 1 /\ n \in r .. n /\ \A k \in r + 1 .. n : queue[k] \in M
    BY <1>1, <1>2
  <2>2. /\ SubSeq(queue, r + 1, n) \in Seq(M) /\ Len(SubSeq(queue, r + 1, n)) = n - (r + 1) + 1
        /\ \A k \in 1 .. n - (r + 1) + 1 : SubSeq(queue, r + 1, n)[k] = queue[(r + 1) + k - 1]
    BY <1>1, <2>1, SubSeqProperties
  <2>3. n - (r + 1) + 1 = n - r /\ \A k \in 1 .. n - r : (r + 1) + k - 1 = r + k
    BY <1>1, <1>2
  <2> QED
    BY <1>6, <2>2, <2>3
<1>8. DOMAIN rest = 1 .. n - r
  BY <1>7, LenProperties
<1>9. \A k \in 1 .. n - r : r + k \in 1 .. n /\ k \in Int
  BY <1>1, <1>2
<1>10. Apart(rest)
  <2> SUFFICES ASSUME NEW i \in 1 .. n - r, NEW j \in 1 .. n - r,
                      rest[i].m_sequence = rest[j].m_sequence
               PROVE  i = j
    BY <1>8 DEF Apart
  <2>1. queue[r + i].m_sequence = queue[r + j].m_sequence
    BY <1>7
  <2>2. r + i = r + j
    BY <1>1, <1>9, <1>13, <2>1 DEF Apart
  <2> QED
    BY <1>2, <1>9, <2>2
<1>11. ToSet(rest) \subseteq ToSet(queue)
  BY <1>1, <1>7, <1>8, <1>9 DEF ToSet
<1>12. \A m \in ToSet(rest) : m.m_sequence # Head(queue).m_sequence
  <2> SUFFICES ASSUME NEW k \in 1 .. n - r, rest[k].m_sequence = Head(queue).m_sequence
               PROVE  FALSE
    BY <1>8 DEF ToSet
  <2>1. n > 0 /\ r = 1
    BY <1>1, <1>2, <1>5, <1>9
  <2>2. queue[r + k].m_sequence = queue[1].m_sequence
    BY <1>3, <1>7, <2>1
  <2>3. 1 \in 1 .. n
    BY <1>1, <2>1
  <2>4. r + k = 1
    BY <1>1, <1>9, <1>13, <2>2, <2>3 DEF Apart
  <2> QED
    BY <2>1, <2>4
<1> QED
  BY <1>7, <1>10, <1>11, <1>12 DEF rest, queue

SoFarApart(messages, k, x) ==
    /\ messages \in Seq(x.messages) /\ Apart(messages)
    /\ \A m \in ToSet(messages) :
        m.m_sequence \in x.first \/ \E j \in 1 .. k : m.m_sequence = x.packet[j].m_sequence

RequeueingApart == INSTANCE Loops WITH Step <- RequeueNext, Holds <- SoFarApart

\* The reliable messages that wait after a packet went out have sequences of
\* their own, if those of the packet and those that stayed behind have.
LEMMA AfterSendApart ==
    ASSUME NEW M, NEW tx \in Senders(M), NEW packet, packet.messages \in Seq(M),
           Len(packet.messages) = Len(PacketMessages(tx)), Apart(Rest(tx)), Rest(tx) \in Seq(M),
           \A i, j \in 1 .. Len(packet.messages) :
                i < j => packet.messages[i].m_sequence # packet.messages[j].m_sequence,
           \A m \in ToSet(Rest(tx)), n \in ToSet(packet.messages) : m.m_sequence # n.m_sequence
    PROVE  Apart(AfterSend(tx, packet).m_reliableMessages)
<1> DEFINE messages == packet.messages
           N == Len(messages)
           first == Rest(tx)
           x == [packet |-> messages, messages |-> M, first |-> {m.m_sequence : m \in ToSet(first)}]
           IsRequeued(f) == f = [k \in 0 .. Len(messages) |->
                IF k = 0
                THEN SubSeq(tx.m_reliableMessages, Len(OldestReliable(tx)) + 1, Len(tx.m_reliableMessages))
                ELSE IF IsReliable(messages[k]) THEN Append(f[k - 1], messages[k])
                ELSE f[k - 1]]
           requeued == CHOOSE f : IsRequeued(f)
<1>1. /\ messages \in Seq(M) /\ N \in Nat /\ DOMAIN messages = 1 .. N
      /\ \A i \in 1 .. N : messages[i] \in M
  BY LenProperties, ElementOfSeq
<1>2. PICK r : RequeueingApart!IsLoop(r, N, first, x)
  BY <1>1, RequeueingApart!LoopExists
<1>3. IsRequeued(r)
  BY <1>2 DEF RequeueingApart!IsLoop, RequeueNext, Rest
<1>4. IsRequeued(requeued)
  BY <1>3
<1>5. RequeueingApart!IsLoop(requeued, N, first, x)
  <2> HIDE DEF requeued
  <2> QED
    BY <1>4 DEF RequeueingApart!IsLoop, RequeueNext, Rest
<1>6. AfterSend(tx, packet).m_reliableMessages = requeued[N]
  BY DEF AfterSend
<1> HIDE DEF requeued
<1>7. SoFarApart(first, 0, x)
  BY DEF SoFarApart
<1>8. ASSUME NEW k \in 1 .. N, NEW s, SoFarApart(s, k - 1, x)
      PROVE  SoFarApart(RequeueNext(s, k, x), k, x)
  <2>1. /\ s \in Seq(M) /\ Apart(s)
        /\ \A m \in ToSet(s) : \/ m.m_sequence \in {n.m_sequence : n \in ToSet(first)}
                               \/ \E j \in 1 .. k - 1 : m.m_sequence = messages[j].m_sequence
    BY <1>8 DEF SoFarApart
  <2>2. messages[k] \in M /\ messages[k] \in ToSet(messages)
    BY <1>1 DEF ToSet
  <2>3. \A j \in 1 .. k - 1 : j \in 1 .. N /\ j \in 1 .. k /\ j < k
    BY <1>1
  <2>4. k \in 1 .. k /\ k \in 1 .. N
    BY <1>1
  <2>5. \A m \in ToSet(s) : m.m_sequence # messages[k].m_sequence
    <3> TAKE m \in ToSet(s)
    <3>1. CASE m.m_sequence \in {n.m_sequence : n \in ToSet(first)}
      BY <2>2, <3>1
    <3>2. CASE \E j \in 1 .. k - 1 : m.m_sequence = messages[j].m_sequence
      BY <2>3, <2>4, <3>2
    <3> QED
      BY <2>1, <3>1, <3>2
  <2> HIDE DEF first, messages
  <2>6. CASE IsReliable(messages[k])
    <3>1. RequeueNext(s, k, x) = Append(s, messages[k])
      BY <2>6 DEF RequeueNext
    <3>2. /\ Append(s, messages[k]) \in Seq(M)
          /\ ToSet(Append(s, messages[k])) = ToSet(s) \cup {messages[k]}
      BY <2>1, <2>2, AppendProperties, ToSetAppend
    <3>3. Apart(Append(s, messages[k]))
      BY <2>1, <2>2, <2>5, ApartAppend
    <3>4. \A m \in ToSet(Append(s, messages[k])) :
                \/ m.m_sequence \in {n.m_sequence : n \in ToSet(first)}
                \/ \E j \in 1 .. k : m.m_sequence = messages[j].m_sequence
      <4> TAKE m \in ToSet(Append(s, messages[k]))
      <4>1. CASE m \in ToSet(s)
        BY <2>1, <2>3, <4>1
      <4>2. CASE m = messages[k]
        BY <2>4, <4>2
      <4> QED
        BY <3>2, <4>1, <4>2
    <3> QED
      BY <3>1, <3>2, <3>3, <3>4 DEF SoFarApart
  <2>7. CASE ~IsReliable(messages[k])
    <3>1. RequeueNext(s, k, x) = s
      BY <2>7 DEF RequeueNext
    <3>2. \A m \in ToSet(s) : \/ m.m_sequence \in {n.m_sequence : n \in ToSet(first)}
                              \/ \E j \in 1 .. k : m.m_sequence = messages[j].m_sequence
      BY <2>1, <2>3
    <3> QED
      BY <2>1, <3>1, <3>2 DEF SoFarApart
  <2> QED
    BY <2>6, <2>7
<1>9. \A k \in 0 .. N : SoFarApart(requeued[k], k, x)
  <2> HIDE DEF x, N, first
  <2> QED
    BY <1>1, <1>5, <1>7, <1>8, RequeueingApart!LoopInvariant
<1>10. Apart(requeued[N])
  BY <1>1, <1>9 DEF SoFarApart
<1> QED
  BY <1>6, <1>10

-----------------------------------------------------------------------------
\* The numbering of an end: it has not wrapped, those that wait have sequences
\* it has given, each its own, and those that have not gone out have none.
Numbered(p) ==
    LET out == p.tx.m_sequenceOut
    IN  /\ out \in 1 .. Modulus - 1
        /\ \A m \in ToSet(p.tx.m_pendingMessages) : IsFresh(m)
        /\ Apart(p.tx.m_reliableMessages)
        /\ \A m \in ToSet(p.tx.m_reliableMessages) : m.m_sequence \in 1 .. out - 1

LEMMA AfterPacketNumbered ==
    ASSUME MaximumPacketSize < Modulus - 1, NEW s, NEW e, NEW p, Runs(s, e, p), Numbered(p),
           NEW reading,
           p.tx.m_sequenceOut <=
                AfterPacket(p, BuildPacket(p.tx, p.rx), reading).tx.m_sequenceOut
    PROVE  LET packet == BuildPacket(p.tx, p.rx)
               q == AfterPacket(p, packet, reading)
           IN  /\ Numbered(q) /\ q.rx = p.rx /\ q.samples = p.samples
               /\ Numbers(packet) \subseteq 1 .. q.tx.m_sequenceOut - 1
               /\ ~q.doubtful =>
                    /\ ~p.doubtful
                    /\ \A m \in ToSet(q.tx.m_reliableMessages) :
                        /\ p.tx.m_sequenceOut <= m.m_sequence
                        /\ q.m_seqtrackSent[m.m_sequence] = reading
<1> DEFINE M == From(s, e, now)
           tx == p.tx
           out == tx.m_sequenceOut
           queue == tx.m_reliableMessages
           pending == tx.m_pendingMessages
           taken == PendingTaken(tx)
           before == PacketMessages(tx)
           n == Len(before)
           r == Len(OldestReliable(tx))
           fresh == FreshUpTo(before, n)
           packet == BuildPacket(tx, p.rx)
           messages == packet.messages
           reliable == {m \in ToSet(messages) : IsReliable(m)}
           q == AfterPacket(p, packet, reading)
           after == q.tx.m_sequenceOut
<1>1. p \in Remotes(s, e, now)
  BY DEF Runs, Sound
<1>2. /\ tx \in Senders(M) /\ p.rx \in Receivers /\ queue \in Seq(M) /\ pending \in Seq(M)
      /\ out \in Sequences16
  BY <1>1 DEF Remotes, Senders
<1>3. messages \in Seq(M) /\ Len(messages) = n /\ n \in Nat /\ DOMAIN messages = 1 .. n
  <2>1. Renumbered(M)
    BY FromRenumbered
  <2> HIDE DEF M, tx
  <2>2. packet \in Packets(M) /\ Len(messages) = Len(PacketMessages(tx))
    BY <1>2, <2>1, BuildPacketType
  <2> QED
    BY <2>2, LenProperties DEF Packets
<1>4. /\ q.tx = AfterSend(tx, packet) /\ q.rx = p.rx /\ q.samples = p.samples
      /\ q.doubtful = (p.doubtful \/ queue # <<>>)
      /\ \A m \in reliable : q.m_seqtrackSent[m.m_sequence] = reading
  BY <1>1 DEF AfterPacket, Remotes
<1>5. M \in SUBSET AnyMessage
  BY DEF From
<1>6. messages = GenerateMessageHeaders(before, out)
  BY DEF BuildPacket
<1>7. /\ out \in 1 .. Modulus - 1
      /\ \A m \in ToSet(pending) : IsFresh(m)
      /\ Apart(queue)
      /\ \A m \in ToSet(queue) : m.m_sequence \in 1 .. out - 1
  BY DEF Numbered
<1>8. \A m \in ToSet(queue) : ~IsFresh(m)
  <2> SUFFICES ASSUME NEW m \in ToSet(queue) PROVE m.m_sequence # 0
    BY DEF IsFresh
  <2>1. out \in Int
    BY <1>7, ModulusType
  <2>2. m.m_sequence \in 1 .. out - 1
    BY <1>7
  <2> HIDE DEF out, queue
  <2> QED
    BY <2>1, <2>2
<1> HIDE DEF M, packet, q
<1>9. PICK requeued \in Seq(M) :
        /\ AfterSend(tx, packet) =
              [m_sequenceOut |-> Wrap(out + FreshUpTo(before, Len(messages))),
               m_pendingMessages |-> SubSeq(pending, taken + 1, Len(pending)),
               m_reliableMessages |-> requeued]
        /\ ToSet(requeued) = ToSet(Rest(tx)) \cup reliable
  BY <1>2, <1>3, AfterSendEffect DEF Rest
<1>10. /\ after = Wrap(out + fresh)
       /\ q.tx.m_pendingMessages = SubSeq(pending, taken + 1, Len(pending))
       /\ q.tx.m_reliableMessages = requeued
  <2>1. q.tx = AfterSend(tx, packet)
    BY <1>4
  <2>2. Len(messages) = n
    BY <1>3
  <2> HIDE DEF tx, out, queue, pending, taken, before, n, messages, reliable
  <2>3. q.tx = [m_sequenceOut |-> Wrap(out + FreshUpTo(before, n)),
                m_pendingMessages |-> SubSeq(pending, taken + 1, Len(pending)),
                m_reliableMessages |-> requeued]
    BY <1>9, <2>1, <2>2
  <2>4. q.tx.m_sequenceOut = Wrap(out + FreshUpTo(before, n))
    BY <2>3
  <2>5. after = Wrap(out + fresh)
    BY <2>4
  <2>6. q.tx.m_pendingMessages = SubSeq(pending, taken + 1, Len(pending))
    <3> DEFINE later == SubSeq(pending, taken + 1, Len(pending))
    <3>1. q.tx = [m_sequenceOut |-> Wrap(out + FreshUpTo(before, n)),
                  m_pendingMessages |-> later, m_reliableMessages |-> requeued]
      BY <2>3
    <3> HIDE DEF later
    <3>2. q.tx.m_pendingMessages = later
      BY <3>1
    <3> QED
      BY <3>2 DEF later
  <2>7. q.tx.m_reliableMessages = requeued
    BY <2>3
  <2> QED
    BY <2>5, <2>6, <2>7
<1>11. out <= after
  BY DEF q, packet
<1>12. fresh \in Nat /\ fresh < Modulus
  BY <1>2, <1>5, FewFresh
<1>13. after = out + fresh /\ out + fresh < Modulus
  BY <1>2, <1>10, <1>11, <1>12, CountedOn
<1>14. /\ r = 1 => n >= 1 /\ messages[1] = Head(queue)
       /\ \A i \in r + 1 .. n :
            /\ messages[i].m_sequence \in Int
            /\ out <= messages[i].m_sequence
            /\ messages[i].m_sequence < out + fresh
       /\ \A i, j \in r + 1 .. n :
            i < j => messages[i].m_sequence < messages[j].m_sequence
  BY <1>2, <1>5, <1>6, <1>7, <1>8, <1>13, PacketNumbers
<1>15. r \in {0, 1} /\ (r = 0 => queue = <<>>) /\ (r = 1 => queue # <<>>)
  BY <1>2, PacketMessagesAt
<1>16. /\ Rest(tx) \in Seq(M) /\ Apart(Rest(tx))
       /\ ToSet(Rest(tx)) \subseteq ToSet(queue)
       /\ \A m \in ToSet(Rest(tx)) : m.m_sequence # Head(queue).m_sequence
  BY <1>2, <1>7, RestApart
<1>17. Len(queue) \in Nat /\ (queue # <<>> => Head(queue) \in ToSet(queue))
  <2>1. Len(queue) \in Nat /\ DOMAIN queue = 1 .. Len(queue)
    BY <1>2, LenProperties
  <2>2. queue # <<>> => Len(queue) # 0 /\ Head(queue) = queue[1]
    BY <1>2, EmptySeq
  <2> QED
    BY <2>1, <2>2 DEF ToSet
<1>18. q.rx = p.rx /\ q.samples = p.samples
  BY <1>4
<1>30. out \in Nat /\ Modulus \in Nat
  BY <1>7, ModulusType
<1> HIDE DEF tx, out, queue, pending, taken, before, n, r, fresh, messages, reliable, after
<1>19. ASSUME NEW i \in 1 .. n
       PROVE  /\ i \in r + 1 .. n \/ (r = 1 /\ i = 1)
              /\ r = 1 /\ i = 1 => /\ messages[i] = Head(queue)
                                   /\ messages[i].m_sequence \in 1 .. out - 1
  BY <1>3, <1>7, <1>14, <1>15, <1>17
<1>20. ASSUME NEW i \in 1 .. n PROVE messages[i].m_sequence \in 1 .. after - 1
  <2>1. CASE i \in r + 1 .. n
    BY <1>7, <1>12, <1>13, <1>14, <1>30, <2>1
  <2>2. CASE r = 1 /\ i = 1
    BY <1>12, <1>13, <1>19, <1>30, <2>2
  <2> QED
    BY <1>19, <2>1, <2>2
<1>21. Numbers(packet) \subseteq 1 .. after - 1
  BY <1>3, <1>20 DEF Numbers, ToSet, messages
<1>22. \A i, j \in 1 .. n : i < j => messages[i].m_sequence # messages[j].m_sequence
  <2> SUFFICES ASSUME NEW i \in 1 .. n, NEW j \in 1 .. n, i < j
               PROVE  messages[i].m_sequence # messages[j].m_sequence
    OBVIOUS
  <2>1. j \in r + 1 .. n
    BY <1>3, <1>15
  <2>2. CASE i \in r + 1 .. n
    <3>1. /\ messages[i].m_sequence \in Int /\ messages[j].m_sequence \in Int
          /\ messages[i].m_sequence < messages[j].m_sequence
      BY <1>14, <2>1, <2>2
    <3> QED
      BY <3>1
  <2>3. CASE r = 1 /\ i = 1
    <3>1. messages[i].m_sequence \in 1 .. out - 1
      BY <1>19, <2>3
    <3>2. messages[j].m_sequence \in Int /\ out <= messages[j].m_sequence
      BY <1>14, <2>1
    <3> QED
      BY <1>30, <3>1, <3>2
  <2> QED
    BY <1>19, <2>2, <2>3
<1>23. \A m \in ToSet(Rest(tx)), k \in ToSet(messages) : m.m_sequence # k.m_sequence
  <2> SUFFICES ASSUME NEW m \in ToSet(Rest(tx)), NEW i \in 1 .. n
               PROVE  m.m_sequence # messages[i].m_sequence
    BY <1>3 DEF ToSet
  <2>1. m.m_sequence \in 1 .. out - 1
    BY <1>7, <1>16
  <2>2. CASE i \in r + 1 .. n
    BY <1>14, <1>30, <2>1, <2>2
  <2>3. CASE r = 1 /\ i = 1
    BY <1>16, <1>19, <2>3
  <2> QED
    BY <1>19, <2>2, <2>3
<1>24. Apart(requeued)
  <2>1. Apart(AfterSend(tx, packet).m_reliableMessages)
    BY <1>2, <1>3, <1>16, <1>22, <1>23, AfterSendApart DEF messages, n, before
  <2> QED
    BY <1>4, <1>10, <2>1
<1>25. \A m \in ToSet(requeued) : m.m_sequence \in 1 .. after - 1
  <2> TAKE m \in ToSet(requeued)
  <2>1. CASE m \in ToSet(Rest(tx))
    <3>1. m.m_sequence \in 1 .. out - 1
      BY <1>7, <1>16, <2>1
    <3> QED
      BY <1>12, <1>13, <1>30, <3>1
  <2>2. CASE m \in reliable
    BY <1>3, <1>20, <2>2 DEF reliable, ToSet
  <2> QED
    BY <1>9, <2>1, <2>2
<1>26. \A m \in ToSet(SubSeq(pending, taken + 1, Len(pending))) : IsFresh(m)
  <2> DEFINE l == Len(pending)
  <2>1. taken \in 0 .. l /\ l \in Nat /\ DOMAIN pending = 1 .. l /\ \A i \in 1 .. l : pending[i] \in M
    BY <1>2, PendingTakenType, LenProperties, ElementOfSeq DEF taken, pending
  <2>4. \A i \in 1 .. l : pending[i] \in ToSet(pending)
    BY <2>1 DEF ToSet
  <2> HIDE DEF l
  <2>2. taken + 1 \in 1 .. l + 1 /\ l \in taken .. l /\ \A i \in taken + 1 .. l : pending[i] \in ToSet(pending)
    BY <2>1, <2>4
  <2>3. SubSeq(pending, taken + 1, l) \in Seq(ToSet(pending))
    BY <2>1, <2>2, SubSeqProperties
  <2> QED
    BY <1>7, <2>3, ToSetType DEF l
<1>27. Numbered(q)
  <2>1. after \in 1 .. Modulus - 1
    BY <1>7, <1>12, <1>13, <1>30
  <2> QED
    BY <1>10, <1>24, <1>25, <1>26, <2>1 DEF Numbered, after
<1>28. ASSUME ~q.doubtful
       PROVE  /\ ~p.doubtful
              /\ \A m \in ToSet(requeued) :
                    out <= m.m_sequence /\ q.m_seqtrackSent[m.m_sequence] = reading
  <2>1. ~p.doubtful /\ queue = <<>>
    BY <1>4, <1>28
  <2>2. r = 0 /\ ToSet(queue) = {}
    BY <1>15, <2>1 DEF ToSet
  <2>3. \A m \in ToSet(requeued) : m \in reliable
    BY <1>9, <1>16, <2>2
  <2>4. \A m \in reliable : out <= m.m_sequence
    BY <1>3, <1>14, <2>2 DEF reliable, ToSet
  <2> QED
    BY <1>4, <2>1, <2>3, <2>4
<1> QED
  BY <1>10, <1>18, <1>21, <1>27, <1>28 DEF q, packet, tx, out, after

-----------------------------------------------------------------------------
\* As long as no reliable message has gone out twice, an acknowledgement has
\* measured the way there and back at least.
RealAcks(p) ==
    ShortConnection /\ ~p.doubtful =>
        \A sample \in p.samples : sample.source = "Ack" => Way <= sample.milliseconds

\* What the handlers leave of the send side that an end begins its call with.
Kept(b, p) ==
    /\ Numbered(p)
    /\ p.tx.m_sequenceOut = b.tx.m_sequenceOut /\ p.doubtful = b.doubtful
    /\ ToSet(p.tx.m_reliableMessages) \subseteq ToSet(b.tx.m_reliableMessages)
    /\ \A n \in DOMAIN p.m_seqtrackSent :
        n \in DOMAIN b.m_seqtrackSent /\ p.m_seqtrackSent[n] = b.m_seqtrackSent[n]

\* What the handlers leave that have got messages with these sequences.
After(b, p, sequences) ==
    Kept(b, p) /\ RealAcks(p) /\ Acked(p.rx) \subseteq Acked(b.rx) \cup sequences

\* These sequences of an end have been there and back.
Spans(s, e, b, sequences) ==
    ~b.doubtful =>
        \A m \in ToSet(b.tx.m_reliableMessages) :
            m.m_sequence \in sequences /\ m.m_sequence \in DOMAIN b.m_seqtrackSent =>
                \E t \in 0 .. now : /\ b.m_seqtrackSent[m.m_sequence] = ReadingAt(s, e, t)
                                    /\ t + 2 * MinDelay <= now

LEMMA AckSampleReal ==
    ASSUME NEW s \in Scenarios, Timely(s), NEW e \in Ends, ShortConnection,
           NEW t \in 0 .. now, t + 2 * MinDelay <= now
    PROVE  Way <= Since32(ReadingAt(s, e, now), ReadingAt(s, e, t))
<1> DEFINE p == ReadingAt(s, e, t)
           q == ReadingAt(s, e, now)
           milliseconds == Since32(q, p)
<1>1. /\ now \in Nat /\ LastMoment \in Nat /\ now <= LastMoment
      /\ t \in 0 .. LastMoment /\ now \in 0 .. LastMoment
      /\ p \in Nat /\ q \in Nat /\ p <= q
      /\ Units(now) \in Nat /\ q - p <= Units(now) + 1
  BY TimelyReadings
<1>2. now \in t .. LastMoment /\ t \in Nat /\ now - t \in Nat /\ MinDelay \in Nat
  <2>1. t \in Nat /\ t <= now
    BY <1>1
  <2>2. now \in t .. LastMoment /\ now - t \in Nat
    BY <1>1, <2>1
  <2> QED
    BY <2>1, <2>2, RoundTripAssumption
<1>3. Units(now - t) \in Nat /\ Units(now - t) <= q - p
  BY <1>1, <1>2, ReadingsInOrder DEF Timely
<1>4. 2 * MinDelay \in Nat /\ 2 * MinDelay <= now - t
  BY <1>1, <1>2
<1>5. Units(2 * MinDelay) \in Nat /\ Units(2 * MinDelay) <= Units(now - t)
  BY <1>2, <1>4, UnitsMonotone
<1>6. Units(LastMoment) \in Nat /\ Units(now) <= Units(LastMoment)
  BY <1>1, UnitsMonotone
<1> HIDE DEF p, q
<1>7. q - p \in Nat /\ q - p < HalfWord
  BY <1>1, <1>6, ClockAssumption DEF ShortConnection
<1>8. milliseconds = q - p
  BY <1>1, <1>7, Since32Span
<1>9. Way <= milliseconds
  BY <1>1, <1>3, <1>5, <1>8 DEF Way
<1> QED
  BY <1>9 DEF milliseconds, p, q

LEMMA ProcessAckAfter ==
    ASSUME NEW s \in Scenarios, Timely(s), NEW e \in Ends, NEW p, Runs(s, e, p),
           NEW b, NEW numbers, After(b, p, numbers),
           NEW sequences, Spans(s, e, b, sequences), NEW sequence \in sequences
    PROVE  After(b, ProcessAck(p, sequence, ReadingAt(s, e, now)), numbers)
<1> DEFINE reading == ReadingAt(s, e, now)
           sent == p.m_seqtrackSent
           queue == p.tx.m_reliableMessages
           milliseconds == TimeSinceSent(p, sequence, reading)
           timed == IF sequence \in DOMAIN p.m_seqtrackSent
                    THEN UpdateRTT(p, milliseconds, "Ack")
                    ELSE p
           q == [timed EXCEPT !.tx.m_reliableMessages = Acknowledge(@, sequence),
                              !.m_seqtrackSent = Forget(@, sequence)]
<1>1. p \in Remotes(s, e, now)
  BY DEF Runs, Sound
<1>2. queue \in Seq(From(s, e, now))
  BY <1>1 DEF Remotes, Senders
<1>3. \/ ProcessAck(p, sequence, reading) = p
      \/ /\ ProcessAck(p, sequence, reading) = q
         /\ \E m \in ToSet(queue) : m.m_sequence = sequence
  BY DEF ProcessAck
<1> SUFFICES ASSUME ProcessAck(p, sequence, reading) = q,
                    NEW w \in ToSet(queue), w.m_sequence = sequence
             PROVE  After(b, q, numbers)
  BY <1>3
<1>4. /\ q.tx.m_reliableMessages = Acknowledge(queue, sequence)
      /\ q.m_seqtrackSent = Forget(sent, sequence)
      /\ q.tx.m_sequenceOut = p.tx.m_sequenceOut
      /\ q.tx.m_pendingMessages = p.tx.m_pendingMessages
      /\ q.doubtful = p.doubtful /\ q.rx = p.rx
      /\ q.samples = p.samples
            \/ /\ sequence \in DOMAIN sent
               /\ q.samples = p.samples \cup {[milliseconds |-> milliseconds, source |-> "Ack"]}
  BY <1>1 DEF UpdateRTT, Remotes, Senders
<1>5. Apart(queue) /\ Numbered(p) /\ Kept(b, p) /\ RealAcks(p)
  BY DEF After, Kept, Numbered
<1>6. /\ Apart(Acknowledge(queue, sequence))
      /\ ToSet(Acknowledge(queue, sequence)) \subseteq ToSet(queue)
  BY <1>2, <1>5, AcknowledgeApart
<1>12. w \in ToSet(b.tx.m_reliableMessages)
  BY <1>5 DEF Kept
<1> HIDE DEF q, queue, sent, milliseconds, reading
<1>7. Numbered(q)
  BY <1>4, <1>5, <1>6 DEF Numbered, queue
<1>8. Kept(b, q)
  <2>1. \A n \in DOMAIN q.m_seqtrackSent :
            n \in DOMAIN b.m_seqtrackSent /\ q.m_seqtrackSent[n] = b.m_seqtrackSent[n]
    BY <1>4, <1>5 DEF Kept, Forget, sent
  <2>2. ToSet(q.tx.m_reliableMessages) \subseteq ToSet(b.tx.m_reliableMessages)
    BY <1>4, <1>5, <1>6 DEF Kept, queue
  <2>3. q.tx.m_sequenceOut = b.tx.m_sequenceOut /\ q.doubtful = b.doubtful
    BY <1>4, <1>5 DEF Kept
  <2> QED
    BY <1>7, <2>1, <2>2, <2>3 DEF Kept
<1>9. RealAcks(q)
  <2> SUFFICES ASSUME ShortConnection, ~q.doubtful, sequence \in DOMAIN sent
               PROVE  Way <= milliseconds
    BY <1>4, <1>5 DEF RealAcks
  <2>1. ~b.doubtful
    BY <1>8 DEF Kept
  <2>2. /\ sequence \in DOMAIN b.m_seqtrackSent
        /\ sent[sequence] = b.m_seqtrackSent[sequence]
    BY <1>5 DEF Kept, sent
  <2>3. PICK t \in 0 .. now : /\ b.m_seqtrackSent[sequence] = ReadingAt(s, e, t)
                              /\ t + 2 * MinDelay <= now
    BY <1>12, <2>1, <2>2 DEF Spans
  <2>4. Way <= Since32(ReadingAt(s, e, now), ReadingAt(s, e, t))
    BY <2>3, AckSampleReal
  <2> QED
    BY <2>2, <2>3, <2>4 DEF milliseconds, TimeSinceSent, reading, sent
<1>10. Acked(q.rx) \subseteq Acked(b.rx) \cup numbers
  BY <1>4 DEF After
<1> QED
  BY <1>8, <1>9, <1>10 DEF After

\* What does not touch the reliable messages, nor any time, and measures
\* nothing with an acknowledgement.
LEMMA OthersAfter ==
    ASSUME NEW b, NEW numbers, NEW p, After(b, p, numbers), NEW q, SameTable(p, q),
           q.tx.m_sequenceOut = p.tx.m_sequenceOut, q.doubtful = p.doubtful,
           \A m \in ToSet(q.tx.m_pendingMessages) : IsFresh(m),
           \A sample \in q.samples : sample.source = "Ack" => sample \in p.samples,
           Acked(q.rx) \subseteq Acked(p.rx) \cup numbers
    PROVE  After(b, q, numbers)
<1>1. Numbered(q)
  BY DEF After, Kept, Numbered, SameTable
<1>2. Kept(b, q)
  BY <1>1 DEF After, Kept, SameTable
<1>3. RealAcks(q)
  BY DEF After, RealAcks
<1> QED
  BY <1>2, <1>3 DEF After

LEMMA ProcessMessageAfter ==
    ASSUME NEW s, NEW e, NEW p, Runs(s, e, p), NEW b, NEW numbers, After(b, p, numbers),
           NEW message, NEW reading
    PROVE  After(b, ProcessMessage(e, p, message, reading), numbers)
<1> DEFINE q == ProcessMessage(e, p, message, reading)
           pending == p.tx.m_pendingMessages
           answer == Answer(message, reading)
<1>1. p \in Remotes(s, e, now)
  BY DEF Runs, Sound
<1>2. pending \in Seq(From(s, e, now))
  BY <1>1 DEF Remotes, Senders
<1>3. SameTable(p, q)
  BY ProcessMessageSame
<1>4. /\ q.tx.m_sequenceOut = p.tx.m_sequenceOut /\ q.doubtful = p.doubtful /\ q.rx = p.rx
      /\ q.tx.m_pendingMessages \in {pending, Append(pending, answer)}
  BY <1>1 DEF ProcessMessage, UpdateRTT, EnqueueMessage, Remotes, Senders
<1>5. \A sample \in q.samples : sample.source = "Ack" => sample \in p.samples
  BY <1>1 DEF ProcessMessage, UpdateRTT, EnqueueMessage, Remotes, Senders
<1>6. IsFresh(answer)
  BY DEF Answer, KeepAlive, IsFresh
<1>7. \A m \in ToSet(pending) : IsFresh(m)
  BY DEF After, Kept, Numbered
<1> HIDE DEF q, pending, answer
<1>8. \A m \in ToSet(q.tx.m_pendingMessages) : IsFresh(m)
  <2>1. ToSet(Append(pending, answer)) = ToSet(pending) \cup {answer}
    BY <1>2, ToSetAppend
  <2> QED
    BY <1>4, <1>6, <1>7, <2>1
<1>9. After(b, q, numbers)
  BY <1>3, <1>4, <1>5, <1>8, OthersAfter
<1> QED
  BY <1>9 DEF q

-----------------------------------------------------------------------------
\* The loops of the handlers again, and what is left of what they began with.
StillAfter(p, k, x) == Runs(x.scenario, x.end, p) /\ After(x.base, p, x.numbers)

AcksAfter == INSTANCE Loops WITH Step <- AckNext, Holds <- StillAfter
ParsingAfter == INSTANCE Loops WITH Step <- ParseNext, Holds <- StillAfter
ReceivingAfter == INSTANCE Loops WITH Step <- ReceiveNext, Holds <- StillAfter
ReleasingAfter == INSTANCE Loops WITH Step <- ReleaseNext, Holds <- StillAfter

LEMMA ProcessAcksAfter ==
    ASSUME NEW s \in Scenarios, Timely(s), NEW e \in Ends, NEW p, Runs(s, e, p),
           NEW b, NEW numbers, After(b, p, numbers), NEW packet,
           Spans(s, e, b, Acknowledges(packet))
    PROVE  After(b, ProcessAcks(p, packet, ReadingAt(s, e, now)), numbers)
<1> DEFINE reading == ReadingAt(s, e, now)
           sequences == Acknowledges(packet)
           x == [scenario |-> s, end |-> e, packet |-> packet, reading |-> reading,
                 base |-> b, numbers |-> numbers]
           first == ProcessAck(p, packet.m_ackseq, reading)
           IsAfter(f) == f = [k \in 0 .. AckBits |->
                IF k = 0 THEN ProcessAck(p, packet.m_ackseq, reading)
                ELSE IF k - 1 \in packet.m_ackbits
                     THEN ProcessAck(f[k - 1], Wrap(packet.m_ackseq - k), reading)
                ELSE f[k - 1]]
           after == CHOOSE f : IsAfter(f)
           last == after[AckBits]
<1>1. AckBits \in Nat
  BY SequenceAssumption
<1>2. PICK r : AcksAfter!IsLoop(r, AckBits, first, x)
  BY <1>1, AcksAfter!LoopExists
<1>3. IsAfter(r)
  BY <1>2 DEF AcksAfter!IsLoop, AckNext
<1>4. IsAfter(after)
  BY <1>3
<1>5. AcksAfter!IsLoop(after, AckBits, first, x)
  BY <1>4 DEF AcksAfter!IsLoop, AckNext
<1>6. StillAfter(first, 0, x)
  <2>1. packet.m_ackseq \in sequences
    BY DEF Acknowledges, AckedSequences
  <2> HIDE DEF sequences
  <2>2. Runs(s, e, first) /\ After(b, first, numbers)
    BY <2>1, ProcessAckRuns, ProcessAckAfter DEF sequences
  <2> HIDE DEF first
  <2> QED
    BY <2>2 DEF StillAfter
<1>7. ASSUME NEW k \in 1 .. AckBits, NEW q, StillAfter(q, k - 1, x)
      PROVE  StillAfter(AckNext(q, k, x), k, x)
  <2>1. Runs(s, e, q) /\ After(b, q, numbers)
    BY <1>7 DEF StillAfter
  <2>2. CASE k - 1 \in packet.m_ackbits
    <3> DEFINE n == Wrap(packet.m_ackseq - k)
    <3>1. n \in sequences
      <4>1. k - 1 + 1 = k
        BY <1>1
      <4> QED
        BY <2>2, <4>1 DEF Acknowledges, AckedSequences
    <3>2. AckNext(q, k, x) = ProcessAck(q, n, reading)
      BY <2>2 DEF AckNext
    <3> HIDE DEF n, sequences
    <3>3. Runs(s, e, ProcessAck(q, n, reading)) /\ After(b, ProcessAck(q, n, reading), numbers)
      BY <2>1, <3>1, ProcessAckRuns, ProcessAckAfter DEF sequences
    <3> QED
      BY <3>2, <3>3 DEF StillAfter
  <2>3. CASE k - 1 \notin packet.m_ackbits
    <3>1. AckNext(q, k, x) = q
      BY <2>3 DEF AckNext
    <3> QED
      BY <2>1, <3>1 DEF StillAfter
  <2> QED
    BY <2>2, <2>3
<1>8. ProcessAcks(p, packet, reading) = [last EXCEPT !.m_lastAckTime = reading]
  BY DEF ProcessAcks
<1> HIDE DEF after
<1>9. \A k \in 0 .. AckBits : StillAfter(after[k], k, x)
  <2> HIDE DEF x, first
  <2> QED
    BY <1>1, <1>5, <1>6, <1>7, AcksAfter!LoopInvariant
<1>10. Runs(s, e, last) /\ After(b, last, numbers)
  BY <1>1, <1>9 DEF StillAfter
<1> HIDE DEF last
<1> DEFINE q == [last EXCEPT !.m_lastAckTime = reading]
<1>11. /\ SameTable(last, q) /\ q.tx = last.tx /\ q.doubtful = last.doubtful
       /\ q.samples = last.samples /\ q.rx = last.rx
  <2>1. last \in Remotes(s, e, now)
    BY <1>10 DEF Runs, Sound
  <2> QED
    BY <2>1 DEF Remotes, SameTable
<1>12. \A m \in ToSet(last.tx.m_pendingMessages) : IsFresh(m)
  BY <1>10 DEF After, Kept, Numbered
<1> HIDE DEF q
<1>13. After(b, q, numbers)
  BY <1>10, <1>11, <1>12, OthersAfter
<1> QED
  BY <1>8, <1>13 DEF q

LEMMA ParseMessageAfter ==
    ASSUME NEW s \in Scenarios, Timely(s), NEW e \in Ends, NEW p, Runs(s, e, p),
           NEW b, NEW numbers, After(b, p, numbers),
           NEW message \in Arriving(s, e), message.m_sequence \in numbers, NEW reading
    PROVE  After(b, ParseMessage(e, p, message, reading), numbers)
<1> DEFINE n == message.m_sequence
           rx == AfterSequenceCheck(p.rx, n, IsOrderedOnly(message))
           q == [p EXCEPT !.rx = rx]
<1>1. p \in Remotes(s, e, now)
  BY DEF Runs, Sound
<1>2. rx \in Receivers
  <2>1. p.rx \in Receivers /\ n \in Sequences16
    BY <1>1 DEF Remotes, Arriving, From, AnyMessage
  <2> QED
    BY <2>1, AfterSequenceCheckType
<1>3. Acked(rx) \subseteq Acked(p.rx) \cup numbers
  <2>1. Acked(rx) \subseteq Acked(p.rx) \cup {n}
    BY CheckAcked
  <2> QED
    BY <2>1
<1>4. ParseMessage(e, p, message, reading)
        \in {q, AddPendingMessage(q, message, reading), ProcessMessage(e, q, message, reading)}
  <2>1. q = [p EXCEPT !.rx = AfterSequenceCheck(@, message.m_sequence, IsOrderedOnly(message))]
    BY <1>1 DEF Remotes
  <2> QED
    BY <2>1 DEF ParseMessage
<1> HIDE DEF rx
<1>5. /\ q \in Remotes(s, e, now)
      /\ q.m_lastMessageTime = p.m_lastMessageTime /\ q.heard = p.heard
      /\ q.timedOut = p.timedOut /\ q.m_rtt = p.m_rtt /\ q.samples = p.samples
      /\ q.tx = p.tx /\ q.doubtful = p.doubtful /\ q.rx = rx /\ SameTable(p, q)
  BY <1>1, <1>2 DEF Remotes, SameTable
<1>6. \A m \in ToSet(p.tx.m_pendingMessages) : IsFresh(m)
  BY DEF After, Kept, Numbered
<1> HIDE DEF q
<1>7. Runs(s, e, q) /\ After(b, q, numbers)
  <2>1. Runs(s, e, q)
    BY <1>5, OthersRun
  <2>2. After(b, q, numbers)
    BY <1>3, <1>5, <1>6, OthersAfter
  <2> QED
    BY <2>1, <2>2
<1>8. After(b, ProcessMessage(e, q, message, reading), numbers)
  BY <1>7, ProcessMessageAfter
<1>9. After(b, AddPendingMessage(q, message, reading), numbers)
  <2> DEFINE h == AddPendingMessage(q, message, reading)
  <2>1. /\ SameTable(q, h) /\ h.tx = q.tx /\ h.doubtful = q.doubtful
        /\ h.samples = q.samples /\ h.rx = q.rx
    BY <1>5 DEF AddPendingMessage, Remotes, SameTable
  <2> HIDE DEF h
  <2>2. After(b, h, numbers)
    BY <1>5, <1>6, <1>7, <2>1, OthersAfter
  <2> QED
    BY <2>2 DEF h
<1> QED
  BY <1>4, <1>7, <1>8, <1>9

LEMMA ParseBufferAfter ==
    ASSUME NEW s \in Scenarios, Timely(s), NEW e \in Ends, NEW p, Runs(s, e, p),
           NEW b, NEW numbers, After(b, p, numbers),
           NEW packet \in Packets(Arriving(s, e)), Numbers(packet) \subseteq numbers,
           Spans(s, e, b, Acknowledges(packet))
    PROVE  After(b, ParseBuffer(e, p, packet, ReadingAt(s, e, now)), numbers)
<1> DEFINE M == Arriving(s, e)
           reading == ReadingAt(s, e, now)
           x == [scenario |-> s, end |-> e, packet |-> packet, reading |-> reading,
                 base |-> b, numbers |-> numbers]
           N == Len(packet.messages)
           first == ProcessAcks(p, packet, reading)
           IsParsed(f) == f = [k \in 0 .. Len(packet.messages) |->
                IF k = 0 THEN ProcessAcks(p, packet, reading)
                ELSE ParseMessage(e, f[k - 1], packet.messages[k], reading)]
           parsed == CHOOSE f : IsParsed(f)
<1>1. packet.messages \in Seq(M)
  BY DEF Packets
<1>2. /\ N \in Nat /\ DOMAIN packet.messages = 1 .. N
      /\ \A k \in 1 .. N : packet.messages[k] \in M
  BY <1>1, LenProperties, ElementOfSeq
<1>3. PICK r : ParsingAfter!IsLoop(r, N, first, x)
  BY <1>2, ParsingAfter!LoopExists
<1>4. IsParsed(r)
  BY <1>3 DEF ParsingAfter!IsLoop, ParseNext
<1>5. IsParsed(parsed)
  BY <1>4
<1>6. ParsingAfter!IsLoop(parsed, N, first, x)
  BY <1>5 DEF ParsingAfter!IsLoop, ParseNext
<1>7. StillAfter(first, 0, x)
  <2>1. Runs(s, e, first) /\ After(b, first, numbers)
    BY ProcessAcksRuns, ProcessAcksAfter
  <2> HIDE DEF first
  <2> QED
    BY <2>1 DEF StillAfter
<1>8. ASSUME NEW k \in 1 .. N, NEW q, StillAfter(q, k - 1, x)
      PROVE  StillAfter(ParseNext(q, k, x), k, x)
  <2>1. Runs(s, e, q) /\ After(b, q, numbers)
    BY <1>8 DEF StillAfter
  <2> DEFINE message == packet.messages[k]
             h == ParseMessage(e, q, message, reading)
  <2>2. message \in Arriving(s, e) /\ message.m_sequence \in numbers
    BY <1>2 DEF Numbers, ToSet
  <2>3. ParseNext(q, k, x) = h
    BY DEF ParseNext
  <2> HIDE DEF message, reading
  <2>4. Runs(s, e, h)
    BY <2>1, <2>2, ParseMessageRuns DEF reading
  <2>5. After(b, h, numbers)
    BY <2>1, <2>2, ParseMessageAfter
  <2> HIDE DEF h
  <2> QED
    BY <2>3, <2>4, <2>5 DEF StillAfter
<1>9. ParseBuffer(e, p, packet, reading) = parsed[N]
  BY DEF ParseBuffer
<1> HIDE DEF parsed
<1>10. \A k \in 0 .. N : StillAfter(parsed[k], k, x)
  <2> HIDE DEF x, first, N
  <2> QED
    BY <1>2, <1>6, <1>7, <1>8, ParsingAfter!LoopInvariant
<1>11. After(b, parsed[N], numbers)
  BY <1>2, <1>10 DEF StillAfter
<1> QED
  BY <1>9, <1>11

\* The sequences that the packets bring that arrive.
Brought(e, arriving) == UNION {Numbers(net[e][k].packet) : k \in arriving}

LEMMA ReceiveAfter ==
    ASSUME NEW s \in Scenarios, Timely(s), NEW e \in Ends, Runs(s, e, remote[e]),
           net[e] \in Seq(Wires(s, e, now)), NEW arriving \in SUBSET Deliverable(e),
           After(remote[e], remote[e], {}),
           \A k \in arriving : Spans(s, e, remote[e], Acknowledges(net[e][k].packet))
    PROVE  After(remote[e], Receive(e, arriving, ReadingAt(s, e, now)), Brought(e, arriving))
<1> DEFINE reading == ReadingAt(s, e, now)
           queue == net[e]
           numbers == Brought(e, arriving)
           first == remote[e]
           x == [scenario |-> s, end |-> e, arriving |-> arriving, queue |-> queue,
                 reading |-> reading, base |-> first, numbers |-> numbers]
           N == Len(queue)
           IsReceived(f) == f = [k \in 0 .. Len(net[e]) |->
                IF k = 0 THEN remote[e]
                ELSE IF k \in arriving THEN ParseBuffer(e, f[k - 1], net[e][k].packet, reading)
                ELSE f[k - 1]]
           received == CHOOSE f : IsReceived(f)
<1>1. N \in Nat
  BY LenProperties
<1>2. PICK r : ReceivingAfter!IsLoop(r, N, first, x)
  BY <1>1, ReceivingAfter!LoopExists
<1>3. IsReceived(r)
  BY <1>2 DEF ReceivingAfter!IsLoop, ReceiveNext
<1>4. IsReceived(received)
  BY <1>3
<1>5. ReceivingAfter!IsLoop(received, N, first, x)
  BY <1>4 DEF ReceivingAfter!IsLoop, ReceiveNext
<1>6. StillAfter(first, 0, x)
  BY DEF StillAfter, After
<1>7. ASSUME NEW k \in 1 .. N, NEW q, StillAfter(q, k - 1, x)
      PROVE  StillAfter(ReceiveNext(q, k, x), k, x)
  <2>1. Runs(s, e, q) /\ After(first, q, numbers)
    BY <1>7 DEF StillAfter
  <2>2. CASE k \in arriving
    <3> DEFINE packet == queue[k].packet
               h == ParseBuffer(e, q, packet, reading)
    <3>1. packet \in Packets(Arriving(s, e))
      BY <2>2, ArrivingPackets
    <3>2. Numbers(packet) \subseteq numbers /\ Spans(s, e, first, Acknowledges(packet))
      BY <2>2 DEF Brought
    <3>3. ReceiveNext(q, k, x) = h
      BY <2>2 DEF ReceiveNext
    <3> HIDE DEF packet, numbers, first
    <3>4. Runs(s, e, h) /\ After(first, h, numbers)
      BY <2>1, <3>1, <3>2, ParseBufferRuns, ParseBufferAfter
    <3> HIDE DEF h
    <3> QED
      BY <3>3, <3>4 DEF StillAfter
  <2>3. CASE k \notin arriving
    <3>1. ReceiveNext(q, k, x) = q
      BY <2>3 DEF ReceiveNext
    <3> QED
      BY <2>1, <3>1 DEF StillAfter
  <2> QED
    BY <2>2, <2>3
<1>8. Receive(e, arriving, reading) = received[N]
  BY DEF Receive
<1> HIDE DEF received
<1>9. \A k \in 0 .. N : StillAfter(received[k], k, x)
  <2> HIDE DEF x, first, N
  <2> QED
    BY <1>1, <1>5, <1>6, <1>7, ReceivingAfter!LoopInvariant
<1>10. After(first, received[N], numbers)
  BY <1>1, <1>9 DEF StillAfter
<1> QED
  BY <1>8, <1>10

LEMMA ProcessHeldAfter ==
    ASSUME NEW s \in Scenarios, Timely(s), NEW e \in Ends, NEW p, Runs(s, e, p),
           NEW b, NEW numbers, After(b, p, numbers)
    PROVE  After(b, ProcessHeld(e, p, ReadingAt(s, e, now)), numbers)
<1> DEFINE reading == ReadingAt(s, e, now)
           entries == Held(s, e, now)
           held == p.held
           ready(k) == \A i \in 1 .. k : ShouldArrive(held[i], scenario.latency[e], reading)
           T == {k \in 0 .. Len(held) : ready(k)}
           N == Max(T)
           left == SubSeq(held, N + 1, Len(held))
           first == [p EXCEPT !.held = left]
           x == [scenario |-> s, end |-> e, held |-> held, reading |-> reading,
                 base |-> b, numbers |-> numbers]
           IsProcessed(f) == f = [k \in 0 .. N |->
                IF k = 0 THEN [p EXCEPT !.held = SubSeq(@, N + 1, Len(@))]
                ELSE ProcessMessage(e, f[k - 1], p.held[k].message, reading)]
           processed == CHOOSE f : IsProcessed(f)
<1>1. p \in Remotes(s, e, now)
  BY DEF Runs, Sound
<1>2. held \in Seq(entries)
  BY <1>1 DEF Remotes
<1>3. Len(held) \in Nat /\ \A k \in 1 .. Len(held) : held[k] \in entries
  <2> HIDE DEF held, entries
  <2> QED
    BY <1>2, LenProperties, ElementOfSeq
<1>4. N \in 0 .. Len(held) /\ ready(N)
  <2>1. 0 \in T
    BY <1>3
  <2>2. T \in SUBSET (0 .. Len(held))
    OBVIOUS
  <2> DEFINE K == T
  <2> HIDE DEF K, held
  <2>3. Max(K) \in K
    BY <1>3, <2>1, <2>2, MaxOfBounded DEF K
  <2> QED
    BY <2>3 DEF K
<1>5. ProcessHeld(e, p, reading) = processed[N]
  BY DEF ProcessHeld
<1>6. first = [p EXCEPT !.held = SubSeq(@, N + 1, Len(@))]
  BY <1>1 DEF Remotes
<1> HIDE DEF T
<1>7. left \in Seq(entries)
  <2> HIDE DEF N, entries, held
  <2> QED
    BY <1>3, <1>4, SubSeqProperties
<1>8. Runs(s, e, first) /\ After(b, first, numbers)
  <2> HIDE DEF left
  <2>1. first \in Remotes(s, e, now)
    BY <1>1, <1>7 DEF Remotes
  <2>2. /\ first.m_lastMessageTime = p.m_lastMessageTime /\ first.heard = p.heard
        /\ first.timedOut = p.timedOut /\ first.m_rtt = p.m_rtt /\ first.samples = p.samples
        /\ SameTable(p, first) /\ first.tx = p.tx /\ first.doubtful = p.doubtful /\ first.rx = p.rx
    BY <1>1 DEF Remotes, SameTable
  <2>3. \A m \in ToSet(p.tx.m_pendingMessages) : IsFresh(m)
    BY DEF After, Kept, Numbered
  <2> HIDE DEF first
  <2>4. Runs(s, e, first)
    BY <2>1, <2>2, OthersRun
  <2>5. After(b, first, numbers)
    BY <2>2, <2>3, OthersAfter
  <2> QED
    BY <2>4, <2>5
<1>9. N \in Nat
  BY <1>3, <1>4
<1> HIDE DEF N, left
<1>10. PICK r : ReleasingAfter!IsLoop(r, N, first, x)
  BY <1>9, ReleasingAfter!LoopExists
<1>11. IsProcessed(r)
  BY <1>6, <1>10 DEF ReleasingAfter!IsLoop, ReleaseNext
<1>12. IsProcessed(processed)
  BY <1>11
<1>13. ReleasingAfter!IsLoop(processed, N, first, x)
  <2> HIDE DEF processed
  <2> QED
    BY <1>6, <1>12 DEF ReleasingAfter!IsLoop, ReleaseNext
<1> HIDE DEF first
<1>14. StillAfter(first, 0, x)
  BY <1>8 DEF StillAfter
<1>15. ASSUME NEW k \in 1 .. N, NEW q, StillAfter(q, k - 1, x)
       PROVE  StillAfter(ReleaseNext(q, k, x), k, x)
  <2>1. Runs(s, e, q) /\ After(b, q, numbers)
    BY <1>15 DEF StillAfter
  <2>2. k \in 1 .. Len(held)
    BY <1>3, <1>4, <1>9
  <2>3. Arrived(s, e, held[k].message)
    BY <1>3, <1>4, <2>2, ReleasedArrived
  <2> DEFINE message == held[k].message
             h == ProcessMessage(e, q, message, reading)
  <2>4. ReleaseNext(q, k, x) = h
    BY DEF ReleaseNext
  <2> HIDE DEF message
  <2>5. Runs(s, e, h) /\ After(b, h, numbers)
    BY <2>1, <2>3, ProcessMessageRuns, ProcessMessageAfter DEF message
  <2> HIDE DEF h
  <2> QED
    BY <2>4, <2>5 DEF StillAfter
<1> HIDE DEF processed
<1>16. \A k \in 0 .. N : StillAfter(processed[k], k, x)
  <2> HIDE DEF x
  <2> QED
    BY <1>9, <1>13, <1>14, <1>15, ReleasingAfter!LoopInvariant
<1>17. After(b, processed[N], numbers)
  BY <1>9, <1>16 DEF StillAfter
<1> QED
  BY <1>5, <1>17

LEMMA UpdatePeerAfter ==
    ASSUME NEW s, NEW e, NEW p, Runs(s, e, p), NEW b, NEW numbers, After(b, p, numbers),
           NEW reading
    PROVE  After(b, UpdatePeer(e, p, reading), numbers)
<1> DEFINE q == UpdatePeer(e, p, reading)
           pending == p.tx.m_pendingMessages
           ask == KeepAlive(e, reading)
<1>1. p \in Remotes(s, e, now)
  BY DEF Runs, Sound
<1>2. pending \in Seq(From(s, e, now))
  BY <1>1 DEF Remotes, Senders
<1>3. SameTable(p, q)
  BY UpdatePeerSame
<1>4. /\ q.tx.m_sequenceOut = p.tx.m_sequenceOut /\ q.doubtful = p.doubtful /\ q.rx = p.rx
      /\ q.samples = p.samples
      /\ q.tx.m_pendingMessages \in {pending, Append(pending, ask)}
  BY <1>1 DEF UpdatePeer, EnqueueMessage, Remotes, Senders
<1>5. IsFresh(ask)
  BY DEF KeepAlive, IsFresh
<1>6. \A m \in ToSet(pending) : IsFresh(m)
  BY DEF After, Kept, Numbered
<1> HIDE DEF q, pending, ask
<1>7. \A m \in ToSet(q.tx.m_pendingMessages) : IsFresh(m)
  <2>1. ToSet(Append(pending, ask)) = ToSet(pending) \cup {ask}
    BY <1>2, ToSetAppend
  <2> QED
    BY <1>4, <1>5, <1>6, <2>1
<1>8. After(b, q, numbers)
  BY <1>3, <1>4, <1>7, OthersAfter
<1> QED
  BY <1>8 DEF q

-----------------------------------------------------------------------------
\* Of an end, whose next sequence is out: rx is the receive side of the other
\* end, there and back are the packets on their way to it and from it.
\* Whatever travels has been numbered.
Travelled(out, rx, there, back) ==
    /\ \A sent \in there : Numbers(sent.packet) \subseteq 1 .. out - 1
    /\ Acked(rx) \subseteq 0 .. out - 1
    /\ \A sent \in back : Acknowledges(sent.packet) \subseteq 0 .. out - 1

\* A sequence that went out at time t is not got nor acknowledged earlier than
\* the network allows.
Timed(n, t, rx, there, back, moment) ==
    /\ \A sent \in there : n \in Numbers(sent.packet) => t <= sent.left
    /\ n \in Acked(rx) => t + MinDelay <= moment
    /\ \A sent \in back : n \in Acknowledges(sent.packet) => t + MinDelay <= sent.left

\* As long as no reliable message has gone out twice, the send times are those
\* of the messages that wait.
Echoed(s, e, p, rx, there, back, moment) ==
    ~p.doubtful =>
        \A m \in ToSet(p.tx.m_reliableMessages) :
            \E t \in 0 .. moment :
                /\ m.m_sequence \in DOMAIN p.m_seqtrackSent =>
                        p.m_seqtrackSent[m.m_sequence] = ReadingAt(s, e, t)
                /\ Timed(m.m_sequence, t, rx, there, back, moment)

There(e) == ToSet(net[Other(e)])
Back(e) == ToSet(net[e])

Echoes(e) ==
    LET p == remote[e]
        rx == remote[Other(e)].rx
    IN  /\ Numbered(p) /\ RealAcks(p)
        /\ Travelled(p.tx.m_sequenceOut, rx, There(e), Back(e))
        /\ Echoed(scenario, e, p, rx, There(e), Back(e), now)

AcksInv == \A e \in Ends : Echoes(e)

LEMMA TravelledOn ==
    ASSUME NEW out \in Int, NEW later \in Int, out <= later, NEW rx, NEW there, NEW back,
           Travelled(out, rx, there, back), NEW rx2, NEW there2, NEW back2,
           \A w \in there2 : w \in there \/ Numbers(w.packet) \subseteq 1 .. later - 1,
           \A n \in Acked(rx2) : n \in Acked(rx) \/ \E w \in there : n \in Numbers(w.packet),
           \A w \in back2 : w \in back \/ Acknowledges(w.packet) \subseteq Acked(rx2)
    PROVE  Travelled(later, rx2, there2, back2)
<1>1. 1 .. out - 1 \subseteq 1 .. later - 1 /\ 0 .. out - 1 \subseteq 0 .. later - 1
  OBVIOUS
<1>2. 1 .. out - 1 \subseteq 0 .. out - 1
  OBVIOUS
<1>3. Acked(rx2) \subseteq 0 .. out - 1
  BY <1>2 DEF Travelled
<1> QED
  BY <1>1, <1>3 DEF Travelled

LEMMA EchoedOn ==
    ASSUME NEW s, NEW e, NEW moment \in Nat, NEW p, NEW q, NEW rx, NEW there, NEW back,
           Numbered(q), p.tx.m_sequenceOut \in Int,
           Travelled(p.tx.m_sequenceOut, rx, there, back),
           Echoed(s, e, p, rx, there, back, moment),
           NEW there2, NEW back2 \in SUBSET back,
           \/ Kept(p, q) /\ there2 \subseteq there
           \/ /\ \A w \in there2 : w \in there \/ w.left = moment
              /\ ~q.doubtful =>
                    \A m \in ToSet(q.tx.m_reliableMessages) :
                        /\ p.tx.m_sequenceOut <= m.m_sequence
                        /\ q.m_seqtrackSent[m.m_sequence] = ReadingAt(s, e, moment)
    PROVE  Echoed(s, e, q, rx, there2, back2, moment)
<1> SUFFICES ASSUME ~q.doubtful, NEW m \in ToSet(q.tx.m_reliableMessages)
             PROVE  \E t \in 0 .. moment :
                        /\ m.m_sequence \in DOMAIN q.m_seqtrackSent =>
                                q.m_seqtrackSent[m.m_sequence] = ReadingAt(s, e, t)
                        /\ Timed(m.m_sequence, t, rx, there2, back2, moment)
  BY DEF Echoed
<1> DEFINE n == m.m_sequence
<1>1. CASE Kept(p, q) /\ there2 \subseteq there
  <2>1. ~p.doubtful /\ m \in ToSet(p.tx.m_reliableMessages)
    BY <1>1 DEF Kept
  <2>2. PICK t \in 0 .. moment :
            /\ n \in DOMAIN p.m_seqtrackSent => p.m_seqtrackSent[n] = ReadingAt(s, e, t)
            /\ Timed(n, t, rx, there, back, moment)
    BY <2>1 DEF Echoed
  <2>3. Timed(n, t, rx, there2, back2, moment)
    BY <1>1, <2>2 DEF Timed
  <2>4. n \in DOMAIN q.m_seqtrackSent => q.m_seqtrackSent[n] = ReadingAt(s, e, t)
    BY <1>1, <2>2 DEF Kept
  <2> QED
    BY <2>3, <2>4
<1>2. CASE /\ \A w \in there2 : w \in there \/ w.left = moment
           /\ \A k \in ToSet(q.tx.m_reliableMessages) :
                /\ p.tx.m_sequenceOut <= k.m_sequence
                /\ q.m_seqtrackSent[k.m_sequence] = ReadingAt(s, e, moment)
  <2> DEFINE out == p.tx.m_sequenceOut
  <2>1. out <= n /\ q.m_seqtrackSent[n] = ReadingAt(s, e, moment)
    BY <1>2
  <2>2. n \in Int
    <3>1. n \in 1 .. q.tx.m_sequenceOut - 1 /\ q.tx.m_sequenceOut \in 1 .. Modulus - 1
      BY DEF Numbered
    <3> QED
      BY <3>1, ModulusType
  <2>3. n \notin 0 .. out - 1 /\ n \notin 1 .. out - 1
    BY <2>1, <2>2
  <2> HIDE DEF n, out
  <2>4. /\ \A w \in there : n \notin Numbers(w.packet)
        /\ n \notin Acked(rx)
        /\ \A w \in back : n \notin Acknowledges(w.packet)
    BY <2>3 DEF Travelled, out
  <2>5. Timed(n, moment, rx, there2, back2, moment)
    BY <1>2, <2>4 DEF Timed
  <2>6. moment \in 0 .. moment
    OBVIOUS
  <2> QED
    BY <2>1, <2>5, <2>6 DEF n
<1> QED
  BY <1>1, <1>2

LEMMA EchoedOther ==
    ASSUME NEW s, NEW e, NEW moment \in Nat, NEW p, NEW rx, NEW there, NEW back,
           Echoed(s, e, p, rx, there, back, moment),
           NEW rx2, NEW there2 \in SUBSET there, NEW back2,
           \A n \in Acked(rx2) :
                \/ n \in Acked(rx)
                \/ \E w \in there : /\ n \in Numbers(w.packet) /\ w.left \in Int
                                    /\ w.left + MinDelay <= moment,
           \A w \in back2 :
                w \in back \/ (w.left = moment /\ Acknowledges(w.packet) \subseteq Acked(rx2))
    PROVE  Echoed(s, e, p, rx2, there2, back2, moment)
<1> SUFFICES ASSUME ~p.doubtful, NEW m \in ToSet(p.tx.m_reliableMessages)
             PROVE  \E t \in 0 .. moment :
                        /\ m.m_sequence \in DOMAIN p.m_seqtrackSent =>
                                p.m_seqtrackSent[m.m_sequence] = ReadingAt(s, e, t)
                        /\ Timed(m.m_sequence, t, rx2, there2, back2, moment)
  BY DEF Echoed
<1> DEFINE n == m.m_sequence
<1>1. PICK t \in 0 .. moment :
        /\ n \in DOMAIN p.m_seqtrackSent => p.m_seqtrackSent[n] = ReadingAt(s, e, t)
        /\ Timed(n, t, rx, there, back, moment)
  BY DEF Echoed
<1>2. MinDelay \in Nat /\ t \in Int
  BY RoundTripAssumption
<1> HIDE DEF n
<1>3. n \in Acked(rx2) => t + MinDelay <= moment
  <2> SUFFICES ASSUME n \in Acked(rx2) PROVE t + MinDelay <= moment
    OBVIOUS
  <2>1. CASE n \in Acked(rx)
    BY <1>1, <2>1 DEF Timed
  <2>2. ASSUME NEW w \in there, n \in Numbers(w.packet), w.left \in Int, w.left + MinDelay <= moment
        PROVE  t + MinDelay <= moment
    <3>1. t <= w.left
      BY <1>1, <2>2 DEF Timed
    <3> QED
      BY <1>2, <2>2, <3>1
  <2> QED
    BY <2>1, <2>2
<1>4. Timed(n, t, rx2, there2, back2, moment)
  BY <1>1, <1>3 DEF Timed
<1> QED
  BY <1>1, <1>4 DEF n

LEMMA EchoedLater ==
    ASSUME NEW s, NEW e, NEW moment \in Nat, NEW later \in Nat, moment <= later,
           NEW p, NEW rx, NEW there, NEW back, Echoed(s, e, p, rx, there, back, moment)
    PROVE  Echoed(s, e, p, rx, there, back, later)
<1> SUFFICES ASSUME ~p.doubtful, NEW m \in ToSet(p.tx.m_reliableMessages)
             PROVE  \E t \in 0 .. later :
                        /\ m.m_sequence \in DOMAIN p.m_seqtrackSent =>
                                p.m_seqtrackSent[m.m_sequence] = ReadingAt(s, e, t)
                        /\ Timed(m.m_sequence, t, rx, there, back, later)
  BY DEF Echoed
<1> DEFINE n == m.m_sequence
<1>1. PICK t \in 0 .. moment :
        /\ n \in DOMAIN p.m_seqtrackSent => p.m_seqtrackSent[n] = ReadingAt(s, e, t)
        /\ Timed(n, t, rx, there, back, moment)
  BY DEF Echoed
<1>2. MinDelay \in Nat /\ t \in Nat /\ t \in 0 .. later
  BY RoundTripAssumption
<1> HIDE DEF n
<1>3. n \in Acked(rx) => t + MinDelay <= later
  BY <1>1, <1>2 DEF Timed
<1>4. Timed(n, t, rx, there, back, later)
  BY <1>1, <1>3 DEF Timed
<1> QED
  BY <1>1, <1>2, <1>4 DEF n

-----------------------------------------------------------------------------
LEMMA OtherEnd ==
    ASSUME NEW e \in Ends
    PROVE  /\ Other(e) \in Ends /\ Other(Other(e)) = e /\ Other(e) # e
           /\ \A f \in Ends : f = e \/ f = Other(e)
BY DEF Other, Ends

\* What a packet acknowledges that arrives has been there and back.
LEMMA ArrivedSpans ==
    ASSUME NEW s \in Scenarios, Timely(s), NEW e \in Ends, Echoes(e),
           net[e] \in Seq(Wires(s, e, now)), NEW arriving \in SUBSET Deliverable(e),
           NEW k \in arriving
    PROVE  Spans(s, e, remote[e], Acknowledges(net[e][k].packet))
<1> DEFINE b == remote[e]
           rx == remote[Other(e)].rx
           wire == net[e][k]
<1>1. /\ k \in DOMAIN net[e] /\ wire \in ToSet(net[e]) /\ now - wire.left >= MinDelay
  BY DEF Deliverable, ToSet
<1>2. wire.left \in 0 .. now /\ now \in Nat /\ MinDelay \in Nat
  <2>1. wire \in Wires(s, e, now)
    BY <1>1, ToSetType
  <2>2. now \in Nat /\ MinDelay \in Nat
    BY RoundTripAssumption DEF Timely, LastMoment
  <2> HIDE DEF wire
  <2> QED
    BY <2>1, <2>2 DEF Wires
<1>3. wire.left + MinDelay <= now /\ wire.left \in Nat
  BY <1>1, <1>2
<1> HIDE DEF wire
<1> SUFFICES ASSUME ~b.doubtful, NEW m \in ToSet(b.tx.m_reliableMessages),
                    m.m_sequence \in Acknowledges(wire.packet),
                    m.m_sequence \in DOMAIN b.m_seqtrackSent
             PROVE  \E t \in 0 .. now : /\ b.m_seqtrackSent[m.m_sequence] = ReadingAt(s, e, t)
                                        /\ t + 2 * MinDelay <= now
  BY DEF Spans, wire
<1>4. Echoed(scenario, e, b, rx, There(e), Back(e), now)
  BY DEF Echoes
<1>5. PICK t \in 0 .. now :
        /\ b.m_seqtrackSent[m.m_sequence] = ReadingAt(scenario, e, t)
        /\ Timed(m.m_sequence, t, rx, There(e), Back(e), now)
  BY <1>4 DEF Echoed
<1>6. t + MinDelay <= wire.left /\ t \in Nat
  BY <1>1, <1>2, <1>5 DEF Timed, Back
<1>7. t + 2 * MinDelay <= now
  BY <1>2, <1>3, <1>6
<1>8. ReadingAt(scenario, e, t) = ReadingAt(s, e, t)
  BY DEF ReadingAt, Timely
<1> QED
  BY <1>5, <1>7, <1>8

\* A step of one end while no time passes: it gets packets, and at most sends
\* one.
LEMMA MovedOn ==
    ASSUME NEW s \in Scenarios, Timely(s), AcksInv, NEW e \in Ends,
           net[e] \in Seq(Wires(s, e, now)),
           now' = now, scenario'.first = scenario.first, remote'[Other(e)] = remote[Other(e)],
           ToSet(net'[e]) \subseteq ToSet(net[e]), NEW arriving \in SUBSET Deliverable(e),
           Numbered(remote'[e]), RealAcks(remote'[e]),
           remote[e].tx.m_sequenceOut <= remote'[e].tx.m_sequenceOut,
           Acked(remote'[e].rx) \subseteq Acked(remote[e].rx) \cup Brought(e, arriving),
           \/ Kept(remote[e], remote'[e]) /\ ToSet(net'[Other(e)]) \subseteq ToSet(net[Other(e)])
           \/ /\ \A w \in ToSet(net'[Other(e)]) :
                    \/ w \in ToSet(net[Other(e)])
                    \/ /\ w.left = now
                       /\ Numbers(w.packet) \subseteq 1 .. remote'[e].tx.m_sequenceOut - 1
                       /\ Acknowledges(w.packet) \subseteq Acked(remote'[e].rx)
              /\ ~remote'[e].doubtful =>
                    \A m \in ToSet(remote'[e].tx.m_reliableMessages) :
                        /\ remote[e].tx.m_sequenceOut <= m.m_sequence
                        /\ remote'[e].m_seqtrackSent[m.m_sequence] = ReadingAt(s, e, now)
    PROVE  AcksInv'
<1> DEFINE o == Other(e)
           p == remote[e]
           q == remote'[e]
           r == remote[o]
           there == ToSet(net[o])
           back == ToSet(net[e])
           there2 == ToSet(net'[o])
           back2 == ToSet(net'[e])
           out == p.tx.m_sequenceOut
           later == q.tx.m_sequenceOut
           other == r.tx.m_sequenceOut
           first == ReadingAt(scenario, e, now)
<1>1. o \in Ends /\ Other(o) = e /\ \A f \in Ends : f = e \/ f = o
  BY OtherEnd
<1>2. /\ Numbered(p) /\ Travelled(out, r.rx, there, back)
      /\ Echoed(scenario, e, p, r.rx, there, back, now)
  BY DEF AcksInv, Echoes, There, Back
<1>3. /\ Numbered(r) /\ RealAcks(r) /\ Travelled(other, p.rx, back, there)
      /\ Echoed(scenario, o, r, p.rx, back, there, now)
  BY <1>1 DEF AcksInv, Echoes, There, Back
<1>4. now \in Nat /\ MinDelay \in Nat
  BY RoundTripAssumption DEF Timely, LastMoment
<1>5. out \in Int /\ later \in Int /\ out <= later /\ other \in Int
  BY <1>2, <1>3, ModulusType DEF Numbered
<1>6. \A n \in Brought(e, arriving) :
            \E w \in back : n \in Numbers(w.packet) /\ w.left \in Int /\ w.left + MinDelay <= now
  <2> SUFFICES ASSUME NEW k \in arriving, NEW n \in Numbers(net[e][k].packet)
               PROVE  /\ net[e][k] \in back /\ net[e][k].left \in Int
                      /\ net[e][k].left + MinDelay <= now
    BY DEF Brought
  <2> DEFINE w == net[e][k]
  <2>1. w \in back /\ now - w.left >= MinDelay
    BY DEF Deliverable, ToSet
  <2>2. w \in Wires(s, e, now)
    BY <2>1, ToSetType
  <2> HIDE DEF w
  <2>3. w.left \in 0 .. now
    BY <2>2 DEF Wires
  <2> QED
    BY <1>4, <2>1, <2>3 DEF w
<1>7. /\ \A n \in Acked(q.rx) : n \in Acked(p.rx) \/ \E w \in back :
                n \in Numbers(w.packet) /\ w.left \in Int /\ w.left + MinDelay <= now
  BY <1>6
<1>8. ReadingAt(scenario, e, now) = ReadingAt(s, e, now)
  BY DEF ReadingAt, Timely
<1>9. /\ back2 \in SUBSET back /\ Numbered(q) /\ RealAcks(q)
      /\ \A w \in there2 :
            \/ w \in there
            \/ /\ w.left = now
               /\ Numbers(w.packet) \subseteq 1 .. later - 1
               /\ Acknowledges(w.packet) \subseteq Acked(q.rx)
  OBVIOUS
<1>10. \/ Kept(p, q) /\ there2 \subseteq there
       \/ /\ \A w \in there2 : w \in there \/ w.left = now
          /\ ~q.doubtful =>
                \A m \in ToSet(q.tx.m_reliableMessages) :
                    /\ p.tx.m_sequenceOut <= m.m_sequence
                    /\ q.m_seqtrackSent[m.m_sequence] = ReadingAt(scenario, e, now)
  <2>1. CASE Kept(p, q) /\ there2 \subseteq there
    BY <2>1
  <2>2. CASE ~(Kept(p, q) /\ there2 \subseteq there)
    <3>1. ~q.doubtful =>
                \A m \in ToSet(q.tx.m_reliableMessages) :
                    /\ p.tx.m_sequenceOut <= m.m_sequence
                    /\ q.m_seqtrackSent[m.m_sequence] = ReadingAt(s, e, now)
      BY <2>2
    <3> QED
      BY <1>8, <1>9, <3>1
  <2> QED
    BY <2>1, <2>2
<1> HIDE DEF p, q, r, there, back, there2, back2, out, later, other
<1>11. Echoed(scenario, e, q, r.rx, there2, back2, now)
  <2> DEFINE known == r.rx
             number == p.tx.m_sequenceOut
  <2>1. /\ Numbered(q) /\ number \in Int /\ back2 \in SUBSET back
        /\ Travelled(number, known, there, back)
        /\ Echoed(scenario, e, p, known, there, back, now)
    BY <1>2, <1>5, <1>9 DEF out
  <2> HIDE DEF known
  <2>2. Echoed(scenario, e, q, known, there2, back2, now)
    BY <1>4, <1>10, <2>1, EchoedOn, ZenonT(30)
  <2> QED
    BY <2>2 DEF known
<1>12. Travelled(later, r.rx, there2, back2)
  BY <1>2, <1>5, <1>9, TravelledOn
<1>13. Echoed(scenario, o, r, q.rx, back2, there2, now)
  <2> DEFINE got == q.rx
             before == p.rx
  <2>1. \A w \in there2 : w \in there \/ (w.left = now /\ Acknowledges(w.packet) \subseteq Acked(got))
    BY <1>9
  <2>2. Echoed(scenario, o, r, before, back, there, now) /\ back2 \in SUBSET back
    BY <1>3, <1>9
  <2>3. \A n \in Acked(got) : n \in Acked(before) \/ \E w \in back :
                n \in Numbers(w.packet) /\ w.left \in Int /\ w.left + MinDelay <= now
    BY <1>7
  <2> HIDE DEF got, before, o
  <2>4. now \in Nat /\ Echoed(scenario, o, r, before, back, there, now)
    BY <1>4, <2>2
  <2>5. back2 \in SUBSET back
    BY <2>2
  <2>6. Echoed(scenario, o, r, got, back2, there2, now)
    BY <2>1, <2>3, <2>4, <2>5, EchoedOther, ZenonT(120)
  <2> QED
    BY <2>6 DEF got
<1>14. Travelled(other, q.rx, back2, there2)
  BY <1>3, <1>5, <1>7, <1>9, TravelledOn
<1>15. /\ \A f, a, b, c, d : Echoed(scenario, f, a, b, c, d, now) => Echoed(scenario', f, a, b, c, d, now)
  BY DEF Echoed, ReadingAt
<1>16. Echoes(e)'
  <2>1. (Numbered(remote[e]) /\ RealAcks(remote[e]))'
    BY <1>9 DEF q
  <2>2. Travelled(remote[e].tx.m_sequenceOut, remote[o].rx, There(e), Back(e))'
    BY <1>12 DEF later, q, r, there2, back2, There, Back
  <2>3. Echoed(scenario, e, remote[e], remote[o].rx, There(e), Back(e), now)'
    BY <1>11, <1>15 DEF q, r, there2, back2, There, Back
  <2> QED
    BY <2>1, <2>2, <2>3 DEF Echoes
<1>17. Echoes(o)'
  <2>1. (Numbered(remote[o]) /\ RealAcks(remote[o]))'
    BY <1>3 DEF r
  <2>2. Travelled(remote[o].tx.m_sequenceOut, remote[e].rx, There(o), Back(o))'
    BY <1>1, <1>14 DEF other, q, r, there2, back2, There, Back
  <2>3. Echoed(scenario, o, remote[o], remote[e].rx, There(o), Back(o), now)'
    BY <1>1, <1>13, <1>15 DEF q, r, there2, back2, There, Back
  <2> QED
    BY <1>1, <2>1, <2>2, <2>3 DEF Echoes
<1> QED
  BY <1>1, <1>16, <1>17 DEF AcksInv

-----------------------------------------------------------------------------
LEMMA KeptSelf == ASSUME NEW p, Numbered(p) PROVE Kept(p, p)
BY DEF Kept

LEMMA UpdateNetworkAcks ==
    ASSUME Platform = "windows", MaximumPacketSize < Modulus - 1,
           NEW s \in Scenarios, Going(s), AcksInv, NEW e \in Ends, UpdateNetwork(e),
           remote[e].tx.m_sequenceOut <= remote'[e].tx.m_sequenceOut
    PROVE  AcksInv'
<1>1. PICK arriving \in SUBSET Deliverable(e) :
        LET reading_1 == Reading(e)
            received == Receive(e, arriving, reading_1)
            updated == UpdatePeer(e, ProcessHeld(e, received, reading_1), reading_1)
            packet == BuildPacket(updated.tx, updated.rx)
            rest == [net EXCEPT ![e] = StillOnTheirWay(@, arriving)]
        IN  /\ Overdue(e) \subseteq arriving
            /\ IF IsDue(updated, reading_1)
               THEN /\ remote' = [remote EXCEPT ![e] = AfterPacket(updated, packet, reading_1)]
                    /\ net' = [rest EXCEPT ![Other(e)] =
                                    Append(@, [packet |-> packet, left |-> now])]
               ELSE /\ remote' = [remote EXCEPT ![e] = updated]
                    /\ net' = rest
  BY Zenon DEF UpdateNetwork
<1> DEFINE reading == ReadingAt(s, e, now)
           received == Receive(e, arriving, reading)
           processed == ProcessHeld(e, received, reading)
           updated == UpdatePeer(e, processed, reading)
           packet == BuildPacket(updated.tx, updated.rx)
           way == StillOnTheirWay(net[e], arriving)
           rest == [net EXCEPT ![e] = StillOnTheirWay(@, arriving)]
           sent == AfterPacket(updated, packet, reading)
           wire == [packet |-> packet, left |-> now]
           o == Other(e)
           b == remote[e]
           numbers == Brought(e, arriving)
<1>2. /\ Scheduled(s) /\ Timely(s) /\ DOMAIN remote = Ends /\ DOMAIN net = Ends
      /\ \A f \in Ends : Lasting(s, f, remote[f]) /\ net[f] \in Seq(Wires(s, f, now))
  BY ScheduledTimely DEF Going
<1>3. Runs(s, e, b)
  BY <1>2 DEF UpdateNetwork, Lasting, Runs
<1>4. Echoes(e) /\ Numbered(b) /\ RealAcks(b)
  BY DEF AcksInv, Echoes
<1>5. Reading(e) = reading
  <2>1. now \in 0 .. now
    BY <1>2, RoundTripAssumption DEF Timely, LastMoment
  <2> QED
    BY <1>2, <2>1, TimelyReadings
<1>6. After(b, b, {})
  BY <1>4, KeptSelf DEF After
<1>7. \A k \in arriving : Spans(s, e, b, Acknowledges(net[e][k].packet))
  BY <1>2, <1>4, ArrivedSpans
<1>8. Runs(s, e, received) /\ After(b, received, numbers)
  BY <1>2, <1>3, <1>6, <1>7, ReceiveRuns, ReceiveAfter
<1> HIDE DEF received, numbers, b
<1>9. Runs(s, e, processed) /\ After(b, processed, numbers)
  BY <1>2, <1>8, ProcessHeldRuns, ProcessHeldAfter
<1> HIDE DEF processed
<1>10. /\ ~updated.timedOut => Runs(s, e, updated)
       /\ After(b, updated, numbers)
  BY <1>2, <1>9, UpdatePeerLasts, UpdatePeerAfter
<1>11. \/ remote' = [remote EXCEPT ![e] = updated] /\ net' = rest
       \/ /\ ~updated.timedOut
          /\ remote' = [remote EXCEPT ![e] = sent]
          /\ net' = [rest EXCEPT ![o] = Append(@, wire)]
  BY <1>1, <1>5, Zenon DEF IsDue, received, processed
<1>12. now' = now /\ scenario' = scenario
  BY DEF UpdateNetwork
<1> HIDE DEF updated
<1>13. o \in Ends /\ o # e
  BY OtherEnd
<1>14. ToSet(way) \subseteq ToSet(net[e]) /\ rest[e] = way /\ rest[o] = net[o] /\ DOMAIN rest = Ends
  <2>1. net[e] \in Seq(ToSet(net[e]))
    BY <1>2, ToSetType
  <2>2. way \in Seq(ToSet(net[e]))
    BY <2>1, StillOnTheirWayType
  <2> HIDE DEF way
  <2>3. ToSet(way) \subseteq ToSet(net[e])
    BY <2>2, ToSetType
  <2> QED
    BY <1>2, <1>13, <2>3 DEF way
<1>15. /\ Kept(b, updated) /\ Numbered(updated) /\ RealAcks(updated)
       /\ Acked(updated.rx) \subseteq Acked(b.rx) \cup numbers
       /\ updated.tx.m_sequenceOut = b.tx.m_sequenceOut
  BY <1>10 DEF After, Kept
<1> HIDE DEF rest, way
<1>16. CASE remote' = [remote EXCEPT ![e] = updated] /\ net' = rest
  <2>1. /\ remote'[e] = updated /\ remote'[o] = remote[o]
        /\ ToSet(net'[e]) \subseteq ToSet(net[e]) /\ net'[o] = net[o]
    BY <1>2, <1>13, <1>14, <1>16
  <2>2. /\ Numbered(remote'[e]) /\ RealAcks(remote'[e]) /\ Kept(remote[e], remote'[e])
        /\ remote[e].tx.m_sequenceOut <= remote'[e].tx.m_sequenceOut
        /\ Acked(remote'[e].rx) \subseteq Acked(remote[e].rx) \cup Brought(e, arriving)
    BY <1>15, <2>1 DEF b, numbers
  <2>3. scenario'.first = scenario.first /\ remote'[Other(e)] = remote[Other(e)]
    BY <1>12, <2>1
  <2>4. ToSet(net'[Other(e)]) \subseteq ToSet(net[Other(e)]) /\ net[e] \in Seq(Wires(s, e, now))
    BY <1>2, <2>1
  <2> HIDE DEF o
  <2> QED
    BY <1>2, <1>12, <2>1, <2>2, <2>3, <2>4, MovedOn
<1>17. CASE /\ ~updated.timedOut
            /\ remote' = [remote EXCEPT ![e] = sent]
            /\ net' = [rest EXCEPT ![o] = Append(@, wire)]
  <2>1. /\ remote'[e] = sent /\ remote'[o] = remote[o]
        /\ ToSet(net'[e]) \subseteq ToSet(net[e]) /\ net'[o] = Append(net[o], wire)
    BY <1>2, <1>13, <1>14, <1>17
  <2>2. Runs(s, e, updated) /\ updated.tx.m_sequenceOut <= sent.tx.m_sequenceOut
    <3>1. remote[e].tx.m_sequenceOut <= sent.tx.m_sequenceOut
      BY <2>1
    <3> QED
      BY <1>10, <1>15, <1>17, <3>1 DEF b
  <2>3. /\ Numbered(sent) /\ sent.rx = updated.rx /\ sent.samples = updated.samples
        /\ Numbers(packet) \subseteq 1 .. sent.tx.m_sequenceOut - 1
        /\ ~sent.doubtful =>
            /\ ~updated.doubtful
            /\ \A m \in ToSet(sent.tx.m_reliableMessages) :
                /\ updated.tx.m_sequenceOut <= m.m_sequence
                /\ sent.m_seqtrackSent[m.m_sequence] = reading
    BY <1>15, <2>2, AfterPacketNumbered
  <2>4. Acknowledges(packet) \subseteq Acked(updated.rx)
    <3>1. updated.rx \in Receivers
      BY <2>2 DEF Runs, Sound, Remotes
    <3> QED
      BY <3>1, BuildPacketAcks
  <2>5. RealAcks(sent)
    BY <1>15, <2>3 DEF RealAcks
  <2> HIDE DEF sent, packet
  <2>6. ToSet(net'[o]) = ToSet(net[o]) \cup {wire}
    <3>1. net[o] \in Seq(Wires(s, o, now))
      BY <1>2, <1>13
    <3> HIDE DEF wire, o
    <3> QED
      BY <2>1, <3>1, ToSetAppend
  <2>7. \A w \in ToSet(net'[Other(e)]) :
            \/ w \in ToSet(net[Other(e)])
            \/ /\ w.left = now
               /\ Numbers(w.packet) \subseteq 1 .. remote'[e].tx.m_sequenceOut - 1
               /\ Acknowledges(w.packet) \subseteq Acked(remote'[e].rx)
    BY <2>1, <2>3, <2>4, <2>6
  <2>8. ~remote'[e].doubtful =>
            \A m \in ToSet(remote'[e].tx.m_reliableMessages) :
                /\ remote[e].tx.m_sequenceOut <= m.m_sequence
                /\ remote'[e].m_seqtrackSent[m.m_sequence] = ReadingAt(s, e, now)
    BY <1>15, <2>1, <2>3 DEF b
  <2>9. /\ Numbered(remote'[e]) /\ RealAcks(remote'[e])
        /\ Acked(remote'[e].rx) \subseteq Acked(remote[e].rx) \cup Brought(e, arriving)
    BY <1>15, <2>1, <2>3, <2>5 DEF b, numbers
  <2>10. scenario'.first = scenario.first /\ remote'[Other(e)] = remote[Other(e)]
    BY <1>12, <2>1
  <2>11. net[e] \in Seq(Wires(s, e, now))
    BY <1>2
  <2> HIDE DEF o, reading, wire
  <2> QED
    BY <1>2, <1>12, <2>1, <2>7, <2>8, <2>9, <2>10, <2>11, MovedOn
<1> QED
  BY <1>11, <1>16, <1>17

LEMMA SendToAcks ==
    ASSUME Platform = "windows", NEW s \in Scenarios, Going(s), AcksInv, NEW e \in Ends, SendTo(e)
    PROVE  AcksInv'
<1> DEFINE b == remote[e]
           pending == b.tx.m_pendingMessages
           game == GameMessage(e)
           q == [b EXCEPT !.tx = EnqueueMessage(@, game)]
<1>1. /\ Scheduled(s) /\ Timely(s) /\ DOMAIN remote = Ends /\ DOMAIN net = Ends
      /\ \A f \in Ends : Lasting(s, f, remote[f]) /\ net[f] \in Seq(Wires(s, f, now))
  BY ScheduledTimely DEF Going
<1>2. b \in Remotes(s, e, now) /\ Numbered(b) /\ RealAcks(b)
  BY <1>1 DEF Lasting, Sound, AcksInv, Echoes
<1>3. pending \in Seq(From(s, e, now))
  BY <1>2 DEF Remotes, Senders
<1>4. /\ SameTable(b, q) /\ q.tx.m_sequenceOut = b.tx.m_sequenceOut /\ q.doubtful = b.doubtful
      /\ q.samples = b.samples /\ q.rx = b.rx
      /\ q.tx.m_pendingMessages = Append(pending, game)
  BY <1>2 DEF EnqueueMessage, Remotes, Senders, SameTable
<1>5. remote' = [remote EXCEPT ![e] = q]
  BY <1>1, <1>2 DEF SendTo, Remotes
<1>6. After(b, b, {})
  BY <1>2, KeptSelf DEF After
<1>7. \A m \in ToSet(q.tx.m_pendingMessages) : IsFresh(m)
  <2>1. \A m \in ToSet(pending) : IsFresh(m)
    BY <1>2 DEF Numbered
  <2>2. IsFresh(game)
    BY DEF GameMessage, IsFresh
  <2> HIDE DEF q, pending, game
  <2>3. ToSet(Append(pending, game)) = ToSet(pending) \cup {game}
    BY <1>3, ToSetAppend
  <2> QED
    BY <1>4, <2>1, <2>2, <2>3
<1> HIDE DEF q, b
<1>8. After(b, q, {})
  BY <1>4, <1>6, <1>7, OthersAfter
<1>9. remote'[e] = q /\ remote'[Other(e)] = remote[Other(e)]
  BY <1>1, <1>5, OtherEnd
<1>10. /\ Numbered(remote'[e]) /\ RealAcks(remote'[e]) /\ Kept(remote[e], remote'[e])
       /\ Acked(remote'[e].rx) \subseteq Acked(remote[e].rx) \cup Brought(e, {})
       /\ remote[e].tx.m_sequenceOut <= remote'[e].tx.m_sequenceOut
  <2>1. q.tx.m_sequenceOut = b.tx.m_sequenceOut /\ q.tx.m_sequenceOut \in Int
    BY <1>4, <1>8, ModulusType DEF After, Kept, Numbered
  <2> QED
    BY <1>8, <1>9, <2>1 DEF After, Kept, b
<1>11. now' = now /\ net' = net
  BY DEF SendTo
<1>12. scenario'.first = scenario.first
  BY <1>1 DEF SendTo, Scheduled
<1>13. {} \in SUBSET Deliverable(e)
  OBVIOUS
<1>14. /\ ToSet(net'[e]) \subseteq ToSet(net[e])
       /\ ToSet(net'[Other(e)]) \subseteq ToSet(net[Other(e)])
       /\ net[e] \in Seq(Wires(s, e, now))
  BY <1>1, <1>11
<1> QED
  BY <1>1, <1>9, <1>10, <1>11, <1>12, <1>13, <1>14, MovedOn

\* Neither a loss nor a stall nor a stuttering step puts anything on the way.
LEMMA NothingNew ==
    ASSUME Platform = "windows", NEW s \in Scenarios, Going(s), AcksInv, NEW e \in Ends,
           now' = now, remote' = remote, scenario'.first = scenario.first,
           ToSet(net'[e]) \subseteq ToSet(net[e]), net'[Other(e)] = net[Other(e)]
    PROVE  AcksInv'
<1>1. Timely(s) /\ net[e] \in Seq(Wires(s, e, now))
  BY ScheduledTimely DEF Going
<1>2. Numbered(remote[e]) /\ RealAcks(remote[e])
  BY DEF AcksInv, Echoes
<1>3. remote[e].tx.m_sequenceOut <= remote[e].tx.m_sequenceOut
  BY <1>2, ModulusType DEF Numbered
<1>4. {} \in SUBSET Deliverable(e)
  OBVIOUS
<1>5. Kept(remote[e], remote'[e])
  BY <1>2, KeptSelf
<1>6. /\ Numbered(remote'[e]) /\ RealAcks(remote'[e])
      /\ remote[e].tx.m_sequenceOut <= remote'[e].tx.m_sequenceOut
      /\ Acked(remote'[e].rx) \subseteq Acked(remote[e].rx) \cup Brought(e, {})
      /\ remote'[Other(e)] = remote[Other(e)]
      /\ ToSet(net'[Other(e)]) \subseteq ToSet(net[Other(e)])
  BY <1>2, <1>3
<1> QED
  BY <1>1, <1>4, <1>5, <1>6, MovedOn

LEMMA TickAcks ==
    ASSUME Platform = "windows", NEW s \in Scenarios, Going(s), AcksInv, Tick
    PROVE  AcksInv'
<1>1. now \in Nat /\ now' \in Nat /\ now <= now'
  <2>1. now \in Nat /\ FrameTime \in Nat
    BY ScheduledTimely, RoundTripAssumption DEF Going, Timely, LastMoment
  <2>2. now' = now + FrameTime
    BY DEF Tick
  <2> QED
    BY <2>1, <2>2
<1>2. remote' = remote /\ net' = net /\ scenario' = scenario
  BY DEF Tick
<1>3. ASSUME NEW e \in Ends PROVE Echoes(e)'
  <2> DEFINE p == remote[e]
             rx == remote[Other(e)].rx
  <2>1. /\ Numbered(p) /\ RealAcks(p)
        /\ Travelled(p.tx.m_sequenceOut, rx, There(e), Back(e))
        /\ Echoed(scenario, e, p, rx, There(e), Back(e), now)
    BY DEF AcksInv, Echoes
  <2>2. Echoed(scenario, e, p, rx, There(e), Back(e), now')
    BY <1>1, <2>1, EchoedLater
  <2>3. There(e)' = There(e) /\ Back(e)' = Back(e)
    BY <1>2 DEF There, Back
  <2> QED
    BY <1>2, <2>1, <2>2, <2>3 DEF Echoes
<1> QED
  BY <1>3 DEF AcksInv

LEMMA InitAcks == ASSUME Platform = "windows", Init PROVE AcksInv
<1> SUFFICES ASSUME NEW e \in Ends PROVE Echoes(e)
  BY DEF AcksInv
<1> DEFINE p == remote[e]
           rx == remote[Other(e)].rx
<1>1. Other(e) \in Ends
  BY OtherEnd
<1>2. ToSet(<<>>) = {} /\ DOMAIN <<>> = {}
  BY DEF ToSet
<1>3. /\ p.tx = Sender(1) /\ rx = NewReceiver /\ p.samples = {}
      /\ There(e) = {} /\ Back(e) = {}
  BY <1>1, <1>2 DEF Init, NewRemotePeer, There, Back
<1>4. Numbered(p)
  <2>1. Apart(<<>>)
    BY <1>2 DEF Apart
  <2>2. 1 \in 1 .. Modulus - 1
    BY ModulusType
  <2> QED
    BY <1>2, <1>3, <2>1, <2>2 DEF Numbered, Sender
<1>5. Acked(rx) = {0}
  BY <1>2, <1>3 DEF Acked, NewReceiver, Receiver
<1>6. Travelled(p.tx.m_sequenceOut, rx, There(e), Back(e))
  BY <1>3, <1>5 DEF Travelled, Sender
<1>7. Echoed(scenario, e, p, rx, There(e), Back(e), now)
  BY <1>2, <1>3 DEF Echoed, Sender
<1>8. RealAcks(p)
  BY <1>3 DEF RealAcks
<1> QED
  BY <1>4, <1>6, <1>7, <1>8 DEF Echoes

-----------------------------------------------------------------------------
\* No end has numbered so many messages that its 16-bit m_sequenceOut wrapped.
NumberingLasts ==
    [][\A e \in Ends : remote[e].tx.m_sequenceOut <= remote'[e].tx.m_sequenceOut]_vars

LEMMA LoseAcks ==
    ASSUME Platform = "windows", NEW s \in Scenarios, Going(s), AcksInv, NEW e \in Ends, Lose(e)
    PROVE  AcksInv'
<1>1. DOMAIN net = Ends /\ net[e] \in Seq(Wires(s, e, now)) /\ Scheduled(s)
  BY DEF Going
<1>2. PICK i \in DOMAIN net[e] : net' = [net EXCEPT ![e] = RemoveAt(@, i)]
  BY DEF Lose
<1>3. ToSet(RemoveAt(net[e], i)) \subseteq ToSet(net[e])
  <2> DEFINE queue == net[e]
             W == ToSet(queue)
             rest == RemoveAt(queue, i)
  <2>1. queue \in Seq(W)
    BY <1>1, ToSetType
  <2> HIDE DEF queue, W
  <2>2. rest \in Seq(W)
    BY <1>2, <2>1, RemoveAtType DEF queue
  <2> HIDE DEF rest
  <2>3. ToSet(rest) \subseteq W
    BY <2>2, ToSetType
  <2> QED
    BY <2>3 DEF rest, W, queue
<1>4. Other(e) \in Ends /\ Other(e) # e
  BY OtherEnd
<1>5. ToSet(net'[e]) \subseteq ToSet(net[e]) /\ net'[Other(e)] = net[Other(e)]
  BY <1>1, <1>2, <1>3, <1>4
<1>6. now' = now /\ remote' = remote /\ scenario'.first = scenario.first
  BY <1>1 DEF Lose, Scheduled
<1> QED
  BY <1>5, <1>6, NothingNew

LEMMA StallAcks ==
    ASSUME Platform = "windows", NEW s \in Scenarios, Going(s), AcksInv, NEW e \in Ends, Stall(e)
    PROVE  AcksInv'
<1>1. now' = now /\ remote' = remote /\ net' = net /\ scenario'.first = scenario.first
  BY DEF Stall, Going, Scheduled
<1>2. ToSet(net'[e]) \subseteq ToSet(net[e]) /\ net'[Other(e)] = net[Other(e)]
  BY <1>1
<1> QED
  BY <1>1, <1>2, NothingNew

LEMMA NextAcks ==
    ASSUME Platform = "windows", MaximumPacketSize < Modulus - 1, IInv, AcksInv, [Next]_vars,
           [\A e \in Ends : remote[e].tx.m_sequenceOut <= remote'[e].tx.m_sequenceOut]_vars
    PROVE  AcksInv'
<1>1. PICK s \in Scenarios : Going(s)
  BY DEF IInv
<1>2. CASE UNCHANGED vars
  <2>1. "client" \in Ends
    BY DEF Ends
  <2>2. /\ now' = now /\ remote' = remote /\ scenario'.first = scenario.first
        /\ ToSet(net'["client"]) \subseteq ToSet(net["client"])
        /\ net'[Other("client")] = net[Other("client")]
    BY <1>2 DEF vars
  <2> QED
    BY <1>1, <2>1, <2>2, NothingNew
<1>3. CASE ~UNCHANGED vars
  <2>1. \A e \in Ends : remote[e].tx.m_sequenceOut <= remote'[e].tx.m_sequenceOut
    BY <1>3
  <2>2. Next
    BY <1>3
  <2>3. ASSUME NEW e \in Ends, UpdateNetwork(e) PROVE AcksInv'
    BY <1>1, <2>1, <2>3, UpdateNetworkAcks
  <2> QED
    BY <1>1, <2>2, <2>3, TickAcks, SendToAcks, LoseAcks, StallAcks DEF Next
<1> QED
  BY <1>2, <1>3

\* The numbering of both ends, and where each of its sequences can be: as long
\* as the numbering does not wrap, a packet, an acknowledgement and what an end
\* has received speak only of sequences that have been given, and a sequence
\* whose message waits is nowhere earlier than the network can have brought it.
THEOREM AcknowledgementsStayReal ==
    ASSUME Platform = "windows", MaximumPacketSize < Modulus - 1
    PROVE  Spec /\ NumberingLasts => []AcksInv
<1>1. Init => AcksInv
  BY InitAcks
<1>2. /\ IInv /\ AcksInv /\ [Next]_vars
      /\ [\A e \in Ends : remote[e].tx.m_sequenceOut <= remote'[e].tx.m_sequenceOut]_vars
      => AcksInv'
  BY NextAcks
<1> QED
  BY <1>1, <1>2, ReadingsStaySound, PTL DEF Spec, NumberingLasts

LEMMA AcksOwn == AcksInv => SequencesOwn
<1> SUFFICES ASSUME AcksInv, NEW e \in Ends PROVE Own(remote[e].tx.m_reliableMessages)
  BY DEF SequencesOwn
<1> DEFINE queue == remote[e].tx.m_reliableMessages
           out == remote[e].tx.m_sequenceOut
<1>1. /\ Apart(queue) /\ out \in 1 .. Modulus - 1
      /\ \A m \in ToSet(queue) : m.m_sequence \in 1 .. out - 1
  BY DEF AcksInv, Echoes, Numbered
<1>2. out \in Int
  BY <1>1, ModulusType
<1> HIDE DEF queue, out
<1>3. \A m \in ToSet(queue) : ~IsFresh(m)
  <2> SUFFICES ASSUME NEW m \in ToSet(queue) PROVE m.m_sequence # 0
    BY DEF IsFresh
  <2>1. m.m_sequence \in 1 .. out - 1
    BY <1>1
  <2> QED
    BY <1>2, <2>1
<1> QED
  BY <1>1, <1>3 DEF Own, queue

\* RemotePeer::BuildPacket and AfterSend: as long as the numbering does not
\* wrap, the messages that wait for an acknowledgement have different
\* sequences, and none of them would be numbered again when it is sent again.
THEOREM SequencesStayOwn ==
    ASSUME Platform = "windows", MaximumPacketSize < Modulus - 1
    PROVE  Spec /\ NumberingLasts => []SequencesOwn
BY AcksOwn, AcknowledgementsStayReal, PTL

\* RemotePeer::ProcessAckBits and m_seqtrackSent: as long as the numbering does
\* not wrap, there is a send time for each message that waits and for no other.
THEOREM SentTimesStayTrackedUnwrapped ==
    ASSUME Platform = "windows", MaximumPacketSize < Modulus - 1
    PROVE  Spec /\ NumberingLasts => []SentTracked
BY SequencesStayOwn, SentTimesStayTracked, PTL

LEMMA AcksInvReal ==
    ASSUME Platform = "windows", ShortConnection, IInv, AcksInv PROVE AcksReal
<1> SUFFICES ASSUME NEW e \in Ends, NEW sample \in remote[e].samples, sample.source = "Ack"
             PROVE  sample.milliseconds \in
                        (IF remote[e].doubtful THEN 0 ELSE Way) .. Units(now) + 1
  BY DEF AcksReal
<1>1. PICK s \in Scenarios : Going(s)
  BY DEF IInv
<1>2. Timely(s) /\ remote[e] \in Remotes(s, e, now)
  BY <1>1, ScheduledTimely DEF Going, Lasting, Sound
<1>3. sample \in Samples(s, now)
  BY <1>2 DEF Remotes
<1> DEFINE n == sample.milliseconds
<1>4. n \in 0 .. HalfWord - 1 /\ n <= Units(now) + 1
  BY <1>3 DEF Samples
<1>5. ~remote[e].doubtful => Way <= n
  BY DEF AcksInv, Echoes, RealAcks
<1>6. n \in Nat
  BY <1>4, ClockAssumption
<1>7. Units(now) \in Nat
  <2>1. now \in Nat
    BY <1>2, RoundTripAssumption DEF Timely, LastMoment
  <2> QED
    BY <2>1, UnitsMonotone
<1>8. Way \in Nat
  <2>1. 2 * MinDelay \in Nat
    BY RoundTripAssumption
  <2> QED
    BY <2>1, UnitsMonotone DEF Way
<1> HIDE DEF n
<1> DEFINE low == IF remote[e].doubtful THEN 0 ELSE Way
<1>9. low \in Nat /\ low <= n
  BY <1>5, <1>6, <1>8
<1> HIDE DEF low
<1>10. n \in low .. Units(now) + 1
  BY <1>4, <1>6, <1>7, <1>9
<1> QED
  BY <1>10 DEF n, low

\* RemotePeer::ProcessAckBits: as long as the numbering does not wrap and the
\* connection is short enough for uint32_t, a round trip that an
\* acknowledgement measures is as long as the way there and back, unless a
\* reliable message has gone out twice, and never longer than the connection.
THEOREM AcksStayReal ==
    ASSUME Platform = "windows", MaximumPacketSize < Modulus - 1, ShortConnection
    PROVE  Spec /\ NumberingLasts => []AcksReal
<1>1. IInv /\ AcksInv => AcksReal
  BY AcksInvReal
<1> QED
  BY <1>1, ReadingsStaySound, AcknowledgementsStayReal, PTL
=============================================================================
