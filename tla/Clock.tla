------------------------------- MODULE Clock --------------------------------
(***************************************************************************)
(* The clock of a process (quicknet_time.cpp): the milliseconds since its  *)
(* first reading, in 64 bits.  Real time is a number of nanoseconds, and   *)
(* the units of the model need not be those of the code: what matters is   *)
(* how many nanoseconds a second has, into how many parts the clock        *)
(* divides it, and where its integers wrap.                                *)
(***************************************************************************)
EXTENDS Integers

CONSTANTS
    Platform,        \* which branch of the #ifdef is compiled
    NanosPerSecond,  \* 10^9
    Multiplier,      \* parts of a second the clock counts, 1000 in milliseconds
    Word,            \* uint64_t is modulo this, 2^64
    HalfWord         \* uint32_t is modulo this, 2^32

ASSUME ClockAssumption ==
    /\ Platform \in {"windows", "posix"}
    /\ {NanosPerSecond, Multiplier, Word, HalfWord} \subseteq Nat \ {0}
    /\ NanosPerSecond % Multiplier = 0
    /\ HalfWord < Word

\* With QueryPerformanceCounter, as if its frequency were NanosPerSecond.  The
\* product is a LONGLONG, and its division rounds towards zero.
ElapsedWindows(now, first) ==
    LET product == ((now - first) * Multiplier) % Word
    IN  IF 2 * product < Word
        THEN product \div NanosPerSecond
        ELSE (-((Word - product) \div NanosPerSecond)) % Word

\* With clock_gettime: seconds and nanoseconds are subtracted apart, and the
\* difference of the nanoseconds is divided after its conversion to uint64_t.
ElapsedPosix(now, first) ==
    LET seconds(t) == t \div NanosPerSecond
        nanos(t) == t % NanosPerSecond
        divider == NanosPerSecond \div Multiplier
    IN  ((seconds(now) - seconds(first)) * Multiplier
            + ((nanos(now) - nanos(first)) % Word) \div divider) % Word

\* Utils::elapsedMonotonicTime.
Elapsed(now, first) ==
    IF Platform = "windows" THEN ElapsedWindows(now, first) ELSE ElapsedPosix(now, first)

\* The difference of two readings, a uint64_t, and its conversion to uint32_t.
Since(reading, earlier) == (reading - earlier) % Word
Since32(reading, earlier) == Since(reading, earlier) % HalfWord
=============================================================================
