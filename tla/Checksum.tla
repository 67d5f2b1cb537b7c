------------------------------ MODULE Checksum ------------------------------
(***************************************************************************)
(* CRC16 (quicknet_packet.cpp) with the shifts and exclusive ors of the    *)
(* code: the checksum of a sequence of bytes.                              *)
(***************************************************************************)
EXTENDS Integers, Sequences, Bitwise

\* One turn of the loop; the shifts to the left are cut to 16 bits.
Step(crc, byte) ==
    LET mixed == (crc \div 256) ^^ byte
        x == mixed ^^ (mixed \div 16)
        cut(n) == n % 65536
    IN  ((cut(crc * 256) ^^ cut(x * 4096)) ^^ cut(x * 32)) ^^ x

\* From 0xDEAD, or after the bytes before.  (A bound variable has its value
\* before Step is computed, which keeps TLC's stack low.)
After(crc, byte) == CHOOSE next \in {Step(before, byte) : before \in {crc}} : TRUE

\* Mutant: the first byte after the checksum is left out.
CRC16Short(data) ==
    LET crc[k \in 1 .. Len(data)] == IF k = 1 THEN 57005 ELSE After(crc[k - 1], data[k])
    IN  crc[Len(data)]

CRC16(data) ==
    LET crc[k \in 0 .. Len(data)] == IF k = 0 THEN 57005 ELSE After(crc[k - 1], data[k])
    IN  crc[Len(data)]
=============================================================================
