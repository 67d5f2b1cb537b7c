------------------------------- MODULE Stream -------------------------------
(***************************************************************************)
(* Stream (quicknet_stream.cpp): a buffer that is written or read from     *)
(* front to back.  A value of n bytes is the sequence of its bytes in the  *)
(* order of the host, which is the order they get in the buffer (on both   *)
(* ends: quicknet_stream.cpp:34 leaves other byte orders open).  Floats    *)
(* are written as the integers of the same bytes.                          *)
(***************************************************************************)
EXTENDS Integers, SequencesExt

NewStream(buffer) == [m_buffer |-> buffer, m_length |-> Len(buffer), m_index |-> 0]

\* Mutants: the last byte is never used; a full stream still has something.
FitsWithRoom(stream, size) == stream.m_index + size < stream.m_length

FullBeyond(stream) == stream.m_index > stream.m_length

Fits(stream, size) == ~(stream.m_index + size > stream.m_length)

Full(stream) == ~(stream.m_index < stream.m_length)

\* Mutants: nothing is skipped; the clamp is one short.
SkipNothing(stream, bytes) == stream

SkipPastTheEnd(stream, bytes) == [stream EXCEPT !.m_index = @ + bytes]

Skip(stream, bytes) ==
    [stream EXCEPT !.m_index = IF @ + bytes > stream.m_length THEN stream.m_length
                               ELSE @ + bytes]

\* Rewind by the whole buffer, the only use: the unsigned difference wraps
\* unless the index is at the very end, and both ways the result is 0.
Rewind(stream) == [stream EXCEPT !.m_index = 0]

\* WriteByte to WriteULong: nothing is written unless everything fits.
Write(stream, bytes) ==
    IF Fits(stream, Len(bytes))
    THEN [stream EXCEPT
            !.m_buffer = SubSeq(@, 1, stream.m_index) \o bytes
                            \o SubSeq(@, stream.m_index + Len(bytes) + 1, stream.m_length),
            !.m_index = @ + Len(bytes)]
    ELSE stream

\* ReadByte to ReadULong, the value and the stream after it.
Read(stream, size) == SubSeq(stream.m_buffer, stream.m_index + 1, stream.m_index + size)

Total(sizes) == FoldLeft(+, 0, sizes)

\* The DeSerialize methods and the chain of them in FromStream, ToStream and
\* DeSerialize of one header or message: the first that does not fit ends the
\* chain, and fields that were not read keep the 0 of their constructor.
Fitting(stream, sizes) ==
    Max({k \in 0 .. Len(sizes) : Fits(stream, Total(SubSeq(sizes, 1, k)))})

WriteAll(stream, values) ==
    LET fitting == Fitting(stream, [k \in DOMAIN values |-> Len(values[k])])
    IN  [ok |-> fitting = Len(values),
         stream |-> Write(stream, FlattenSeq(SubSeq(values, 1, fitting)))]

ReadAll(stream, sizes) ==
    LET fitting == Fitting(stream, sizes)
        at(k) == [stream EXCEPT !.m_index = @ + Total(SubSeq(sizes, 1, k))]
    IN  [ok |-> fitting = Len(sizes),
         values |-> [k \in DOMAIN sizes |->
                        IF k <= fitting THEN Read(at(k - 1), sizes[k])
                        ELSE [i \in 1 .. sizes[k] |-> 0]],
         stream |-> at(fitting)]

\* The two bytes of a uint16_t, and back.
ToBytes(number) == <<number % 256, (number \div 256) % 256>>

ToNumber(bytes) == IF Len(bytes) = 1 THEN bytes[1] ELSE bytes[1] + 256 * bytes[2]
=============================================================================
