---------------------------- MODULE FileEncoding ----------------------------
(***************************************************************************)
(* How the editor finds out in which encoding a file is: a mark at its     *)
(* start, or else whether its bytes are text and well-formed UTF-8.  The   *)
(* bytes of one character are collected, decoded, encoded again and        *)
(* compared.  A file is a sequence of bytes.                               *)
(***************************************************************************)
EXTENDS Integers, SequencesExt

CONSTANT MAX_UTF8_BYTES     \* the longest character: 6 in the code

ASSUME FileEncodingAssumption == MAX_UTF8_BYTES \in 1 .. 6

MarkLE == <<255, 254>>
MarkBE == <<254, 255>>
Mark8 == <<239, 187, 191>>

EOF == -1
INVALID_CHAR == -1
SUB == 26
Controls == (0 .. 31) \ {7, 9, 10, 11, 12, 13}

MaxOfLength(n) == <<127, 2047, 65535, 2097151, 67108863, 2147483647>>[n]
LeadOfLength(n) == <<0, 192, 224, 240, 248, 252, 254, 255>>[n]
Power64(n) == <<1, 64, 4096, 262144, 16777216, 1073741824>>[n + 1]

\* The shortest form of u; none if it is too long.
encodeutf8(u, maxbytes) ==
    LET lengths == {n \in 1 .. maxbytes : u <= MaxOfLength(n)}
        nbytes == Min(lengths)
    IN  IF u = INVALID_CHAR \/ lengths = {} THEN <<>>
        ELSE [j \in 1 .. nbytes |->
                 IF j = 1 THEN LeadOfLength(nbytes) + u \div Power64(nbytes - 1)
                 ELSE 128 + ((u \div Power64(nbytes - j)) % 64)]

IsContinuation(c) == c \in 128 .. 191

\* Leading one bits: how long a character says it is.
high_ones(c) ==
    Cardinality({least \in {128, 192, 224, 240, 248, 252, 254, 255} : c >= least})

\* Surrogates of UTF-16, and 0xFFFE and 0xFFFF.
NoCharacters == 55296 .. 57343 \cup {65534, 65535}

\* The bits of all its bytes.
code(buf) ==
    FoldLeft(LAMBDA u, c : u * 64 + (c % 64), buf[1] - LeadOfLength(Len(buf)), Tail(buf))

\* Mutated decodeutf8: the codes that no character has are let through.
decodeutf8Any(buf) ==
    LET nbytes == Len(buf)
    IN  IF nbytes = 1 THEN IF buf[1] >= 128 THEN INVALID_CHAR ELSE buf[1]
        ELSE IF high_ones(buf[1]) # nbytes THEN INVALID_CHAR ELSE code(buf)

decodeutf8(buf) ==
    LET nbytes == Len(buf)
    IN  IF nbytes = 1 THEN IF buf[1] >= 128 THEN INVALID_CHAR ELSE buf[1]
        ELSE IF \/ high_ones(buf[1]) # nbytes
                \/ code(buf) \in NoCharacters
             THEN INVALID_CHAR ELSE code(buf)

\* What was collected is no character, or not in its shortest form.
IsBroken(buf) ==
    buf # <<>> /\ (decodeutf8(buf) = INVALID_CHAR \/ encodeutf8(decodeutf8(buf), MAX_UTF8_BYTES) # buf)

\* One turn of the loop: c is the next byte or EOF, `last' says that EOF follows.
Collect(acc, c, last) ==
    LET high == IF acc.result = "T" /\ c >= 128 THEN "U" ELSE acc.result
        ends == ~IsContinuation(c)
    IN  IF acc.returned # "" THEN acc
        ELSE IF c \in Controls THEN [acc EXCEPT !.returned = IF c = SUB /\ last THEN "T" ELSE "B"]
        ELSE IF high = "H" THEN [acc EXCEPT !.result = high]
        ELSE IF ends THEN [acc EXCEPT !.result = IF IsBroken(acc.buf) THEN "H" ELSE high,
                                      !.buf = IF c >= 128 THEN <<c>> ELSE <<>>]
        ELSE [acc EXCEPT !.result = IF Len(acc.buf) = MAX_UTF8_BYTES THEN "H" ELSE high,
                         !.buf = Append(@, c)]

\* What the loop comes to.  The byte that exceeds the buffer is stored behind it,
\* and never read.
Scan(s) ==
    FoldLeftDomain(LAMBDA acc, i : Collect(acc, (s \o <<EOF>>)[i], i = Len(s)),
                   [result |-> "T", buf |-> <<>>, returned |-> ""], s \o <<EOF>>)

get_file_encoding(s) ==
    LET done == Scan(s)
    IN  IF s = <<>> THEN "Z"
        ELSE IF IsPrefix(MarkLE, s) THEN "e"
        ELSE IF IsPrefix(MarkBE, s) THEN "E"
        ELSE IF IsPrefix(Mark8, s) THEN "M"
        ELSE IF done.returned # "" THEN done.returned
        ELSE IF done.buf # <<>> THEN "H" ELSE done.result

=============================================================================
