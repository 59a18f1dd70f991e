-------------------------------- MODULE DCUtf8 --------------------------------
(****************************************************************************)
(* UTF8Encoder and UTF8Decoder (lib/dcutf8.cpp).  The decoder is given one   *)
(* byte at a time, keeps those of a character that is not complete, and      *)
(* throws for what cannot become one.                                        *)
(****************************************************************************)
EXTENDS Integers, Sequences, SequencesExt

VARIABLES
    buffer,     \* m_buffer
    stuck,      \* whether the decoder has thrown
    fed         \* the characters it has given since its user began anew
decoder == << buffer, stuck, fed >>

Byte == 0..255

\* A code point below Limits[k + 1], and not below Limits[k], has k bytes after
\* the first, which is marked 0, 110, 1110 or 11110.  Shifts are those by 6 bits.
Limits == << 128, 2048, 65536, 1114112 >>
Marks  == << 0, 192, 224, 240 >>
Shifts == << 1, 64, 4096, 262144 >>

\* encode: nothing for what is not a code point
CodePoint == 0..Limits[4] - 1
Encode(c) ==
    IF c \notin CodePoint THEN << >>
    ELSE LET k == CHOOSE k \in 0..3 : c < Limits[k + 1] /\ (k > 0 => c >= Limits[k])
             bits(i) == c \div Shifts[k + 2 - i]
         IN  [i \in 1..k + 1 |-> IF i = 1 THEN Marks[k + 1] + bits(1)
                                          ELSE 128 + (bits(i) % 64)]

\* The number of bytes that follow a first byte b, -1 if b cannot be first.
Following(b) ==
    CASE b < 128        -> 0
      [] b \in 240..247 -> 3
      [] b \in 224..239 -> 2
      [] b \in 192..223 -> 1
      [] OTHER          -> -1

\* The code point of bytes the first of which k bytes follow: the bits of each in
\* their place.
Bits(bytes, k, i) ==
    (IF i = 1 THEN bytes[1] - Marks[k + 1] ELSE bytes[i] % 64) * Shifts[k + 2 - i]
Value(bytes, k) ==
    LET sum[i \in 0..k + 1] == IF i = 0 THEN 0 ELSE sum[i - 1] + Bits(bytes, k, i)
    IN  sum[k + 1]

\* What decode makes of the bytes in its buffer, the new one among them.  Bad
\* bytes and values too small for their length are seen when the last byte is there.
InRangeUnbounded(v, k) == v < Limits[k + 1]                                  \* fault
InRange(v, k) == v < Limits[k + 1] /\ (k > 0 => v >= Limits[k])
Outcome(bytes) ==
    LET k == Following(bytes[1]) IN
    IF k >= Len(bytes) THEN "waits"
    ELSE IF /\ k >= 0
            /\ \A i \in 2..k + 1 : bytes[i] \in 128..191
            /\ InRange(Value(bytes, k), k)
         THEN "present" ELSE "throws"
Decoded(bytes) == Value(bytes, Following(bytes[1]))

\* decode.  The bytes of a bad sequence stay in the buffer.
TakeByte(b) ==
    LET bytes == Append(buffer, b) IN
    /\ stuck' = (stuck \/ Outcome(bytes) = "throws")
    /\ IF Outcome(bytes) = "present"
       THEN buffer' = << >> /\ fed' = Append(fed, Decoded(bytes))
       ELSE buffer' = bytes /\ UNCHANGED fed

\* What the decoder's user may do: feed it, and begin anew with the characters.
DecoderInit == buffer = << >> /\ stuck = FALSE /\ fed = << >>
DecoderNext ==
    \/ \E b \in Byte : TakeByte(b)
    \/ fed' = << >> /\ UNCHANGED << buffer, stuck >>
DecoderSpec == DecoderInit /\ [][DecoderNext]_decoder

\* strencode, and strdecode of a string it does not throw for
StrEncode(chars) == FlattenSeq([i \in DOMAIN chars |-> Encode(chars[i])])
StrDecode(bytes) ==
    LET Take(acc, b) ==
          LET taken == Append(acc.buffer, b)
          IN  IF Outcome(taken) = "present"
              THEN [buffer |-> << >>, out |-> Append(acc.out, Decoded(taken))]
              ELSE [acc EXCEPT !.buffer = taken]
    IN  FoldLeft(Take, [buffer |-> << >>, out |-> << >>], bytes).out

------------------------------------------------------------------------------
(* Properties *)

\* Every character the decoder gives is encoded by the very bytes it was decoded
\* from: none is overlong or out of range, also behind an exception, whatever
\* bytes the decoder is fed.
CharactersRoundTrip ==
    [][fed' # fed /\ fed' # << >> =>
        \E b \in Byte : Encode(Last(fed')) = Append(buffer, b)]_decoder
==============================================================================
