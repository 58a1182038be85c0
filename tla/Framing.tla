------------------------------ MODULE Framing ------------------------------
(***************************************************************************)
(* The framing of the polling payloads: engineio/payload/encoder.go,       *)
(* decoder.go and util.go.                                                 *)
(*                                                                         *)
(* A payload has one frame: a length, the type of the packet and the data. *)
(* Of a byte only its place in UTF-8 counts: "c" is a continuation byte,   *)
(* "l2", "l3" and "l4" begin a character of so many bytes, and "a" is      *)
(* every other byte.  The encoder gives the length in units of UTF-16, and *)
(* the decoder, which reads so many bytes, allows itself more of them when *)
(* it meets a byte that begins a character.                                *)
(***************************************************************************)
EXTENDS Naturals, Sequences, SequencesExt, FiniteSetsExt, TLC

Bytes == {"a", "c", "l2", "l3", "l4"}

\* writeUint64, writeBinaryLen and writeTextLen: decimal digits, highest first.
Digits[n \in Nat] ==
    IF n < 10 THEN <<ToString(n)>> ELSE Append(Digits[n \div 10], ToString(n % 10))

IsDigit(token) == \E d \in 0 .. 9 : ToString(d) = token

\* readUint64FromText, readBinaryLen and readTextLen.
Value(digits) ==
    FoldLeft(LAMBDA n, t : 10 * n + (CHOOSE d \in 0 .. 9 : ToString(d) = t), 0, digits)

\* Mutant of Units: a length in characters.
UnitsRunes(b) == IF b = "c" THEN 0 ELSE 1

\* What a byte adds to the length that encoder.calcCodeUnitLength computes.
Units(b) == CASE b = "l4" -> 2 [] b = "c" -> 0 [] OTHER -> 1

\* What a byte that is read adds to limitReader.N in decoder.Read.
Extra(b) == CASE b \in {"l3", "l4"} -> 2 [] b = "l2" -> 1 [] OTHER -> 0

CodeUnitLength(data) == FoldLeft(LAMBDA n, b : n + Units(b), 1, data)

B64Length(data) == 4 * ((Len(data) + 2) \div 3)

\* The length in the header of a frame, with the type and, in base64, the 'b'.
HeaderLength(base64, data) ==
    IF base64 THEN B64Length(data) + 2 ELSE CodeUnitLength(data)

\* limitReader.N once the header is read.
Limit(base64, data) ==
    Value(Digits[HeaderLength(base64, data)]) - (IF base64 THEN 2 ELSE 1)

\* limitReader.N after so many bytes of the data.
LimitAt(limit, data, n) ==
    FoldLeft(LAMBDA m, b : m + Extra(b), limit, SubSeq(data, 1, n)) - n

(* How many bytes of the data are read before the decoder takes the frame
   for finished: a Read never gives more than limitReader.N, so the first
   place where that is 0 ends the frame, however the reads are cut, and so
   does the end of the payload.  base64 is decoded before anything is counted. *)
BytesRead(base64, data) ==
    LET limit == Limit(base64, data)
        stops == {n \in 0 .. Len(data) : LimitAt(limit, data, n) = 0}
    IN  CASE base64 -> Min({3 * (limit \div 4), Len(data)})
          [] ~base64 -> Min(stops \cup {Len(data)})

(* decoder.Close looks for the header of another frame after the n bytes read.  The
   end of the payload is what it expects; a byte above 1 is an error, and of
   an "a" it cannot be told: with 0 or 1 the end comes within the header. *)
CloseIsClean(data, n) ==
    CASE n = Len(data) -> {TRUE}
      [] n < Len(data) /\ data[n + 1] = "a" -> BOOLEAN
      [] OTHER -> {FALSE}

-----------------------------------------------------------------------------
(* The reference: text in UTF-8 is made of whole characters. *)

Characters == {<<"a">>, <<"l2", "c">>, <<"l3", "c", "c">>, <<"l4", "c", "c", "c">>}

\* The texts of up to three characters.
Texts == {FlattenSeq(s) : s \in BoundedSeq(Characters, 3)}
=============================================================================
