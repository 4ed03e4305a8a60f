----------------------------- MODULE TextEncoding -----------------------------
(***************************************************************************)
(* The conversions of text between JSON and a font:                        *)
(* lib/support/unicodeconv/unicodeconv.c and lib/support/base64/base64.c.  *)
(* In JSON text is UTF-8; text is a sequence of bytes everywhere.          *)
(***************************************************************************)
EXTENDS Integers, Sequences, SequencesExt, JsonValues

Bytes16(w) == <<w \div 256, w % 256>>
WordsOf(bytes) == [i \in 1..(Len(bytes) \div 2) |-> 256 * bytes[2 * i - 1] + bytes[2 * i]]

\* The two halves of a character beyond U+FFFF: 0x10000 is not taken off before the
\* character is split, so that the first half stands for a character 0x10000 further on.
Utf16(c) ==
  IF c < 65536 THEN Bytes16(c)
  ELSE IF c >= 1114112 THEN <<>>
  ELSE Bytes16(55296 + c \div 1024) \o Bytes16(56320 + (c % 1024))

\* A leading byte, and how many bytes follow it.
Trailing(d) == IF d < 128 THEN 0 ELSE IF d < 224 THEN 1 ELSE IF d < 240 THEN 2 ELSE 3
Lead(d) == IF d < 128 THEN d ELSE IF d < 224 THEN d % 32 ELSE IF d < 240 THEN d % 16 ELSE d % 8

\* utf8toutf16be.  It stops at a byte that begins no character and at a character cut
\* short by the end; a character cut short by another byte is written as far as it went.
Utf8ToUtf16(text) ==
  LET begin(s, i, d) ==
        IF d \in 128..191 \/ d >= 248 \/ Len(text) - i < Trailing(d) THEN [s EXCEPT !.stopped = TRUE]
        ELSE IF Trailing(d) = 0 THEN [s EXCEPT !.out = @ \o Utf16(d)]
        ELSE [s EXCEPT !.c = Lead(d), !.left = Trailing(d)]
      continue(s, d) ==
        IF d \notin 128..191 THEN [s EXCEPT !.left = 0, !.out = @ \o Utf16(s.c)]
        ELSE LET c == 64 * s.c + (d % 64)
             IN [s EXCEPT !.c = c, !.left = @ - 1, !.out = IF s.left = 1 THEN @ \o Utf16(c) ELSE @]
      step(s, i) ==
        IF s.stopped THEN s
        ELSE IF s.left = 0 THEN begin(s, i, text[i]) ELSE continue(s, text[i])
  IN FoldLeft(step, [out |-> <<>>, c |-> 0, left |-> 0, stopped |-> FALSE],
              [i \in DOMAIN text |-> i]).out

Utf8(c) ==
  LET tail(bits) == 128 + ((c \div bits) % 64)
  IN IF c < 128 THEN <<c>>
     ELSE IF c < 2048 THEN <<192 + c \div 64, tail(1)>>
     ELSE IF c < 65536 THEN <<224 + c \div 4096, tail(64), tail(1)>>
     ELSE <<240 + ((c \div 262144) % 8), tail(4096), tail(64), tail(1)>>

\* utf16be_to_utf8.  A first half takes the next word with it, whatever it is; at the
\* end it is dropped.
Utf16ToUtf8(bytes) ==
  LET isFirst(w) == w \in 55296..56319
      isSecond(w) == w \in 56320..57343
      joined(c, d) == IF isSecond(d) THEN 65536 + 1024 * (c % 1024) + (d % 1024) ELSE c
      step(s, w) ==
        IF s.first # Null THEN [out |-> s.out \o Utf8(joined(s.first, w)), first |-> Null]
        ELSE IF isFirst(w) THEN [s EXCEPT !.first = w]
        ELSE [s EXCEPT !.out = @ \o Utf8(w)]
  IN FoldLeft(step, [out |-> <<>>, first |-> Null], WordsOf(bytes)).out

-----------------------------------------------------------------------------
(* Base64. *)

Equals == 61
Letter == [v \in 0..63 |-> IF v < 26 THEN 65 + v ELSE IF v < 52 THEN 71 + v
                           ELSE IF v < 62 THEN v - 4 ELSE IF v = 62 THEN 43 ELSE 47]
ValueOf(l) == IF l = Equals THEN 0 ELSE CHOOSE v \in 0..63 : Letter[v] = l
IsLetter(l) == l = Equals \/ \E v \in 0..63 : Letter[v] = l

Base64Encode(bytes) ==
  LET at(i) == IF i <= Len(bytes) THEN bytes[i] ELSE 0
      three(k) == 65536 * at(3 * k - 2) + 256 * at(3 * k - 1) + at(3 * k)
      letters(k) == <<Letter[three(k) \div 262144], Letter[(three(k) \div 4096) % 64],
                      IF 3 * k - 1 <= Len(bytes) THEN Letter[(three(k) \div 64) % 64] ELSE Equals,
                      IF 3 * k <= Len(bytes) THEN Letter[three(k) % 64] ELSE Equals>>
  IN FlattenSeq([k \in 1..((Len(bytes) + 2) \div 3) |-> letters(k)])

\* What is no letter is passed over.  Only the end of the text tells how long it is.
\* When the letters are not a multiple of four there is no result, and its length,
\* which the caller uses, is not set: texts like that are left out.
Base64Decode(text) ==
  LET in == SelectSeq(text, IsLetter)
      value(i) == ValueOf(in[i])
      four(k) == 262144 * value(4 * k - 3) + 4096 * value(4 * k - 2) + 64 * value(4 * k - 1) + value(4 * k)
      out == FlattenSeq([k \in 1..(Len(in) \div 4) |->
                           <<four(k) \div 65536, (four(k) \div 256) % 256, four(k) % 256>>])
  IN IF in = <<>> THEN <<>>
     ELSE IF in[Len(in) - 1] = Equals THEN SubSeq(out, 1, Len(out) - 2)
     ELSE IF in[Len(in)] = Equals THEN SubSeq(out, 1, Len(out) - 1)
     ELSE out
=============================================================================
