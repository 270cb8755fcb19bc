------------------------------ MODULE JsonStrings ------------------------------
(***************************************************************************)
(* libtulingApi/libjson.c, the bytes: how a string is escaped when it is   *)
(* printed, how a literal is unescaped when it is parsed, and how          *)
(* cJSON_Minify walks a text.  A text is a sequence of bytes; its NUL is   *)
(* the byte one past the end.                                              *)
(***************************************************************************)
EXTENDS Integers, Sequences, SequencesExt, TLC

Quote == 34
Backslash == 92

\* tolower, in the "C" locale
Lower(s) == [i \in DOMAIN s |-> IF s[i] \in 65..90 THEN s[i] + 32 ELSE s[i]]

\* What a C reader of a string sees: the bytes before the first NUL.
CString(s) ==
  IF \E i \in DOMAIN s : s[i] = 0
  THEN SubSeq(s, 1, (CHOOSE i \in DOMAIN s : s[i] = 0 /\ \A j \in 1..(i - 1) : s[j] # 0) - 1)
  ELSE s

-------------------------------------------------------------------------------
(* print_string_ptr *)

\* The bytes that have an escape of two characters, and its second one.
ShortEscape ==
  (8 :> 98) @@ (9 :> 116) @@ (10 :> 110) @@ (12 :> 102) @@ (13 :> 114)
    @@ (Quote :> Quote) @@ (Backslash :> Backslash)

HexDigit(d) == IF d < 10 THEN 48 + d ELSE 87 + d

EscapeByte(c) ==
  IF c \in DOMAIN ShortEscape THEN <<Backslash, ShortEscape[c]>>
  ELSE IF c < 32 THEN <<Backslash, 117, 48, 48, HexDigit(c \div 16), HexDigit(c % 16)>>
  ELSE <<c>>

\* The second loop: what is written between the quotes.
Escape(s) == FlattenSeq([i \in 1..Len(s) |-> EscapeByte(s[i])])

\* Mutant: the short escapes other than the quote not counted.
EscapeCharactersFewer(s) ==
  FoldLeft(LAMBDA n, c : n + (IF c = Quote THEN 1 ELSE IF c < 32 THEN 5 ELSE 0), 0, s)

\* The first loop: how many bytes escaping adds.
EscapeCharacters(s) ==
  FoldLeft(LAMBDA n, c : n + (IF c \in DOMAIN ShortEscape THEN 1 ELSE IF c < 32 THEN 5 ELSE 0),
           0, s)

-------------------------------------------------------------------------------
(* parse_string.  b is what follows the opening quote. *)

\* The first loop: where the literal's closing quote stands, 0 if nowhere.
RECURSIVE InputEnd(_, _)
InputEnd(b, i) ==
  IF i > Len(b) THEN 0
  ELSE IF b[i] = Quote THEN i
  ELSE InputEnd(b, IF b[i] = Backslash THEN i + 2 ELSE i + 1)

RECURSIVE SkippedBytes(_, _)
SkippedBytes(b, i) ==
  IF i > Len(b) \/ b[i] = Quote THEN 0
  ELSE IF b[i] = Backslash THEN 1 + SkippedBytes(b, i + 2)
  ELSE SkippedBytes(b, i + 1)

\* The bytes malloc'd for the output, the NUL included.
AllocationLength(b) == InputEnd(b, 1) - SkippedBytes(b, 1) + 1

HexValue(c) ==
  IF c \in 48..57 THEN c - 48
  ELSE IF c \in 65..70 THEN c - 55
  ELSE IF c \in 97..102 THEN c - 87
  ELSE -1

\* Four hexadecimal digits; 0 if one of them is none.
parse_hex4(d) ==
  IF \E i \in 1..4 : HexValue(d[i]) = -1 THEN 0
  ELSE FoldLeft(LAMBDA h, c : 16 * h + HexValue(c), 0, d)

Mark(n) == CASE n = 1 -> 0 [] n = 2 -> 192 [] n = 3 -> 224 [] n = 4 -> 240

Utf8(cp) ==
  LET n == IF cp < 128 THEN 1 ELSE IF cp < 2048 THEN 2 ELSE IF cp < 65536 THEN 3 ELSE 4
  IN  [i \in 1..n |->
        LET low == cp \div 64^(n - i) IN IF i > 1 THEN 128 + (low % 64) ELSE Mark(n) + low]

\* The literal \uXXXX at i, or the surrogate pair that starts there: its bytes and its
\* length, 0 when it is refused.
utf16_literal_to_utf8(b, i, end) ==
  LET Hex(at) == parse_hex4(SubSeq(b, at + 2, at + 5))
      Refused == [out |-> <<>>, length |-> 0]
      Pair(first, second) ==
        IF second \notin 56320..57343 THEN Refused
        ELSE [out |-> Utf8(65536 + 1024 * (first % 1024) + (second % 1024)), length |-> 12]
      Point(first) ==
        IF end - i < 6 \/ first \in 56320..57343 THEN Refused
        ELSE IF first \notin 55296..56319 THEN [out |-> Utf8(first), length |-> 6]
        ELSE IF end - i < 12 \/ b[i + 6] # Backslash \/ b[i + 7] # 117 THEN Refused
        ELSE Pair(first, Hex(i + 6))
  IN  Point(Hex(i))

PlainEscape ==
  (98 :> 8) @@ (102 :> 12) @@ (110 :> 10) @@ (114 :> 13) @@ (116 :> 9)
    @@ (Quote :> Quote) @@ (Backslash :> Backslash) @@ (47 :> 47)

\* The second loop, from position i on.
RECURSIVE Decode(_, _, _, _)
Decode(b, i, end, out) ==
  LET Go(u) ==
        IF b[i + 1] # 117 \/ u.length = 0 THEN [ok |-> FALSE, out |-> out]
        ELSE Decode(b, i + u.length, end, out \o u.out)
  IN  IF i >= end THEN [ok |-> TRUE, out |-> out]
      ELSE IF b[i] # Backslash THEN Decode(b, i + 1, end, Append(out, b[i]))
      ELSE IF b[i + 1] \in DOMAIN PlainEscape
      THEN Decode(b, i + 2, end, Append(out, PlainEscape[b[i + 1]]))
      ELSE Go(utf16_literal_to_utf8(b, i, end))

Unescape(b) ==
  LET To(end) == IF end = 0 THEN [ok |-> FALSE, out |-> <<>>] ELSE Decode(b, 1, end, <<>>)
  IN  To(InputEnd(b, 1))

-------------------------------------------------------------------------------
(* cJSON_Minify, at position i of the text with `into` already written.  over: it *)
(* reads past the NUL.                                                            *)

\* Where the comment that starts at i is left; the NUL is at Len(b) + 1.
CommentEnd(b, i) ==
  LET stop == IF b[i + 1] = 47
              THEN {j \in i..Len(b) : b[j] = 10}
              ELSE {j \in i..(Len(b) - 1) : b[j] = 42 /\ b[j + 1] = 47}
      at == IF stop = {} THEN Len(b) + 1 ELSE CHOOSE j \in stop : \A k \in stop : j <= k
  IN  IF b[i + 1] = 47 THEN at ELSE at + 2

\* Where the literal that starts at i ends: one past its closing quote, or past the
\* NUL, which is copied like a quote.
RECURSIVE LiteralEnd(_, _)
LiteralEnd(b, i) ==
  IF i > Len(b) THEN i + 1
  ELSE IF b[i] = Quote THEN i + 1
  ELSE LiteralEnd(b, IF b[i] = Backslash THEN i + 2 ELSE i + 1)

RECURSIVE MinifyFrom(_, _, _)
MinifyFrom(b, i, into) ==
  IF i > Len(b) THEN [out |-> into, over |-> i > Len(b) + 1]
  ELSE IF b[i] \in {32, 9, 13, 10} THEN MinifyFrom(b, i + 1, into)
  ELSE IF b[i] = 47 /\ i < Len(b) /\ b[i + 1] \in {47, 42}
  THEN MinifyFrom(b, CommentEnd(b, i), into)
  ELSE IF b[i] = Quote
  THEN LET e == LiteralEnd(b, i + 1) IN MinifyFrom(b, e, into \o SubSeq(b, i, IF e > Len(b) THEN Len(b) ELSE e - 1))
  ELSE MinifyFrom(b, i + 1, Append(into, b[i]))

Minify(b) == MinifyFrom(b, 1, <<>>)

===============================================================================
