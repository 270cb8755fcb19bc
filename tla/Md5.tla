---------------------------------- MODULE Md5 ----------------------------------
(***************************************************************************)
(* libtulingApi/md5.c: the digest of a client's number, which the Tuling   *)
(* service takes for the user's name.  A word of 32 bits is the set of the *)
(* places of its ones; the tables are those of the 64 macro calls of       *)
(* MD5Transform.  What MD5Update hands to the transformation is modelled   *)
(* apart from the transformation itself.                                   *)
(***************************************************************************)
EXTENDS Naturals, Sequences, SequencesExt, FiniteSets

Bits == 0..31

Word(hi, lo) == {i \in Bits : (IF i < 16 THEN lo \div 2^i ELSE hi \div 2^(i - 16)) % 2 = 1}

\* Addition modulo 2^32: carry[i] comes into place i.
Plus(x, y) ==
  LET ones(i, c) == Cardinality({s \in {1, 2, 3} : (s = 1 /\ i \in x) \/ (s = 2 /\ i \in y) \/ (s = 3 /\ c)})
      carry[i \in Bits] == i > 0 /\ ones(i - 1, carry[i - 1]) >= 2
  IN  {i \in Bits : ones(i, carry[i]) % 2 = 1}

\* The macros of md5.h.
ROTATE_LEFT(x, n) == {(i + n) % 32 : i \in x}
Xor(x, y) == (x \ y) \cup (y \ x)
Mix(round, x, y, z) ==
  CASE round = 1 -> (x \cap y) \cup (z \ x)
    [] round = 2 -> (x \cap z) \cup (y \ z)
    [] round = 3 -> Xor(x, Xor(y, z))
    [] round = 4 -> Xor(y, x \cup (Bits \ z))

-------------------------------------------------------------------------------
(* MD5Transform *)

InitialState ==
  << Word(\h6745, \h2301), Word(\hEFCD, \hAB89), Word(\h98BA, \hDCFE), Word(\h1032, \h5476) >>

\* The word of the block each step adds, its rotation and its constant.
Index ==
  << 0, 1, 2, 3, 4, 5, 6, 7, 8, 9, 10, 11, 12, 13, 14, 15,
     1, 6, 11, 0, 5, 10, 15, 4, 9, 14, 3, 8, 13, 2, 7, 12,
     5, 8, 11, 14, 1, 4, 7, 10, 13, 0, 3, 6, 9, 12, 15, 2,
     0, 7, 14, 5, 12, 3, 10, 1, 8, 15, 6, 13, 4, 11, 2, 9 >>
Shift == << <<7, 12, 17, 22>>, <<5, 9, 14, 20>>, <<4, 11, 16, 23>>, <<6, 10, 15, 21>> >>

Sine ==
  << <<\hD76A, \hA478>>, <<\hE8C7, \hB756>>, <<\h2420, \h70DB>>, <<\hC1BD, \hCEEE>>,
     <<\hF57C, \h0FAF>>, <<\h4787, \hC62A>>, <<\hA830, \h4613>>, <<\hFD46, \h9501>>,
     <<\h6980, \h98D8>>, <<\h8B44, \hF7AF>>, <<\hFFFF, \h5BB1>>, <<\h895C, \hD7BE>>,
     <<\h6B90, \h1122>>, <<\hFD98, \h7193>>, <<\hA679, \h438E>>, <<\h49B4, \h0821>>,
     <<\hF61E, \h2562>>, <<\hC040, \hB340>>, <<\h265E, \h5A51>>, <<\hE9B6, \hC7AA>>,
     <<\hD62F, \h105D>>, <<\h0244, \h1453>>, <<\hD8A1, \hE681>>, <<\hE7D3, \hFBC8>>,
     <<\h21E1, \hCDE6>>, <<\hC337, \h07D6>>, <<\hF4D5, \h0D87>>, <<\h455A, \h14ED>>,
     <<\hA9E3, \hE905>>, <<\hFCEF, \hA3F8>>, <<\h676F, \h02D9>>, <<\h8D2A, \h4C8A>>,
     <<\hFFFA, \h3942>>, <<\h8771, \hF681>>, <<\h6D9D, \h6122>>, <<\hFDE5, \h380C>>,
     <<\hA4BE, \hEA44>>, <<\h4BDE, \hCFA9>>, <<\hF6BB, \h4B60>>, <<\hBEBF, \hBC70>>,
     <<\h289B, \h7EC6>>, <<\hEAA1, \h27FA>>, <<\hD4EF, \h3085>>, <<\h0488, \h1D05>>,
     <<\hD9D4, \hD039>>, <<\hE6DB, \h99E5>>, <<\h1FA2, \h7CF8>>, <<\hC4AC, \h5665>>,
     <<\hF429, \h2244>>, <<\h432A, \hFF97>>, <<\hAB94, \h23A7>>, <<\hFC93, \hA039>>,
     <<\h655B, \h59C3>>, <<\h8F0C, \hCC92>>, <<\hFFEF, \hF47D>>, <<\h8584, \h5DD1>>,
     <<\h6FA8, \h7E4F>>, <<\hFE2C, \hE6E0>>, <<\hA301, \h4314>>, <<\h4E08, \h11A1>>,
     <<\hF753, \h7E82>>, <<\hBD3A, \hF235>>, <<\h2AD7, \hD2BB>>, <<\hEB86, \hD391>> >>
\* Four bytes make a word, the first is the lowest.
MD5Decode(block) ==
  [k \in 0..15 |-> Word(block[4 * k + 4] * 256 + block[4 * k + 3], block[4 * k + 2] * 256 + block[4 * k + 1])]

MD5Encode(words) ==
  LET byte(w, j) == FoldLeft(LAMBDA n, k : 2 * n + (IF 8 * j + 7 - k \in w THEN 1 ELSE 0), 0,
                             <<0, 1, 2, 3, 4, 5, 6, 7>>)
  IN  [n \in 1..(4 * Len(words)) |-> byte(words[((n - 1) \div 4) + 1], (n - 1) % 4)]

\* Step i changes one register and the four change places: <<a, b, c, d>> becomes
\* <<d, new a, b, c>>, so that every fourth step has them where they were.
MD5Transform(state, block) ==
  LET x == MD5Decode(block)
      step(r, i) ==
        LET round == ((i - 1) \div 16) + 1
            sum == Plus(Plus(r[1], Mix(round, r[2], r[3], r[4])),
                        Plus(x[Index[i]], Word(Sine[i][1], Sine[i][2])))
        IN  << r[4], Plus(ROTATE_LEFT(sum, Shift[round][((i - 1) % 4) + 1]), r[2]), r[2], r[3] >>
      last == FoldLeft(step, state, [i \in 1..64 |-> i])
  IN  [i \in 1..4 |-> Plus(state[i], last[i])]

-------------------------------------------------------------------------------
(* MD5_CTX: count is in bits, far below the 2^32 at which count[1] comes in, *)
(* the buffer is 64 bytes, and blocks are those that MD5Transform has been   *)
(* given, which the state is computed from.                                  *)

MD5Init == [count |-> 0, blocks |-> <<>>, buffer |-> [i \in 1..64 |-> 0]]

\* memcpy(&context->buffer[index], bytes, ..)
Fill(buffer, index, bytes) ==
  [i \in 1..64 |-> IF i \in (index + 1)..(index + Len(bytes)) THEN bytes[i - index] ELSE buffer[i]]

MD5Update(context, input) ==
  LET index == (context.count \div 8) % 64
      partlen == 64 - index
      blocks == (Len(input) - partlen) \div 64
      rest == SubSeq(input, partlen + 64 * blocks + 1, Len(input))
      first == Fill(context.buffer, index, SubSeq(input, 1, partlen))
      whole(i) == SubSeq(input, partlen + 64 * (i - 1) + 1, partlen + 64 * i)
      counted == [context EXCEPT !.count = @ + 8 * Len(input)]
  IN  IF Len(input) >= partlen
      THEN [counted EXCEPT
             !.blocks = @ \o <<first>> \o [i \in 1..blocks |-> whole(i)],
             !.buffer = Fill(first, 0, rest)]
      ELSE [counted EXCEPT !.buffer = Fill(@, index, input)]

\* The length in bits, as eight bytes: MD5Encode(bits, context->count, 8).
LengthBytes(count) == MD5Encode(<<Word(count \div 2^16, count % 2^16), {}>>)

PADDING == [i \in 1..64 |-> IF i = 1 THEN 128 ELSE 0]

PadLength(index) == IF index < 56 THEN 56 - index ELSE 120 - index

MD5Final(context) ==
  LET padlen == PadLength((context.count \div 8) % 64)
      padded == MD5Update(context, SubSeq(PADDING, 1, padlen))
  IN  MD5Update(padded, LengthBytes(context.count)).blocks

Digest(message) ==
  MD5Encode(FoldLeft(MD5Transform, InitialState, MD5Final(MD5Update(MD5Init, message))))

\* CallTulingApi: the digits of the number, and the digest as 32 hexadecimal digits.
Digits(n) == IF n < 10 THEN <<48 + n>> ELSE <<48 + (n \div 10), 48 + (n % 10)>>
Hex(bytes) == FlattenSeq([i \in 1..Len(bytes) |-> <<bytes[i] \div 16, bytes[i] % 16>>])

================================================================================
