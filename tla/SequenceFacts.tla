----------------------------- MODULE SequenceFacts -----------------------------
(***************************************************************************)
(* Facts about sequences that the proofs about the components share: what  *)
(* Append, Tail and a sequence of one or two elements look like, index by  *)
(* index; and that a search from the lowest number up finds something.     *)
(***************************************************************************)
EXTENDS Integers, Sequences, SequenceTheorems, WellFoundedInduction, TLAPS

\* Append adds one element and moves none.
LEMMA AppendIndex ==
  ASSUME NEW S, NEW s \in Seq(S), NEW x \in S
  PROVE  /\ Append(s, x) \in Seq(S)
         /\ Append(s, x) # <<>>
         /\ Len(Append(s, x)) = Len(s) + 1
         /\ \A i \in 1..Len(s) : Append(s, x)[i] = s[i]
         /\ Append(s, x)[Len(s) + 1] = x
OBVIOUS

\* The length of a sequence decides whether it is empty.
LEMMA SeqNonEmpty ==
  ASSUME NEW S, NEW s \in Seq(S)
  PROVE /\ Len(s) \in Nat
        /\ (s = <<>>) <=> (Len(s) = 0)
        /\ \A i \in 1..Len(s) : s[i] \in S
OBVIOUS

\* Tail moves every element one place forward and shortens by one.
LEMMA TailIndex ==
  ASSUME NEW S, NEW s \in Seq(S), s # <<>>
  PROVE  /\ Tail(s) \in Seq(S)
         /\ Len(s) \in Nat \ {0}
         /\ Len(Tail(s)) = Len(s) - 1
         /\ (Tail(s) = <<>>) <=> (Len(s) = 1)
         /\ \A i \in 1..(Len(s) - 1) : Tail(s)[i] = s[i + 1]
         /\ \A i \in 1..Len(s) : s[i] \in S
<1>1. Len(s) \in Nat \ {0}
  BY SeqNonEmpty
<1>2. Tail(s) \in Seq(S) /\ Len(Tail(s)) = Len(s) - 1
  BY <1>1
<1>3. \A i \in 1..(Len(s) - 1) : Tail(s)[i] = s[i + 1]
  BY <1>1
<1>4. (Tail(s) = <<>>) <=> (Len(Tail(s)) = 0)
  BY <1>2, SeqNonEmpty
<1> QED
  BY <1>1, <1>2, <1>3, <1>4, SeqNonEmpty

\* The head is the first element.
LEMMA HeadIndex ==
  ASSUME NEW S, NEW s \in Seq(S), s # <<>>
  PROVE  Head(s) \in S /\ Head(s) = s[1]
<1>1. Len(s) \in Nat \ {0}
  BY SeqNonEmpty
<1> QED
  BY <1>1, SeqNonEmpty

\* Sequences of one and two elements, taken apart and put together.
LEMMA ShortSeqs ==
  ASSUME NEW x, NEW y
  PROVE  /\ <<x>> # <<>> /\ <<x, y>> # <<>> /\ \A z : <<z>> # <<x, y>>
         /\ Append(<<>>, x) = <<x>> /\ Append(<<x>>, y) = <<x, y>>
         /\ Len(<<>>) = 0 /\ Len(<<x>>) = 1 /\ Len(<<x, y>>) = 2
         /\ Head(<<x>>) = x /\ Head(<<x, y>>) = x
         /\ Tail(<<x>>) = <<>> /\ Tail(<<x, y>>) = <<y>>
         /\ <<x>>[1] = x /\ <<x, y>>[1] = x /\ <<x, y>>[2] = y
<1> DEFINE S == {x, y}
<1>1. /\ <<>> \in Seq(S) /\ <<x>> \in Seq(S) /\ <<y>> \in Seq(S) /\ <<x, y>> \in Seq(S)
      /\ x \in S /\ y \in S
  OBVIOUS
<1>2. Len(<<>>) = 0 /\ Len(<<x>>) = 1 /\ Len(<<y>>) = 1 /\ Len(<<x, y>>) = 2
  OBVIOUS
<1>3. <<x>>[1] = x /\ <<x, y>>[1] = x /\ <<x, y>>[2] = y /\ <<y>>[1] = y
  OBVIOUS
<1>4. <<x>> # <<>> /\ <<x, y>> # <<>> /\ \A z : <<z>> # <<x, y>>
  OBVIOUS
<1> HIDE DEF S
<1>5. Append(<<>>, x) = <<x>>
  BY <1>1, <1>2, <1>3, AppendIndex, SeqEqual
<1>6. Append(<<x>>, y) = <<x, y>>
  <2>1. /\ Append(<<x>>, y) \in Seq(S) /\ Len(Append(<<x>>, y)) = 2
        /\ Append(<<x>>, y)[1] = x /\ Append(<<x>>, y)[2] = y
    BY <1>1, <1>2, <1>3, AppendIndex
  <2>2. \A i \in 1..2 : Append(<<x>>, y)[i] = <<x, y>>[i]
    BY <2>1, <1>3
  <2> QED BY <1>1, <1>2, <2>1, <2>2, SeqEqual
<1>7. Head(<<x>>) = x /\ Head(<<x, y>>) = x
  BY <1>1, <1>3, <1>4, HeadIndex
<1>8. Tail(<<x>>) = <<>>
  BY <1>1, <1>2, <1>4, TailIndex
<1>9. Tail(<<x, y>>) = <<y>>
  <2>1. /\ Tail(<<x, y>>) \in Seq(S) /\ Len(Tail(<<x, y>>)) = 1
        /\ Tail(<<x, y>>)[1] = y
    BY <1>1, <1>2, <1>3, <1>4, TailIndex
  <2>2. \A i \in 1..1 : Tail(<<x, y>>)[i] = <<y>>[i]
    BY <2>1, <1>3
  <2> QED BY <1>1, <1>2, <2>1, <2>2, SeqEqual
<1> QED
  BY <1>2, <1>3, <1>4, <1>5, <1>6, <1>7, <1>8, <1>9

\* A sequence of several elements is not one of a single element.
LEMMA LongerThanOne ==
  ASSUME NEW S, NEW s \in Seq(S), Len(s) > 1
  PROVE  \A z : s # <<z>>
<1> SUFFICES ASSUME NEW z, s = <<z>> PROVE FALSE
  OBVIOUS
<1>1. Len(<<z>>) = 1
  OBVIOUS
<1>2. Len(s) = 1
  BY <1>1, Zenon
<1> QED
  BY <1>2

\* A set of naturals that is not empty has a least element.
LEMMA NatMinimum ==
  ASSUME NEW T \in SUBSET Nat, T # {}
  PROVE  \E m \in T : \A n \in T : m <= n
<1> DEFINE R == {ss \in Nat \X Nat : ss[1] < ss[2]}
<1>1. IsWellFoundedOn(R, Nat)
  BY NatLessThanWellFounded DEF OpToRel
<1>2. PICK x \in T : \A y \in T : ~(<<y, x>> \in R)
  <2> HIDE DEF R
  <2> QED BY <1>1, WFMin
<1>3. \A y \in T : <<y, x>> \in Nat \X Nat
  OBVIOUS
<1>4. \A y \in T : ~(y < x)
  BY <1>2, <1>3
<1> QED
  BY <1>4

===============================================================================
