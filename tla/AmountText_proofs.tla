--------------------------- MODULE AmountText_proofs ---------------------------
(***************************************************************************)
(* Theorems about AmountText, for every number of at most twenty digits:   *)
(* what a buffer reads after a conversion is the number it was filled for. *)
(***************************************************************************)
EXTENDS AmountText, WellFoundedInduction, TLAPS

\* A text is made of characters, and NUL is none.
Char == Digit \cup {".", " ", "X", "M", "R"}

-----------------------------------------------------------------------------
(* Buffers and the strings they hold. *)

\* A set of naturals has a least element.
LEMMA Least ==
  ASSUME NEW S \in SUBSET Nat, S # {}
  PROVE  \E i \in S : \A j \in S : i <= j
<1> DEFINE R == OpToRel(<, Nat)
<1>1. IsWellFoundedOn(R, Nat)
  BY NatLessThanWellFounded
<1> HIDE DEF R
<1>2. PICK x \in S : \A y \in S : ~(<<y, x>> \in R)
  BY <1>1, WFMin
<1>3. \A y \in S : ~(y < x)
  BY <1>2 DEF R, OpToRel
<1> QED BY <1>3

\* A string ends at the first NUL.
LEMMA StringEnds ==
  ASSUME NEW str, NEW end \in Buffer, str[end] = NUL, \A j \in 0..end - 1 : str[j] # NUL
  PROVE  CString(str) = [i \in 1..end |-> str[i - 1]]
<1> DEFINE First(i) == str[i] = NUL /\ \A j \in 0..i - 1 : str[j] # NUL
<1>1. \A i \in Buffer : First(i) => i = end
  BY DEF Buffer, MAX_AMOUNT_LENGTH
<1>2. (CHOOSE i \in Buffer : First(i)) = end
  BY <1>1
<1> QED BY <1>2 DEF CString

\* An index into the buffer.
LEMMA InBuffer == \A k \in Nat : k < MAX_AMOUNT_LENGTH => k \in Buffer
BY DEF Buffer, MAX_AMOUNT_LENGTH

\* A sequence is one over any larger set.
LEMMA Wider ==
  ASSUME NEW S, NEW T, S \subseteq T, NEW s \in Seq(S)
  PROVE  s \in Seq(T)
<1>1. s \in [1..Len(s) -> T] /\ Len(s) \in Nat
  OBVIOUS
<1> QED BY <1>1

\* What a sequence begins with.
LEMMA Beginning ==
  ASSUME NEW T, NEW f \in Seq(T), NEW h \in 0..Len(f)
  PROVE  /\ SubSeq(f, 1, h) \in Seq(T) /\ Len(SubSeq(f, 1, h)) = h
         /\ \A i \in 1..h : SubSeq(f, 1, h)[i] = f[i]
<1>1. h \in Nat /\ h <= Len(f) /\ Len(f) \in Nat
  OBVIOUS
<1>2. SubSeq(f, 1, h) \in Seq(T) /\ Len(SubSeq(f, 1, h)) = h
  BY <1>1
<1>3. \A i \in 1..h : SubSeq(f, 1, h)[i] = f[i]
  BY <1>1
<1> QED BY <1>2, <1>3

\* What the middle of a sequence is.
LEMMA Section ==
  ASSUME NEW T, NEW f \in Seq(T), NEW a \in Nat, NEW b \in Nat, b <= Len(f), a <= b
  PROVE  /\ SubSeq(f, a + 1, b) \in Seq(T) /\ Len(SubSeq(f, a + 1, b)) = b - a
         /\ \A i \in 1..b - a : SubSeq(f, a + 1, b)[i] = f[a + i]
<1>1. SubSeq(f, a + 1, b) \in Seq(T) /\ Len(SubSeq(f, a + 1, b)) = b - a
  OBVIOUS
<1>2. \A i \in 1..b - a : SubSeq(f, a + 1, b)[i] = f[a + 1 + i - 1]
  OBVIOUS
<1>3. \A i \in 1..b - a : a + 1 + i - 1 = a + i
  OBVIOUS
<1> QED BY <1>1, <1>2, <1>3

\* What two sequences make together.
LEMMA Joined ==
  ASSUME NEW T, NEW f \in Seq(T), NEW g \in Seq(T)
  PROVE  /\ f \o g \in Seq(T) /\ Len(f \o g) = Len(f) + Len(g)
         /\ \A i \in 1..Len(f) : (f \o g)[i] = f[i]
         /\ \A i \in 1..Len(g) : (f \o g)[Len(f) + i] = g[i]
OBVIOUS

\* A sequence begins with another if it agrees with it as far as that goes.
LEMMA BeginsWith ==
  ASSUME NEW T, NEW s \in Seq(T), NEW t \in Seq(T), Len(s) <= Len(t),
         \A i \in 1..Len(s) : t[i] = s[i]
  PROVE  IsPrefix(s, t)
<1>1. SubSeq(t, 1, Len(s)) = SubSeq(s, 1, Len(s))
  OBVIOUS
<1> QED BY <1>1 DEF IsPrefix

\* The characters a text was put into.
LEMMA PutAt ==
  ASSUME NEW str, NEW text \in Seq(Char), NEW str_len, Len(text) < MAX_AMOUNT_LENGTH
  PROVE  \A j \in 0..Len(text) - 1 : /\ Put(str, text, str_len)[j] = text[j + 1]
                                     /\ Put(str, text, str_len)[j] # NUL
<1> TAKE j \in 0..Len(text) - 1
<1>1. Len(text) \in Nat
  OBVIOUS
<1>2. j \in Nat /\ j < Len(text) /\ j < MAX_AMOUNT_LENGTH /\ j + 1 \in 1..Len(text)
  BY <1>1 DEF MAX_AMOUNT_LENGTH
<1>3. j \in Buffer
  BY <1>2, InBuffer
<1>4. Put(str, text, str_len)[j] = text[j + 1]
  BY <1>2, <1>3 DEF Put
<1>5. text[j + 1] \in Char
  BY <1>2
<1> QED BY <1>4, <1>5 DEF Char, Digit, NUL

\* A text put where it leaves room for a NUL is the string of the buffer.
LEMMA PutText ==
  ASSUME NEW str, NEW text \in Seq(Char), NEW str_len \in 0..MAX_AMOUNT_LENGTH,
         Len(text) < str_len
  PROVE  CString(Put(str, text, str_len)) = text
<1> DEFINE put == Put(str, text, str_len)
<1>1. Len(text) \in Nat
  OBVIOUS
<1>2. Len(text) < MAX_AMOUNT_LENGTH
  BY <1>1 DEF MAX_AMOUNT_LENGTH
<1>3. Len(text) \in Buffer
  BY <1>1, <1>2, InBuffer
<1>4. put[Len(text)] = NUL
  BY <1>1, <1>3 DEF Put
<1>5. \A j \in 0..Len(text) - 1 : put[j] = text[j + 1] /\ put[j] # NUL
  BY <1>2, PutAt
<1> HIDE DEF put
<1>6. CString(put) = [i \in 1..Len(text) |-> put[i - 1]]
  BY <1>3, <1>4, <1>5, StringEnds
<1>7. \A i \in 1..Len(text) : put[i - 1] = text[i]
  BY <1>1, <1>5
<1>8. [i \in 1..Len(text) |-> put[i - 1]] = text
  BY <1>7
<1> QED BY <1>6, <1>8 DEF put

\* Some NUL is always left: the last byte of the buffer.
Terminated == ux_amount[MAX_AMOUNT_LENGTH - 1] = NUL

\* No conversion reaches it.
LEMMA PutTerminated ==
  ASSUME NEW str, NEW text \in Seq(Char), NEW str_len \in 0..MAX_AMOUNT_LENGTH,
         Len(text) <= MAX_AMOUNT_LENGTH - 1,
         str[MAX_AMOUNT_LENGTH - 1] = NUL \/ str_len = MAX_AMOUNT_LENGTH
  PROVE  Put(str, text, str_len)[MAX_AMOUNT_LENGTH - 1] = NUL
BY DEF Put, Buffer, MAX_AMOUNT_LENGTH

\* A text put where nothing ends it is the beginning of the string, which the last
\* byte ends.
LEMMA PutPrefix ==
  ASSUME NEW str, NEW text \in Seq(Char), NEW str_len \in 0..MAX_AMOUNT_LENGTH,
         Len(text) <= MAX_AMOUNT_LENGTH - 1, str[MAX_AMOUNT_LENGTH - 1] = NUL
  PROVE  IsPrefix(text, CString(Put(str, text, str_len)))
<1> DEFINE put == Put(str, text, str_len)
           S == {i \in Buffer : put[i] = NUL}
<1>1. put[MAX_AMOUNT_LENGTH - 1] = NUL
  BY PutTerminated
<1>2. Len(text) \in Nat /\ Len(text) < MAX_AMOUNT_LENGTH
  BY DEF MAX_AMOUNT_LENGTH
<1>3. \A j \in 0..Len(text) - 1 : put[j] = text[j + 1] /\ put[j] # NUL
  BY <1>2, PutAt
<1> HIDE DEF put
<1>4. S \in SUBSET Nat /\ S # {}
  BY <1>1 DEF Buffer, MAX_AMOUNT_LENGTH
<1>5. PICK end \in S : \A j \in S : end <= j
  BY <1>4, Least
<1>6. end \in Buffer /\ put[end] = NUL /\ \A j \in 0..end - 1 : put[j] # NUL
  BY <1>5 DEF Buffer, MAX_AMOUNT_LENGTH
<1>7. CString(put) = [i \in 1..end |-> put[i - 1]]
  BY <1>6, StringEnds
<1>8. end \in Nat
  BY <1>6 DEF Buffer, MAX_AMOUNT_LENGTH
<1>9. Len(text) <= end
  BY <1>2, <1>3, <1>6, <1>8
<1> DEFINE T == Char \cup {put[i] : i \in Buffer}
<1>10. \A i \in 1..end : put[i - 1] \in T
  <2>1. \A i \in 1..end : i - 1 \in Buffer
    BY <1>6, <1>8 DEF Buffer, MAX_AMOUNT_LENGTH
  <2> QED BY <2>1
<1> HIDE DEF T
<1>11. CString(put) \in Seq(T) /\ Len(CString(put)) = end
  BY <1>7, <1>8, <1>10
<1>12. text \in Seq(T)
  BY Wider DEF T
<1>13. \A i \in 1..Len(text) : CString(put)[i] = text[i]
  BY <1>2, <1>3, <1>7, <1>8, <1>9
<1>14. IsPrefix(text, CString(put))
  BY <1>9, <1>11, <1>12, <1>13, BeginsWith
<1> QED BY <1>14 DEF put

-----------------------------------------------------------------------------
(* The characters of an amount. *)

\* The characters in front of the first that is shown, for a number of l digits.
Skipped(l) == IF l > 12 THEN 20 - l ELSE 7

\* A number that is not zero has at most twenty digits.
LEMMA Digits ==
  ASSUME NEW n \in Numbers, n # <<>>
  PROVE  n \in Seq(Digit) /\ n \in Seq(Char) /\ n[1] # "0" /\ \E l \in 1..20 : l = Len(n)
<1>1. n \in Seq(Digit) /\ Len(n) <= 20 /\ n[1] # "0"
  BY NumbersOK
<1>2. Len(n) \in Nat /\ Len(n) # 0
  BY <1>1
<1>3. n \in Seq(Char)
  BY <1>1, Wider DEF Char
<1>4. \A l \in Nat : l <= 20 /\ l # 0 => l \in 1..20
  OBVIOUS
<1>5. Len(n) \in 1..20
  BY <1>1, <1>2, <1>4
<1> QED BY <1>1, <1>3, <1>5

\* At most seven characters are left out.
LEMMA SkippedFew == \A l \in 1..20 : Skipped(l) \in 0..7
BY DEF Skipped

\* The array of the code: the digits at its end, and the first eight moved down to
\* make room for the point.
PointedFrom(s, n, l) ==
  /\ \A i \in 0..7 : s[i] = IF i + 1 > 20 - l THEN n[i + 1 - (20 - l)] ELSE "0"
  /\ s[8] = "."
  /\ \A i \in 9..20 : s[i] = IF i > 20 - l THEN n[i - (20 - l)] ELSE "0"

\* That is what it is.
LEMMA PointedAre ==
  ASSUME NEW n, NEW l \in 1..20, l = Len(n)
  PROVE  PointedFrom(Pointed(n), n, l)
<1>1. \A i \in 0..20 : Units(n)[i] = IF i > 20 - l THEN n[i - (20 - l)] ELSE "0"
  BY DEF Units
<1> QED BY <1>1 DEF Pointed, PointedFrom

\* The reference: the digits padded to thirteen.
PaddedFrom(p, n, l, k) ==
  \A i \in 1..20 - k : p[i] = IF i + k > 20 - l THEN n[i + k - (20 - l)] ELSE "0"

\* That is what it is.
LEMMA PaddedAre ==
  ASSUME NEW n \in Seq(Char), NEW l \in 1..20, l = Len(n)
  PROVE  /\ Padded(n) \in Seq(Char)
         /\ Len(Padded(n)) = 20 - Skipped(l)
         /\ PaddedFrom(Padded(n), n, l, Skipped(l))
<1> USE DEF PaddedFrom
<1>1. CASE l > 12
  <2>1. [i \in 1..13 - Len(n) |-> "0"] = <<>>
    BY <1>1
  <2>2. Padded(n) = n
    <3>1. Padded(n) = [i \in 1..13 - Len(n) |-> "0"] \o n
      BY DEF Padded
    <3>2. <<>> \o n = n
      OBVIOUS
    <3> QED BY <2>1, <3>1, <3>2
  <2>3. \A i \in 1..20 - Skipped(l) : /\ i + Skipped(l) > 20 - l
                                      /\ i + Skipped(l) - (20 - l) = i
    BY <1>1 DEF Skipped
  <2> QED BY <1>1, <2>2, <2>3 DEF Skipped
<1>2. CASE ~(l > 12)
  <2> DEFINE zeros == [i \in 1..13 - l |-> "0"]
  <2>1. /\ zeros \in Seq(Char) /\ Len(zeros) = 13 - l
        /\ \A i \in 1..13 - l : zeros[i] = "0"
    <3>1. "0" \in Char
      BY DEF Char, Digit
    <3> QED BY <1>2, <3>1
  <2>2. Padded(n) = zeros \o n
    BY DEF Padded
  <2> HIDE DEF zeros
  <2>3. Padded(n) \in Seq(Char) /\ Len(Padded(n)) = 13
    BY <1>2, <2>1, <2>2
  <2>4. \A i \in 1..13 - l : Padded(n)[i] = "0"
    BY <1>2, <2>1, <2>2
  <2>5. \A i \in 14 - l..13 : Padded(n)[i] = n[i - (13 - l)]
    BY <1>2, <2>1, <2>2
  <2>6. Skipped(l) = 7
    BY <1>2 DEF Skipped
  <2>7. ASSUME NEW i \in 1..13
        PROVE  Padded(n)[i] = IF i + 7 > 20 - l THEN n[i + 7 - (20 - l)] ELSE "0"
    <3>1. CASE i + 7 > 20 - l
      <4>1. i \in 14 - l..13 /\ i + 7 - (20 - l) = i - (13 - l)
        BY <1>2, <3>1
      <4> QED BY <2>5, <3>1, <4>1
    <3>2. CASE ~(i + 7 > 20 - l)
      <4>1. i \in 1..13 - l
        BY <1>2, <3>2
      <4> QED BY <2>4, <3>2, <4>1
    <3> QED BY <3>1, <3>2
  <2> QED BY <2>3, <2>6, <2>7
<1> QED BY <1>1, <1>2

\* The same digits, k characters apart before the point.
Apart(p, s, k) ==
  /\ \A i \in 1..8 - k : p[i] = s[k + i - 1]
  /\ \A i \in 1..12 : p[8 - k + i] = s[8 + i]

\* Both have the digits in these places.
LEMMA SamePlaces ==
  ASSUME NEW n, NEW l \in 1..20, NEW k \in 0..7, NEW p, NEW s,
         PaddedFrom(p, n, l, k), PointedFrom(s, n, l)
  PROVE  Apart(p, s, k)
<1>1. ASSUME NEW i \in 1..8 - k PROVE p[i] = s[k + i - 1]
  <2>1. i \in 1..20 - k /\ k + i - 1 \in 0..7 /\ k + i - 1 + 1 = i + k
    OBVIOUS
  <2> QED BY <2>1 DEF PaddedFrom, PointedFrom
<1>2. ASSUME NEW i \in 1..12 PROVE p[8 - k + i] = s[8 + i]
  <2>1. 8 - k + i \in 1..20 - k /\ 8 + i \in 9..20 /\ 8 - k + i + k = 8 + i
    OBVIOUS
  <2> QED BY <2>1 DEF PaddedFrom, PointedFrom
<1> QED BY <1>1, <1>2 DEF Apart

\* Digits, a point, and twelve digits more, as they are in the array.
InArray(coins, fraction, s, k) ==
  /\ coins \in Seq(Char) /\ Len(coins) = 9 - k
  /\ fraction \in Seq(Char) /\ Len(fraction) = 12
  /\ \A i \in 1..9 - k : coins[i] = s[k + i - 1]
  /\ \A i \in 1..12 : fraction[i] = s[8 + i]

\* The padded digits with a point in them are in the array.
LEMMA PartsInArray ==
  ASSUME NEW n, NEW l \in 1..20, NEW k \in 0..7, NEW p \in Seq(Char), NEW s,
         Len(p) = 20 - k, PaddedFrom(p, n, l, k), PointedFrom(s, n, l)
  PROVE  InArray(SubSeq(p, 1, Len(p) - 12) \o <<".">>, SubSeq(p, Len(p) - 11, Len(p)), s, k)
<1> DEFINE head == SubSeq(p, 1, Len(p) - 12)
           coins == head \o <<".">>
           fraction == SubSeq(p, Len(p) - 11, Len(p))
<1>1. /\ \A i \in 1..8 - k : p[i] = s[k + i - 1]
      /\ \A i \in 1..12 : p[8 - k + i] = s[8 + i]
  <2>1. Apart(p, s, k)
    BY SamePlaces, Zenon
  <2> QED BY <2>1 DEF Apart
<1>2. head \in Seq(Char) /\ Len(head) = 8 - k /\ \A i \in 1..8 - k : head[i] = p[i]
  OBVIOUS
<1>3. /\ fraction \in Seq(Char) /\ Len(fraction) = 12
      /\ \A i \in 1..12 : fraction[i] = p[8 - k + i]
  OBVIOUS
<1> HIDE DEF head
<1>4. <<".">> \in Seq(Char)
  <2>1. "." \in Char
    BY DEF Char
  <2> QED BY <2>1
<1>5. /\ coins \in Seq(Char) /\ Len(coins) = 9 - k
      /\ (\A i \in 1..8 - k : coins[i] = p[i]) /\ coins[9 - k] = "."
  BY <1>2, <1>4
<1>6. s[8] = "."
  BY DEF PointedFrom
<1> HIDE DEF coins, fraction
<1>7. ASSUME NEW i \in 1..9 - k PROVE coins[i] = s[k + i - 1]
  <2>1. CASE i = 9 - k
    <3>1. k + i - 1 = 8
      BY <2>1
    <3> QED BY <1>5, <1>6, <2>1, <3>1
  <2>2. CASE i # 9 - k
    <3>1. i \in 1..8 - k
      BY <2>2
    <3> QED BY <1>1, <1>5, <3>1
  <2> QED BY <2>1, <2>2
<1>8. \A i \in 1..12 : fraction[i] = s[8 + i]
  BY <1>1, <1>3
<1>9. InArray(coins, fraction, s, k)
  BY <1>3, <1>5, <1>7, <1>8 DEF InArray
<1> QED BY <1>9 DEF coins, fraction, head

\* Coins and fraction of the reference are in the array of the code.
LEMMA ReferenceInArray ==
  ASSUME NEW n \in Seq(Char), NEW l \in 1..20, l = Len(n), NEW k \in 0..7, k = Skipped(l)
  PROVE  InArray(Coins(n), Fraction(n), Pointed(n), k)
<1> DEFINE p == Padded(n)
           s == Pointed(n)
<1>1. p \in Seq(Char) /\ Len(p) = 20 - k /\ PaddedFrom(p, n, l, k)
  BY PaddedAre
<1>2. PointedFrom(s, n, l)
  BY PointedAre
<1> HIDE DEF p, s
<1>3. InArray(SubSeq(p, 1, Len(p) - 12) \o <<".">>, SubSeq(p, Len(p) - 11, Len(p)), s, k)
  BY <1>1, <1>2, PartsInArray
<1> QED BY <1>3 DEF p, s, Coins, Fraction

-----------------------------------------------------------------------------
(* The characters that are shown. *)

\* All zeros in front go, but one before the point.
LEMMA FirstIs ==
  ASSUME NEW n, NEW s, NEW l \in 1..20, NEW k \in 0..7, k = Skipped(l),
         PointedFrom(s, n, l), n[1] # "0", n[1] # "."
  PROVE  FirstShown(s) = k
<1> USE DEF PointedFrom
<1>1. ASSUME NEW f \in 0..20, s[f] # "0", \A j \in 0..f - 1 : s[j] = "0"
      PROVE  FirstNonZero(s) = f
  <2> DEFINE First(i) == s[i] # "0" /\ \A j \in 0..i - 1 : s[j] = "0"
  <2>1. \A i \in 0..20 : First(i) => i = f
    BY <1>1
  <2>2. First(f)
    BY <1>1
  <2> HIDE DEF First
  <2>3. (CHOOSE i \in 0..20 : First(i)) = f
    BY <2>1, <2>2
  <2> QED BY <2>3 DEF FirstNonZero, First
<1>2. CASE l > 12
  <2>1. k = 20 - l /\ k + 1 > 20 - l /\ k + 1 - (20 - l) = 1
    BY <1>2 DEF Skipped
  <2>2. s[k] = n[1]
    BY <2>1
  <2>3. \A j \in 0..k - 1 : s[j] = "0"
    BY <2>1
  <2>4. FirstNonZero(s) = k
    BY <1>1, <2>2, <2>3
  <2> QED BY <2>2, <2>4 DEF FirstShown
<1>3. CASE ~(l > 12)
  <2>1. k = 7 /\ \A j \in 0..7 : s[j] = "0"
    BY <1>3 DEF Skipped
  <2>2. FirstNonZero(s) = 8
    BY <1>1, <2>1
  <2> QED BY <2>1, <2>2 DEF FirstShown
<1> QED BY <1>2, <1>3

\* The zeros at the end go, and the point stays.
LastIs(s, last) ==
  /\ last \in 8..20 /\ LastShown(s) = last
  /\ s[last] # "0" /\ \A j \in last + 1..20 : s[j] = "0"

\* There is such a last character.
LEMMA LastExists == ASSUME NEW s, s[8] = "." PROVE \E last \in 8..20 : LastIs(s, last)
<1> DEFINE S == {i \in 0..12 : s[20 - i] # "0"}
           Final(i) == s[i] # "0" /\ \A j \in i + 1..20 : s[j] = "0"
<1>1. S \in SUBSET Nat /\ S # {}
  <2>1. 12 \in S
    OBVIOUS
  <2>2. S \subseteq Nat
    OBVIOUS
  <2> QED BY <2>1, <2>2
<1>2. PICK i \in S : \A j \in S : i <= j
  BY <1>1, Least
<1>3. i \in 0..12 /\ 20 - i \in 8..20 /\ s[20 - i] # "0"
  BY <1>2
<1>4. ASSUME NEW j \in (20 - i) + 1..20 PROVE s[j] = "0"
  <2>1. 20 - j \in 0..12 /\ 20 - j < i /\ 20 - (20 - j) = j
    BY <1>3
  <2>2. ASSUME s[j] # "0" PROVE FALSE
    <3>1. s[20 - (20 - j)] # "0"
      BY <2>1, <2>2
    <3>2. 20 - j \in S
      BY <2>1, <3>1
    <3>3. i <= 20 - j
      BY <1>2, <3>2
    <3> QED BY <1>3, <2>1, <3>3
  <2> QED BY <2>2
<1>5. Final(20 - i)
  BY <1>3, <1>4
<1>6. \A j \in 0..20 : Final(j) => j = 20 - i
  BY <1>3, <1>5
<1> HIDE DEF Final
<1>7. (CHOOSE j \in 0..20 : Final(j)) = 20 - i
  BY <1>3, <1>5, <1>6
<1>8. LastShown(s) = 20 - i
  BY <1>7 DEF LastShown, Final
<1>9. LastIs(s, 20 - i)
  BY <1>3, <1>4, <1>8 DEF LastIs
<1> QED BY <1>3, <1>9

\* The reference strips the same zeros.
LEMMA StrippedIs ==
  ASSUME NEW T, NEW f \in Seq(T), Len(f) = 12, NEW m \in 0..12,
         m # 0 => f[m] # "0", \A j \in m + 1..12 : f[j] = "0"
  PROVE  Stripped(f) = SubSeq(f, 1, m)
<1> DEFINE Good(t) == /\ \A i \in Len(t) + 1..Len(f) : f[i] = "0"
                      /\ t # <<>> => t[Len(t)] # "0"
           Cuts == {SubSeq(f, 1, h) : h \in 0..Len(f)}
<1>1. \A h \in 0..12 : /\ Len(SubSeq(f, 1, h)) = h
                       /\ h # 0 => SubSeq(f, 1, h)[h] = f[h]
                       /\ h = 0 <=> SubSeq(f, 1, h) = <<>>
  <2> TAKE h \in 0..12
  <2> h \in 0..Len(f)
    OBVIOUS
  <2>1. SubSeq(f, 1, h) \in Seq(T) /\ Len(SubSeq(f, 1, h)) = h
    BY Beginning
  <2>2. \A i \in 1..h : SubSeq(f, 1, h)[i] = f[i]
    BY Beginning, Zenon
  <2>3. \A t \in Seq(T) : Len(t) = 0 <=> t = <<>>
    OBVIOUS
  <2>4. h # 0 => h \in 1..h
    OBVIOUS
  <2>5. h # 0 => SubSeq(f, 1, h)[h] = f[h]
    BY <2>2, <2>4
  <2>6. h = 0 <=> SubSeq(f, 1, h) = <<>>
    BY <2>1, <2>3
  <2> QED BY <2>1, <2>5, <2>6
<1>2. Good(SubSeq(f, 1, m))
  BY <1>1
<1>3. ASSUME NEW h \in 0..12, Good(SubSeq(f, 1, h)) PROVE h = m
  <2>1. (\A i \in h + 1..12 : f[i] = "0") /\ (h # 0 => f[h] # "0")
    BY <1>1, <1>3
  <2>2. ~(h < m)
    BY <2>1
  <2>3. ~(m < h)
    BY <2>1
  <2> QED BY <2>2, <2>3
<1> HIDE DEF Good
<1>4. SubSeq(f, 1, m) \in Cuts
  OBVIOUS
<1>5. \A t \in Cuts : Good(t) => t = SubSeq(f, 1, m)
  BY <1>3
<1>6. (CHOOSE t \in Cuts : Good(t)) = SubSeq(f, 1, m)
  BY <1>2, <1>4, <1>5
<1> QED BY <1>6 DEF Stripped, Good

\* Two sequences are the same if they agree everywhere.
LEMMA SameSeq ==
  ASSUME NEW T, NEW s \in Seq(T), NEW t \in Seq(T), Len(s) = Len(t),
         \A i \in 1..Len(s) : s[i] = t[i]
  PROVE  s = t
OBVIOUS

\* What the code cuts out of its array is what the reference puts together.
LEMMA TextIs ==
  ASSUME NEW coins, NEW fraction, NEW s, NEW k \in 0..7, NEW last \in 8..20,
         InArray(coins, fraction, s, k), LastIs(s, last)
  PROVE  /\ SubSeq([i \in 1..21 |-> s[i - 1]], k + 1, last + 1) = coins \o Stripped(fraction)
         /\ coins \o Stripped(fraction) \in Seq(Char)
         /\ Len(coins \o Stripped(fraction)) = last - k + 1
         /\ \A i \in 1..9 - k : (coins \o Stripped(fraction))[i] = coins[i]
<1> DEFINE arr  == [i \in 1..21 |-> s[i - 1]]
           T    == Char \cup {s[i] : i \in 0..20}
           tail == SubSeq(fraction, 1, last - 8)
           text == SubSeq(arr, k + 1, last + 1)
<1>1. /\ coins \in Seq(Char) /\ Len(coins) = 9 - k
      /\ fraction \in Seq(Char) /\ Len(fraction) = 12
      /\ \A i \in 1..9 - k : coins[i] = s[k + i - 1]
      /\ \A i \in 1..12 : fraction[i] = s[8 + i]
  BY DEF InArray
<1>2. PICK m \in 0..12 : m = last - 8
  OBVIOUS
<1>3. Stripped(fraction) = SubSeq(fraction, 1, m)
  <2>1. m # 0 => fraction[m] # "0"
    <3>1. m # 0 => m \in 1..12 /\ 8 + m = last
      BY <1>2
    <3> QED BY <1>1, <3>1 DEF LastIs
  <2>2. \A j \in m + 1..12 : fraction[j] = "0"
    <3> TAKE j \in m + 1..12
    <3>1. j \in 1..12 /\ 8 + j \in last + 1..20
      BY <1>2
    <3> QED BY <1>1, <3>1 DEF LastIs
  <2> QED BY <1>1, <2>1, <2>2, StrippedIs
<1>4. /\ tail \in Seq(Char) /\ Len(tail) = m
      /\ \A i \in 1..m : tail[i] = fraction[i]
  <2>1. tail = SubSeq(fraction, 1, m) /\ m \in 0..Len(fraction) /\ fraction \in Seq(Char)
    BY <1>1, <1>2
  <2> QED BY ONLY <2>1, Beginning
<1> HIDE DEF tail
<1>5. /\ coins \o tail \in Seq(Char) /\ Len(coins \o tail) = last - k + 1
      /\ \A i \in 1..9 - k : (coins \o tail)[i] = coins[i]
      /\ \A i \in 1..m : (coins \o tail)[9 - k + i] = tail[i]
  <2>1. /\ coins \o tail \in Seq(Char) /\ Len(coins \o tail) = Len(coins) + Len(tail)
        /\ \A i \in 1..Len(coins) : (coins \o tail)[i] = coins[i]
        /\ \A i \in 1..Len(tail) : (coins \o tail)[Len(coins) + i] = tail[i]
    <3>1. coins \in Seq(Char) /\ tail \in Seq(Char)
      BY <1>1, <1>4
    <3> QED BY ONLY <3>1, Joined
  <2>2. 9 - k + m = last - k + 1
    BY <1>2
  <2> QED BY <1>1, <1>4, <2>1, <2>2
<1>6. arr \in Seq(T) /\ Len(arr) = 21 /\ \A i \in 1..21 : arr[i] = s[i - 1]
  OBVIOUS
<1> HIDE DEF arr, T
<1>7. /\ text \in Seq(T) /\ Len(text) = last - k + 1
      /\ \A i \in 1..last - k + 1 : text[i] = arr[k + i]
  <2>1. PICK b \in 9..21 : b = last + 1
    OBVIOUS
  <2>2. b - k = last - k + 1
    BY <2>1
  <2>3. text = SubSeq(arr, k + 1, b)
    BY <2>1
  <2> HIDE DEF text
  <2>4. text \in Seq(T) /\ Len(text) = b - k /\ \A i \in 1..b - k : text[i] = arr[k + i]
    <3>0. k \in Nat /\ b \in Nat /\ b <= 21 /\ k <= b
      OBVIOUS
    <3>1. k \in Nat /\ b \in Nat /\ b <= Len(arr) /\ k <= b
      BY ONLY <1>6, <3>0
    <3>2. arr \in Seq(T)
      BY <1>6
    <3> QED BY ONLY <2>3, <3>1, <3>2, Section
  <2> QED BY <2>2, <2>4
<1> HIDE DEF text
<1>8. \A i \in 1..last - k + 1 : text[i] = s[k + i - 1]
  <2> TAKE i \in 1..last - k + 1
  <2>1. PICK j \in 1..21 : j = k + i /\ j - 1 = k + i - 1
    OBVIOUS
  <2>2. text[i] = arr[j]
    BY <1>7, <2>1
  <2>3. arr[j] = s[j - 1]
    BY ONLY <1>6, j \in 1..21
  <2> QED BY ONLY <2>1, <2>2, <2>3
<1>9. ASSUME NEW i \in 1..last - k + 1 PROVE (coins \o tail)[i] = s[k + i - 1]
  <2>1. CASE i \in 1..9 - k
    BY <1>1, <1>5, <2>1
  <2>2. CASE i \in 10 - k..last - k + 1
    <3>1. PICK j \in 1..12 : j \in 1..m /\ 9 - k + j = i /\ 8 + j = k + i - 1
      <4>1. i - (9 - k) \in 1..m /\ i - (9 - k) \in 1..12
        BY <1>2, <2>2
      <4>2. 9 - k + (i - (9 - k)) = i /\ 8 + (i - (9 - k)) = k + i - 1
        OBVIOUS
      <4> QED BY <4>1, <4>2
    <3>2. (coins \o tail)[9 - k + j] = tail[j] /\ tail[j] = fraction[j] /\ fraction[j] = s[8 + j]
      BY <1>1, <1>4, <1>5, <3>1
    <3> QED BY <3>1, <3>2
  <2>3. i \in 1..9 - k \/ i \in 10 - k..last - k + 1
    OBVIOUS
  <2> QED BY <2>1, <2>2, <2>3
<1>10. coins \o tail \in Seq(T)
  BY <1>5, Wider DEF T
<1>11. text = coins \o tail
  BY <1>5, <1>7, <1>8, <1>9, <1>10, SameSeq
<1>12. Stripped(fraction) = tail
  BY <1>2, <1>3 DEF tail
<1> QED BY <1>5, <1>11, <1>12 DEF text, arr

-----------------------------------------------------------------------------
(* Amounts as text. *)

\* The text the code cuts out of its array, before it makes it fit.
CodeText(n) ==
  SubSeq([i \in 1..21 |-> Pointed(n)[i - 1]],
         FirstShown(Pointed(n)) + 1, LastShown(Pointed(n)) + 1)

\* It is the reference's, has at most 21 characters, and begins with the coins.
LEMMA CodeTextIsExact ==
  ASSUME NEW n \in Numbers, n # <<>>
  PROVE  /\ CodeText(n) = Exact(n)
         /\ Exact(n) \in Seq(Char) /\ Len(Exact(n)) \in 2..21
         /\ Coins(n) \in Seq(Char) /\ Len(Coins(n)) \in 2..9
         /\ Len(Coins(n)) <= Len(Exact(n))
         /\ \A i \in 1..Len(Coins(n)) : Exact(n)[i] = Coins(n)[i]
<1> DEFINE s == Pointed(n)
<1>1. n \in Seq(Digit) /\ n \in Seq(Char) /\ n[1] # "0"
  BY Digits
<1>2. PICK l \in 1..20 : l = Len(n)
  BY Digits
<1>3. n[1] # "."
  <2>1. 1 \in 1..Len(n)
    BY <1>2
  <2>2. n[1] \in Digit
    BY <1>1, <2>1
  <2> QED BY <2>2 DEF Digit
<1>4. PICK k \in 0..7 : k = Skipped(l)
  BY SkippedFew
<1>5. PointedFrom(s, n, l)
  BY <1>2, PointedAre
<1>6. InArray(Coins(n), Fraction(n), s, k)
  BY <1>1, <1>2, <1>4, ReferenceInArray
<1> HIDE DEF s
<1>7. FirstShown(s) = k
  BY ONLY <1>1, <1>3, <1>4, <1>5, l \in 1..20, k \in 0..7, FirstIs
<1>8. s[8] = "."
  BY <1>5 DEF PointedFrom
<1>9. PICK last \in 8..20 : LastIs(s, last)
  BY <1>8, LastExists
<1>10. LastShown(s) = last
  BY <1>9 DEF LastIs
<1>11. Exact(n) = Coins(n) \o Stripped(Fraction(n))
  BY DEF Exact
<1>12. CodeText(n) = SubSeq([i \in 1..21 |-> s[i - 1]], k + 1, last + 1)
  BY <1>7, <1>10 DEF CodeText, s
<1>13. /\ SubSeq([i \in 1..21 |-> s[i - 1]], k + 1, last + 1) = Exact(n)
       /\ Exact(n) \in Seq(Char) /\ Len(Exact(n)) = last - k + 1
       /\ \A i \in 1..9 - k : Exact(n)[i] = Coins(n)[i]
  <2>1. LET text == Coins(n) \o Stripped(Fraction(n))
        IN  /\ SubSeq([i \in 1..21 |-> s[i - 1]], k + 1, last + 1) = text
            /\ text \in Seq(Char) /\ Len(text) = last - k + 1
            /\ \A i \in 1..9 - k : text[i] = Coins(n)[i]
    BY ONLY <1>6, <1>9, k \in 0..7, last \in 8..20, TextIs
  <2> QED BY ONLY <1>11, <2>1
<1>14. Coins(n) \in Seq(Char) /\ Len(Coins(n)) = 9 - k
  BY <1>6 DEF InArray
<1>15. 9 - k \in 2..9 /\ last - k + 1 \in 2..21 /\ 9 - k <= last - k + 1
  OBVIOUS
<1> HIDE DEF s
<1>16. Len(Coins(n)) \in 2..9 /\ Len(Exact(n)) \in 2..21 /\ Len(Coins(n)) <= Len(Exact(n))
  BY ONLY <1>13, <1>14, <1>15
<1> QED BY <1>12, <1>13, <1>14, <1>16

\* What Cut leaves.
LEMMA CutIs ==
  ASSUME NEW T, NEW s \in Seq(T), NEW len \in Nat
  PROVE  /\ Cut(s, len) \in Seq(T) /\ Len(Cut(s, len)) = IF Len(s) < len THEN Len(s) ELSE len
         /\ \A i \in 1..Len(Cut(s, len)) : Cut(s, len)[i] = s[i]
         /\ Len(s) <= len => Cut(s, len) = s
<1> DEFINE h == IF Len(s) < len THEN Len(s) ELSE len
<1>1. h \in 0..Len(s) /\ Cut(s, len) = SubSeq(s, 1, h)
  BY DEF Cut
<1>2. /\ SubSeq(s, 1, h) \in Seq(T) /\ Len(SubSeq(s, 1, h)) = h
      /\ \A i \in 1..h : SubSeq(s, 1, h)[i] = s[i]
  BY ONLY <1>1, s \in Seq(T), Beginning
<1>3. Len(s) <= len => h = Len(s)
  OBVIOUS
<1> HIDE DEF h
<1>4. Len(s) <= len => Cut(s, len) = s
  BY <1>1, <1>2, <1>3, SameSeq
<1> QED BY <1>1, <1>2, <1>4 DEF h

\* What an amount of the reference is made of.
LEMMA ExactIs ==
  ASSUME NEW n \in Numbers
  PROVE  Exact(n) \in Seq(Char) /\ Len(Exact(n)) \in 1..21
<1>1. CASE n = <<>>
  <2>1. Exact(n) = <<"0">> /\ "0" \in Char
    BY <1>1 DEF Exact, Char, Digit
  <2> QED BY <2>1
<1>2. CASE n # <<>>
  BY <1>2, CodeTextIsExact
<1> QED BY <1>1, <1>2

\* The conversion of an amount writes it as the reference does, cut to the room it
\* has.
LEMMA AmountWritten ==
  ASSUME NEW n \in Numbers, NEW str, NEW str_len \in 2..MAX_AMOUNT_LENGTH
  PROVE  monero_amount2str(n, str, str_len) = Put(str, Cut(Exact(n), str_len - 1), str_len)
<1>0. str_len \in 2..23
  BY DEF MAX_AMOUNT_LENGTH
<1>1. CASE n = <<>>
  <2>1. Exact(n) = <<"0">> /\ <<"0">> \in Seq({"0"}) /\ Len(<<"0">>) = 1
    BY <1>1 DEF Exact
  <2>2. Cut(Exact(n), str_len - 1) = <<"0">>
    <3>1. str_len - 1 \in Nat /\ 1 <= str_len - 1
      BY <1>0
    <3> QED BY <2>1, <3>1, CutIs
  <2> QED BY <1>1, <2>2 DEF monero_amount2str
<1>2. CASE n # <<>>
  <2>1. CodeText(n) = Exact(n) /\ Exact(n) \in Seq(Char)
    BY <1>2, CodeTextIsExact
  <2> DEFINE text == CodeText(n)
             len  == IF Len(text) > str_len - 1 THEN str_len - 1 ELSE Len(text)
  <2>2. monero_amount2str(n, str, str_len) = Put(str, SubSeq(text, 1, len), str_len)
    BY <1>2 DEF monero_amount2str, CodeText
  <2>3. Len(Exact(n)) \in Nat
    BY <2>1
  <2>4. len = IF Len(Exact(n)) < str_len - 1 THEN Len(Exact(n)) ELSE str_len - 1
    BY <1>0, <2>1, <2>3
  <2> QED BY <2>1, <2>2, <2>4 DEF Cut
<1> QED BY <1>1, <1>2

-----------------------------------------------------------------------------
(* The texts on the screen. *)

\* An amount is a string of its own when it is written, and leaves the last byte NUL.
LEMMA AmountInBuffer ==
  ASSUME NEW n \in Numbers, NEW str_len \in 2..MAX_AMOUNT_LENGTH, Terminated
  PROVE  /\ CString(monero_amount2str(n, ux_amount, str_len)) = Cut(Exact(n), str_len - 1)
         /\ Cut(Exact(n), str_len - 1) \in Seq(Char)
         /\ monero_amount2str(n, ux_amount, str_len)[MAX_AMOUNT_LENGTH - 1] = NUL
<1> DEFINE text == Cut(Exact(n), str_len - 1)
<1>1. str_len \in 2..23 /\ str_len - 1 \in Nat /\ str_len \in 0..MAX_AMOUNT_LENGTH
  BY DEF MAX_AMOUNT_LENGTH
<1>2. Exact(n) \in Seq(Char)
  BY ExactIs
<1>3. /\ text \in Seq(Char)
      /\ Len(text) = IF Len(Exact(n)) < str_len - 1 THEN Len(Exact(n)) ELSE str_len - 1
  BY ONLY <1>1, <1>2, CutIs
<1> HIDE DEF text
<1>4. Len(text) \in Nat /\ Len(text) <= str_len - 1
  BY <1>1, <1>2, <1>3
<1>5. Len(text) < str_len /\ Len(text) <= MAX_AMOUNT_LENGTH - 1
  BY ONLY <1>1, <1>4 DEF MAX_AMOUNT_LENGTH
<1>6. monero_amount2str(n, ux_amount, str_len) = Put(ux_amount, text, str_len)
  BY AmountWritten DEF text
<1>7. CString(Put(ux_amount, text, str_len)) = text
  BY <1>1, <1>3, <1>5, PutText
<1>8. Put(ux_amount, text, str_len)[MAX_AMOUNT_LENGTH - 1] = NUL
  BY <1>1, <1>3, <1>5, PutTerminated DEF Terminated
<1> QED BY <1>3, <1>6, <1>7, <1>8 DEF text

\* The unit of an amount.
LEMMA UnitIs == Suffix \in Seq(Char) /\ Len(Suffix) = 4
<1>1. " " \in Char /\ "X" \in Char /\ "M" \in Char /\ "R" \in Char
  BY DEF Char
<1>2. \A a, b, e, d \in Char : <<a, b, e, d>> \in Seq(Char) /\ Len(<<a, b, e, d>>) = 4
  OBVIOUS
<1> QED BY <1>1, <1>2 DEF Suffix

\* The unit is written behind the string a buffer holds, as far as there is room.
LEMMA UnitAppended ==
  ASSUME NEW str, CString(str) \in Seq(Char), str[MAX_AMOUNT_LENGTH - 1] = NUL
  PROVE  /\ CString(AppendXMR(str)) = Cut(CString(str) \o Suffix, 22)
         /\ AppendXMR(str)[MAX_AMOUNT_LENGTH - 1] = NUL
<1> DEFINE text == CString(str) \o Suffix
           cut  == Cut(text, 22)
           len  == IF Len(text) > MAX_AMOUNT_LENGTH - 1 THEN MAX_AMOUNT_LENGTH - 1 ELSE Len(text)
<1>1. Suffix \in Seq(Char)
  BY UnitIs
<1>2. text \in Seq(Char)
  BY <1>1
<1> HIDE DEF text
<1>3. /\ cut \in Seq(Char)
      /\ Len(cut) = IF Len(text) < 22 THEN Len(text) ELSE 22
  BY ONLY <1>2, 22 \in Nat, CutIs
<1>4. len = Len(cut) /\ len \in 0..22
  <2>1. Len(text) \in Nat
    BY <1>2
  <2>2. \A h \in Nat : /\ (IF h > 22 THEN 22 ELSE h) = (IF h < 22 THEN h ELSE 22)
                       /\ (IF h > 22 THEN 22 ELSE h) \in 0..22
    OBVIOUS
  <2>3. len = IF Len(text) > 22 THEN 22 ELSE Len(text)
    BY DEF MAX_AMOUNT_LENGTH
  <2> HIDE DEF len, cut
  <2> QED BY <1>3, <2>1, <2>2, <2>3
<1>5. AppendXMR(str) = Put(str, SubSeq(text, 1, len), len + 1)
  BY DEF AppendXMR, text
<1>6. SubSeq(text, 1, len) = cut
  BY <1>2, <1>4, <1>3 DEF Cut
<1> HIDE DEF cut, len
<1>7. PICK room \in 0..MAX_AMOUNT_LENGTH : room = len + 1 /\ Len(cut) < room
  <2>1. \A h \in 0..22 : h + 1 \in 0..MAX_AMOUNT_LENGTH /\ h < h + 1
    BY DEF MAX_AMOUNT_LENGTH
  <2> QED BY <1>4, <2>1
<1>8. Len(cut) <= MAX_AMOUNT_LENGTH - 1
  <2>1. \A h \in 0..22 : h <= MAX_AMOUNT_LENGTH - 1
    BY DEF MAX_AMOUNT_LENGTH
  <2> QED BY <1>4, <2>1
<1>9. CString(Put(str, cut, room)) = cut
  BY <1>3, <1>7, PutText
<1>10. Put(str, cut, room)[MAX_AMOUNT_LENGTH - 1] = NUL
  BY <1>3, <1>8, PutTerminated
<1> QED BY <1>5, <1>6, <1>7, <1>9, <1>10 DEF cut, text

\* What the screen shows of a fee.
LEMMA FeeShown ==
  ASSUME NEW n \in Numbers, Fee(n), Terminated
  PROVE  Terminated' /\ FeeText'
<1> DEFINE str == monero_amount2str(n, ux_amount, FeeLength)
<1>1. FeeLength \in 2..MAX_AMOUNT_LENGTH /\ FeeLength - 1 = 22
  BY DEF FeeLength, MAX_AMOUNT_LENGTH
<1>2. /\ CString(str) = Cut(Exact(n), 22) /\ Cut(Exact(n), 22) \in Seq(Char)
      /\ str[MAX_AMOUNT_LENGTH - 1] = NUL
  BY <1>1, AmountInBuffer
<1>3. Exact(n) \in Seq(Char) /\ Len(Exact(n)) \in 1..21
  BY ExactIs
<1>4. Cut(Exact(n), 22) = Exact(n)
  BY <1>3, CutIs
<1> HIDE DEF str
<1>5. /\ CString(AppendXMR(str)) = Cut(Exact(n) \o Suffix, 22)
      /\ AppendXMR(str)[MAX_AMOUNT_LENGTH - 1] = NUL
  BY <1>2, <1>4, UnitAppended
<1>6. ux_amount' = AppendXMR(str) /\ told' = Told("fee", [low |-> n, high |-> FALSE], FALSE)
  BY DEF Fee, str
<1>7. Shown' = Cut(Exact(n) \o Suffix, 22) /\ told'.v.low = n
  BY <1>5, <1>6 DEF Shown, Told
<1>8. Suffix \in Seq(Char) /\ Len(Suffix) = 4
  BY UnitIs
<1> DEFINE text == Exact(n) \o Suffix
<1>9. /\ text \in Seq(Char) /\ Len(text) = Len(Exact(n)) + 4
      /\ \A i \in 1..Len(Exact(n)) : text[i] = Exact(n)[i]
  <2>1. /\ text \in Seq(Char) /\ Len(text) = Len(Exact(n)) + Len(Suffix)
        /\ \A i \in 1..Len(Exact(n)) : text[i] = Exact(n)[i]
    <3>1. Exact(n) \in Seq(Char) /\ Suffix \in Seq(Char)
      BY <1>3, <1>8
    <3> QED BY ONLY <3>1, Joined
  <2> QED BY <1>8, <2>1
<1> HIDE DEF text
<1>10. /\ Cut(text, 22) \in Seq(Char)
       /\ Len(Cut(text, 22)) = IF Len(text) < 22 THEN Len(text) ELSE 22
       /\ \A i \in 1..Len(Cut(text, 22)) : Cut(text, 22)[i] = text[i]
  BY ONLY <1>9, 22 \in Nat, CutIs
<1>11. Len(Exact(n)) <= Len(Cut(text, 22))
  <2>1. \A e \in 1..21 : e <= IF e + 4 < 22 THEN e + 4 ELSE 22
    OBVIOUS
  <2>2. Len(Cut(text, 22)) = IF Len(Exact(n)) + 4 < 22 THEN Len(Exact(n)) + 4 ELSE 22
    BY ONLY <1>9, <1>10
  <2> QED BY <1>3, <2>1, <2>2
<1>12. \A i \in 1..Len(Exact(n)) : Cut(text, 22)[i] = Exact(n)[i]
  BY <1>3, <1>9, <1>10, <1>11
<1>13. IsPrefix(Exact(n), Cut(text, 22))
  BY <1>3, <1>10, <1>11, <1>12, BeginsWith
<1> QED BY <1>5, <1>6, <1>7, <1>13 DEF FeeText, Terminated, text

\* What it shows of an output.
LEMMA OutputShown ==
  ASSUME NEW v \in Scalar, NEW short \in BOOLEAN, NEW is_change \in BOOLEAN,
         Output(v, short, is_change), Terminated
  PROVE  Terminated' /\ OutputText'
<1> DEFINE n    == v.low
           str  == monero_amount2str(n, ux_amount, 15)
           text == Cut(Exact(n), 14)
<1>1. n \in Numbers
  BY DEF Scalar
<1> HIDE DEF n
<1>2. 15 \in 2..MAX_AMOUNT_LENGTH /\ 15 - 1 = 14
  BY DEF MAX_AMOUNT_LENGTH
<1>3. /\ CString(str) = text /\ text \in Seq(Char)
      /\ str[MAX_AMOUNT_LENGTH - 1] = NUL
  BY <1>1, <1>2, AmountInBuffer
<1>4. Exact(n) \in Seq(Char) /\ Len(Exact(n)) \in 1..21
  BY <1>1, ExactIs
<1>5. /\ Len(text) = IF Len(Exact(n)) < 14 THEN Len(Exact(n)) ELSE 14
      /\ \A i \in 1..Len(text) : text[i] = Exact(n)[i]
  BY ONLY <1>4, 14 \in Nat, CutIs
<1> HIDE DEF str, text
<1>6. /\ CString(AppendXMR(str)) = Cut(text \o Suffix, 22)
      /\ AppendXMR(str)[MAX_AMOUNT_LENGTH - 1] = NUL
  BY <1>3, UnitAppended
<1>7. /\ text \o Suffix \in Seq(Char) /\ Len(text \o Suffix) = Len(text) + Len(Suffix)
      /\ \A i \in 1..Len(text) : (text \o Suffix)[i] = text[i]
  <2>1. text \in Seq(Char) /\ Suffix \in Seq(Char)
    BY <1>3, UnitIs
  <2> QED BY ONLY <2>1, Joined
<1>8. Len(text) \in 0..14 /\ Len(text \o Suffix) <= 22
  <2>1. \A e \in 1..21 : (IF e < 14 THEN e ELSE 14) \in 0..14
    OBVIOUS
  <2>2. Len(text) \in 0..14
    BY <1>4, <1>5, <2>1
  <2>3. \A e \in 0..14 : e + 4 <= 22
    OBVIOUS
  <2> QED BY ONLY <1>7, <2>2, <2>3, UnitIs
<1>9. Cut(text \o Suffix, 22) = text \o Suffix
  BY ONLY <1>7, <1>8, 22 \in Nat, CutIs
<1>10. ux_amount' = AppendXMR(str) /\ told' = Told("output", v, short)
  BY DEF Output, str, n
<1>11. Shown' = text \o Suffix
  BY <1>6, <1>9, <1>10 DEF Shown
<1>12. short => ~v.high
  BY DEF Output, Canonical
<1>13. ASSUME n # <<>> PROVE IsPrefix(Coins(n), text \o Suffix)
  <2>1. /\ Coins(n) \in Seq(Char) /\ Len(Coins(n)) \in 2..9
        /\ Len(Coins(n)) <= Len(Exact(n))
        /\ \A i \in 1..Len(Coins(n)) : Exact(n)[i] = Coins(n)[i]
    BY <1>1, <1>13, CodeTextIsExact
  <2>2. Len(Coins(n)) <= Len(text)
    <3>1. \A e \in 1..21, h \in 2..9 : h <= e => h <= IF e < 14 THEN e ELSE 14
      OBVIOUS
    <3> QED BY <1>4, <1>5, <2>1, <3>1
  <2>3. \A h \in 2..9, e \in 0..14 : h <= e => \A i \in 1..h : i \in 1..e
    OBVIOUS
  <2>4. \A i \in 1..Len(Coins(n)) : i \in 1..Len(text)
    BY <1>8, <2>1, <2>2, <2>3
  <2>5. \A i \in 1..Len(Coins(n)) : (text \o Suffix)[i] = Coins(n)[i]
    BY <1>5, <1>7, <2>1, <2>4
  <2>6. Len(Coins(n)) <= Len(text \o Suffix)
    <3>1. \A h \in 2..9, e \in 0..14 : h <= e => h <= e + 4
      OBVIOUS
    <3> QED BY <1>7, <1>8, <2>1, <2>2, <3>1, UnitIs
  <2> QED BY <1>7, <2>1, <2>5, <2>6, BeginsWith
<1>14. told'.v.low = n /\ told'.v = v /\ told'.short = short
  BY <1>10 DEF Told, n
<1> QED BY <1>6, <1>10, <1>11, <1>12, <1>13, <1>14 DEF OutputText, Terminated, text

\* What it shows of a timelock.
LEMMA TimelockShown ==
  ASSUME NEW n \in Numbers, n # <<>>, Timelock(n), Terminated
  PROVE  Terminated' /\ TimelockText'
<1>1. /\ Len(n) <= 15 /\ ux_amount' = Put(ux_amount, n, 15)
      /\ told' = Told("timelock", [low |-> n, high |-> FALSE], FALSE)
  BY DEF Timelock, Fits, monero_uint642str
<1>2. n \in Seq(Char) /\ Len(n) \in 1..20
  BY Digits
<1>3. 15 \in 0..MAX_AMOUNT_LENGTH /\ Len(n) <= MAX_AMOUNT_LENGTH - 1
  <2>1. \A h \in 1..20 : h <= MAX_AMOUNT_LENGTH - 1
    BY DEF MAX_AMOUNT_LENGTH
  <2>2. 15 \in 0..MAX_AMOUNT_LENGTH
    BY DEF MAX_AMOUNT_LENGTH
  <2> QED BY <1>2, <2>1, <2>2
<1>4. Terminated'
  <2>1. Put(ux_amount, n, 15)[MAX_AMOUNT_LENGTH - 1] = NUL
    BY <1>2, <1>3, PutTerminated DEF Terminated
  <2> QED BY <1>1, <2>1 DEF Terminated
<1>5. Len(n) < 15 => Shown' = n
  BY <1>1, <1>2, <1>3, PutText DEF Shown
<1>6. IsPrefix(n, Shown')
  <2>1. IsPrefix(n, CString(Put(ux_amount, n, 15)))
    BY <1>2, <1>3, PutPrefix DEF Terminated
  <2> QED BY <1>1, <2>1 DEF Shown
<1>7. told'.v.low = n
  BY <1>1 DEF Told
<1> QED BY <1>4, <1>5, <1>6, <1>7 DEF TimelockText

-----------------------------------------------------------------------------
(* The theorems. *)

\* The last byte is never written, and the text is the one told, whatever was on the
\* buffer before.
TextInv == Terminated /\ FeeText /\ OutputText /\ TimelockText

\* An empty buffer was filled for nothing.
LEMMA NothingTold ==
  ASSUME ux_amount = Blank, told.kind = "none"
  PROVE  TextInv
<1>1. MAX_AMOUNT_LENGTH - 1 \in Buffer
  BY DEF Buffer, MAX_AMOUNT_LENGTH
<1>2. Terminated
  BY <1>1 DEF Terminated, Blank
<1> QED BY <1>2 DEF TextInv, FeeText, OutputText, TimelockText

\* It is inductive.
LEMMA TextStep == ASSUME TextInv, [Next]_vars PROVE TextInv'
<1>1. ASSUME UNCHANGED <<ux_amount, told>> PROVE TextInv'
  BY <1>1 DEF TextInv, Terminated, FeeText, OutputText, TimelockText, Shown
<1>2. CASE OpenTx
  BY <1>1, <1>2 DEF OpenTx
<1>3. CASE Wipe
  <2>1. ux_amount' = Blank /\ told'.kind = "none"
    BY <1>3 DEF Wipe, Told
  <2>2. (ux_amount = Blank /\ told.kind = "none" => TextInv)'
    BY NothingTold, PTL
  <2> QED BY <2>1, <2>2
<1>4. ASSUME NEW n \in Numbers, Timelock(n) PROVE TextInv'
  <2>1. CASE n = <<>>
    BY <1>1, <1>4, <2>1 DEF Timelock
  <2>2. CASE n # <<>>
    <3>1. Terminated' /\ TimelockText'
      BY <1>4, <2>2, TimelockShown DEF TextInv
    <3>2. told'.kind = "timelock"
      BY <1>4, <2>2 DEF Timelock, Told
    <3> QED BY <3>1, <3>2 DEF TextInv, FeeText, OutputText
  <2> QED BY <2>1, <2>2
<1>5. ASSUME NEW n \in Numbers, Fee(n) PROVE TextInv'
  <2>1. Terminated' /\ FeeText'
    BY <1>5, FeeShown DEF TextInv
  <2>2. told'.kind = "fee"
    BY <1>5 DEF Fee, Told
  <2> QED BY <2>1, <2>2 DEF TextInv, TimelockText, OutputText
<1>6. ASSUME NEW v \in Scalar, NEW short \in BOOLEAN, NEW is_change \in BOOLEAN,
             Output(v, short, is_change)
      PROVE  TextInv'
  <2>1. Terminated' /\ OutputText'
    BY <1>6, OutputShown DEF TextInv
  <2>2. told'.kind = "output"
    BY <1>6 DEF Output, Told
  <2> QED BY <2>1, <2>2 DEF TextInv, TimelockText, FeeText
<1>7. CASE UNCHANGED vars
  BY <1>1, <1>7 DEF vars
<1> QED BY <1>2, <1>3, <1>4, <1>5, <1>6, <1>7 DEF Next

\* It always holds.
LEMMA TextAlways == Spec => []TextInv
<1>1. Init => TextInv
  <2> SUFFICES ASSUME Init PROVE TextInv
    OBVIOUS
  <2>1. ux_amount = Blank /\ told.kind = "none"
    BY DEF Init, Told
  <2> QED BY <2>1, NothingTold
<1>2. TextInv /\ [Next]_vars => TextInv'
  BY TextStep
<1> QED BY <1>1, <1>2, PTL DEF Spec

\* A fee is shown whole, whatever was shown before it.
THEOREM FeeIsShown == Spec => []FeeText
<1>1. TextInv => FeeText
  BY DEF TextInv
<1> QED BY <1>1, TextAlways, PTL

\* The amount of an output is shown up to its fourteenth character, and its coins are
\* never cut.
THEOREM OutputIsShown == Spec => []OutputText
<1>1. TextInv => OutputText
  BY DEF TextInv
<1> QED BY <1>1, TextAlways, PTL

\* A timelock is shown whole, one of fifteen digits perhaps with more behind it.
THEOREM TimelockIsShown == Spec => []TimelockText
<1>1. TextInv => TimelockText
  BY DEF TextInv
<1> QED BY <1>1, TextAlways, PTL
=============================================================================
