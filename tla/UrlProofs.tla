------------------------------ MODULE UrlProofs ------------------------------
(***************************************************************************)
(* Proofs about Url, for texts of any tokens and any length: where each    *)
(* group of the regular expression begins and ends, that these are the     *)
(* parts which a url names, and that no such url is refused.               *)
(***************************************************************************)
EXTENDS Url, FiniteSetTheorems, SequenceTheorems, TLAPS

Tokens == Delims \cup Words

-----------------------------------------------------------------------------
(***************************************************************************)
(* Cutting a text.                                                         *)
(***************************************************************************)
\* If there is a token of S, there is a first one.  (The set of the intervals up to
\* each of them has a smallest.)
LEMMA FirstStop ==
  ASSUME NEW T, NEW t \in Seq(T), NEW S, NEW i \in 1..Len(t), t[i] \in S
  PROVE  \E m \in 1..Len(t) : t[m] \in S /\ \A j \in 1..(m - 1) : t[j] \notin S
<1> DEFINE N == 1..Len(t)
           F == {1..m : m \in {k \in N : t[k] \in S}}
<1>1. IsWellFoundedOn(StrictSubsetOrdering(N), SUBSET N)
  <2>1. IsFiniteSet(N)
    BY FS_Interval
  <2>2. FiniteSubsetsOf(N) = SUBSET N
    BY <2>1, FS_FiniteSubsetsOfFinite
  <2> QED
    BY <2>2, FS_StrictSubsetOrderingWellFounded
<1>2. F \subseteq SUBSET N /\ F # {}
  OBVIOUS
<1>3. PICK x \in F : \A y \in F : ~ (<<y, x>> \in StrictSubsetOrdering(N))
  BY <1>1, <1>2, WFMin
<1>4. PICK m \in N : t[m] \in S /\ x = 1..m
  BY <1>3
<1>5. ASSUME NEW j \in 1..(m - 1), t[j] \in S PROVE FALSE
  <2>1. 1..j \in F /\ 1..j \subseteq 1..m /\ 1..j # 1..m
    BY <1>4, <1>5
  <2>2. <<1..j, x>> \in StrictSubsetOrdering(N)
    BY <1>2, <1>4, <2>1 DEF StrictSubsetOrdering
  <2> QED
    BY <1>3, <2>1, <2>2
<1> QED
  BY <1>4, <1>5

\* Where Upto and From cut: behind k tokens that are not of S.
LEMMA CutAt ==
  ASSUME NEW T, NEW t \in Seq(T), NEW S
  PROVE  \E k \in 0..Len(t) :
           /\ Upto(t, S) = SubSeq(t, 1, k)
           /\ From(t, S) = SubSeq(t, k + 1, Len(t))
           /\ \A j \in 1..k : t[j] \notin S
           /\ k < Len(t) => t[k + 1] \in S
<1> DEFINE Stops == {i \in 1..Len(t) : t[i] \in S /\ \A j \in 1..(i - 1) : t[j] \notin S}
<1>0. Len(t) \in Nat
  OBVIOUS
<1>1. CASE Stops = {}
  <2>1. \A j \in 1..Len(t) : t[j] \notin S
    BY <1>1, FirstStop
  <2>2. Upto(t, S) = t
    BY <1>1 DEF Upto
  <2>3. SubSeq(t, 1, Len(t)) = t
    OBVIOUS
  <2>4. From(t, S) = SubSeq(t, Len(t) + 1, Len(t))
    BY <2>2 DEF From
  <2>5. /\ Upto(t, S) = SubSeq(t, 1, Len(t))
        /\ Len(t) \in 0..Len(t) /\ ~(Len(t) < Len(t))
    BY <1>0, <2>2, <2>3
  <2> QED
    BY <2>1, <2>4, <2>5
<1>2. CASE Stops # {}
  <2> DEFINE i == CHOOSE i \in Stops : TRUE
             k == i - 1
  <2>1. i \in Stops
    BY <1>2
  <2>2. Upto(t, S) = SubSeq(t, 1, k)
    BY <1>2 DEF Upto
  <2> HIDE DEF i
  <2>3. i \in 1..Len(t) /\ t[i] \in S /\ \A j \in 1..(i - 1) : t[j] \notin S
    BY <2>1
  <2>4. k \in 0..Len(t) /\ k + 1 = i
    BY <1>0, <2>3
  <2>5. Len(SubSeq(t, 1, k)) = k
    BY <2>4
  <2>6. From(t, S) = SubSeq(t, k + 1, Len(t))
    BY <2>2, <2>5 DEF From
  <2> QED
    BY <2>2, <2>3, <2>4, <2>6
<1> QED
  BY <1>1, <1>2

\* A part of a part.
LEMMA PartOfPart ==
  ASSUME NEW T, NEW t \in Seq(T), NEW a \in 1..(Len(t) + 1), NEW b \in (a - 1)..Len(t),
         NEW c \in 1..(b - a + 2), NEW d \in (c - 1)..(b - a + 1)
  PROVE  SubSeq(SubSeq(t, a, b), c, d) = SubSeq(t, a + c - 1, a + d - 1)
<1>0. Len(t) \in Nat /\ a \in Nat /\ b \in Nat /\ c \in Nat /\ d \in Nat
  OBVIOUS
<1> DEFINE u == SubSeq(t, a, b)
           v == SubSeq(u, c, d)
           w == SubSeq(t, a + c - 1, a + d - 1)
<1>1. u \in Seq(T) /\ Len(u) = b - a + 1 /\ \A j \in 1..(b - a + 1) : u[j] = t[a + j - 1]
  BY <1>0
<1> HIDE DEF u
<1>2. v \in Seq(T) /\ Len(v) = d - c + 1 /\ \A j \in 1..(d - c + 1) : v[j] = u[c + j - 1]
  BY <1>0, <1>1
<1>3. /\ w \in Seq(T) /\ Len(w) = d - c + 1
      /\ \A j \in 1..(d - c + 1) : w[j] = t[a + c - 1 + j - 1]
  BY <1>0
<1> HIDE DEF v, w
<1>4. \A j \in 1..(d - c + 1) : v[j] = w[j]
  <2> TAKE j \in 1..(d - c + 1)
  <2>1. c + j - 1 \in 1..(b - a + 1) /\ a + (c + j - 1) - 1 = a + c - 1 + j - 1
    BY <1>0
  <2> QED
    BY <1>1, <1>2, <1>3, <2>1
<1>5. v = w
  BY <1>2, <1>3, <1>4, SeqEqual
<1> QED
  BY <1>5 DEF u, v, w

\* Where Upto and From cut a part of a text, from a to b.
LEMMA CutPartAt ==
  ASSUME NEW T, NEW t \in Seq(T), NEW S, NEW a \in 1..(Len(t) + 1), NEW b \in (a - 1)..Len(t)
  PROVE  \E k \in (a - 1)..b :
           /\ Upto(SubSeq(t, a, b), S) = SubSeq(t, a, k)
           /\ From(SubSeq(t, a, b), S) = SubSeq(t, k + 1, b)
           /\ \A j \in a..k : t[j] \notin S
           /\ k < b => t[k + 1] \in S
<1> DEFINE u == SubSeq(t, a, b)
<1>0. Len(t) \in Nat /\ a \in Nat /\ b \in Nat
  OBVIOUS
<1>1. u \in Seq(T) /\ Len(u) = b - a + 1
  BY <1>0
<1>2. \A j \in 1..(b - a + 1) : u[j] = t[a + j - 1]
  BY <1>0
<1> HIDE DEF u
<1>3. PICK l \in 0..Len(u) :
        /\ Upto(u, S) = SubSeq(u, 1, l)
        /\ From(u, S) = SubSeq(u, l + 1, Len(u))
        /\ \A j \in 1..l : u[j] \notin S
        /\ l < Len(u) => u[l + 1] \in S
  BY <1>1, CutAt
<1> DEFINE k == a - 1 + l
<1>4. k \in (a - 1)..b /\ l \in Nat
  BY <1>0, <1>1
<1>5. SubSeq(u, 1, l) = SubSeq(t, a, k)
  <2>1. 1 \in 1..(b - a + 2) /\ l \in (1 - 1)..(b - a + 1) /\ a + 1 - 1 = a /\ a + l - 1 = k
    BY <1>0, <1>1, <1>4
  <2> QED
    BY <2>1, PartOfPart DEF u
<1>6. SubSeq(u, l + 1, Len(u)) = SubSeq(t, k + 1, b)
  <2>1. /\ l + 1 \in 1..(b - a + 2) /\ Len(u) \in (l + 1 - 1)..(b - a + 1)
        /\ a + (l + 1) - 1 = k + 1 /\ a + Len(u) - 1 = b
    BY <1>0, <1>1, <1>4
  <2> QED
    BY <2>1, PartOfPart DEF u
<1>7. \A j \in a..k : t[j] \notin S
  <2> TAKE j \in a..k
  <2>1. j - a + 1 \in 1..l /\ j - a + 1 \in 1..(b - a + 1) /\ a + (j - a + 1) - 1 = j
    BY <1>0, <1>1, <1>4
  <2> QED
    BY <1>2, <1>3, <2>1
<1>8. k < b => t[k + 1] \in S
  <2> SUFFICES ASSUME k < b PROVE t[k + 1] \in S
    OBVIOUS
  <2>1. l < Len(u) /\ l + 1 \in 1..(b - a + 1) /\ a + (l + 1) - 1 = k + 1
    BY <1>0, <1>1, <1>4
  <2> QED
    BY <1>2, <1>3, <2>1
<1> QED
  BY <1>3, <1>4, <1>5, <1>6, <1>7, <1>8 DEF u

\* Skipping a token d at the beginning of a part.
LEMMA SkipAt ==
  ASSUME NEW T, NEW t \in Seq(T), NEW d, NEW a \in 1..(Len(t) + 1), NEW b \in (a - 1)..Len(t)
  PROVE  Skip(SubSeq(t, a, b), d) =
           IF a <= b /\ t[a] = d THEN SubSeq(t, a + 1, b) ELSE SubSeq(t, a, b)
<1>0. Len(t) \in Nat /\ a \in Nat /\ b \in Nat
  OBVIOUS
<1>1. CASE a <= b
  <2>1. SubSeq(t, a, b) # <<>> /\ Head(SubSeq(t, a, b)) = t[a]
    BY <1>0, <1>1
  <2>2. Tail(SubSeq(t, a, b)) = SubSeq(t, a + 1, b)
    BY <1>0, <1>1
  <2> QED
    BY <1>1, <2>1, <2>2 DEF Skip
<1>2. CASE ~(a <= b)
  <2>1. SubSeq(t, a, b) = <<>>
    BY <1>0, <1>2
  <2> QED
    BY <1>2, <2>1 DEF Skip
<1> QED
  BY <1>1, <1>2

-----------------------------------------------------------------------------
(***************************************************************************)
(* The groups of a text, in tokens: the host is 1..k2, the port a2..k3,    *)
(* the path (k3 + 1)..k4, the query a4..k5 and the rest begins at a5.      *)
(***************************************************************************)
Colon(k) == k < Len(text) /\ text[k + 1] = ":"
Mark(k)  == k < Len(text) /\ text[k + 1] = "?"
Sharp(k) == k < Len(text) /\ text[k + 1] = "#"

\* Where a group ends, k, and where the next one begins: behind the delimiter, or at once.
Behind(k, a, skips) == (skips => a = k + 2) /\ (~skips => a = k + 1)

IsCut(k2, a2, k3, k4, a4, k5, a5) ==
  LET n == Len(text) IN
  /\ k2 \in 0..n /\ Behind(k2, a2, Colon(k2))
  /\ k3 \in (a2 - 1)..n
  /\ k4 \in k3..n /\ Behind(k4, a4, Mark(k4))
  /\ k5 \in (a4 - 1)..n /\ Behind(k5, a5, Sharp(k5))
  /\ \A j \in 1..k2 : text[j] \notin {"/", "blank", ":"}
  /\ k2 < n => text[k2 + 1] \in {"/", "blank", ":"}
  /\ \A j \in a2..k3 : text[j] \notin {"/", "blank"}
  /\ k3 < n => text[k3 + 1] \in {"/", "blank"}
  /\ \A j \in (k3 + 1)..k4 : text[j] \notin {"blank", "#", "?"}
  /\ k4 < n => text[k4 + 1] \in {"blank", "#", "?"}
  /\ \A j \in a4..k5 : text[j] \notin {"blank", "#"}
  /\ k5 < n => text[k5 + 1] \in {"blank", "#"}

LEMMA BehindInside ==
  ASSUME NEW n \in Nat, NEW k \in 0..n, NEW a, NEW skips, skips => k < n, Behind(k, a, skips)
  PROVE  a \in (k + 1)..(n + 1)
<1>1. CASE skips
  BY <1>1 DEF Behind
<1>2. CASE ~skips
  BY <1>2 DEF Behind
<1> QED
  BY <1>1, <1>2

\* Skip, for a part that ends with the text.
LEMMA SkipBehind ==
  ASSUME text \in Seq(Tokens), NEW d, NEW k \in 0..Len(text)
  PROVE  LET skips == k < Len(text) /\ text[k + 1] = d IN
         \E a \in (k + 1)..(Len(text) + 1) :
           /\ Behind(k, a, skips)
           /\ Skip(SubSeq(text, k + 1, Len(text)), d) = SubSeq(text, a, Len(text))
<1> DEFINE n == Len(text)
           skips == k < n /\ text[k + 1] = d
<1>1. n \in Nat /\ k + 1 \in 1..(n + 1) /\ n \in ((k + 1) - 1)..n
  OBVIOUS
<1>2. Skip(SubSeq(text, k + 1, n), d) =
        IF k + 1 <= n /\ text[k + 1] = d THEN SubSeq(text, (k + 1) + 1, n) ELSE SubSeq(text, k + 1, n)
  BY <1>1, SkipAt
<1>3. CASE skips
  <2>1. Behind(k, k + 2, skips) /\ k + 2 \in (k + 1)..(n + 1)
    BY <1>1, <1>3 DEF Behind
  <2>2. k + 1 <= n /\ (k + 1) + 1 = k + 2
    BY <1>1, <1>3
  <2>3. Skip(SubSeq(text, k + 1, n), d) = SubSeq(text, k + 2, n)
    BY <1>2, <1>3, <2>2
  <2> QED
    BY <2>1, <2>3
<1>4. CASE ~skips
  <2>1. Behind(k, k + 1, skips) /\ k + 1 \in (k + 1)..(n + 1)
    BY <1>1, <1>4 DEF Behind
  <2>2. ~(k + 1 <= n /\ text[k + 1] = d)
    BY <1>1, <1>4
  <2>3. Skip(SubSeq(text, k + 1, n), d) = SubSeq(text, k + 1, n)
    BY <1>2, <2>2
  <2> QED
    BY <2>1, <2>3
<1> QED
  BY <1>3, <1>4

LEMMA Groups ==
  ASSUME text \in Seq(Tokens)
  PROVE  \E k2, a2, k3, k4, a4, k5, a5 :
           /\ IsCut(k2, a2, k3, k4, a4, k5, a5)
           /\ Group2 = SubSeq(text, 1, k2)
           /\ Group3 = SubSeq(text, a2, k3)
           /\ Group4 = SubSeq(text, k3 + 1, k4)
           /\ Group5 = SubSeq(text, a4, k5)
           /\ After5 = SubSeq(text, a5, Len(text))
<1> DEFINE n == Len(text)
<1>0. n \in Nat
  OBVIOUS
<1>1. PICK k2 \in 0..n :
        /\ Group2 = SubSeq(text, 1, k2)
        /\ From(text, {"/", "blank", ":"}) = SubSeq(text, k2 + 1, n)
        /\ \A j \in 1..k2 : text[j] \notin {"/", "blank", ":"}
        /\ k2 < n => text[k2 + 1] \in {"/", "blank", ":"}
  BY CutAt DEF Group2
<1>2. PICK a2 \in (k2 + 1)..(n + 1) : Behind(k2, a2, Colon(k2)) /\ After2 = SubSeq(text, a2, n)
  BY <1>1, SkipBehind DEF After2, Colon
<1>3. a2 \in 1..(n + 1) /\ n \in (a2 - 1)..n
  BY <1>0
<1>4. PICK k3 \in (a2 - 1)..n :
        /\ Group3 = SubSeq(text, a2, k3)
        /\ After3 = SubSeq(text, k3 + 1, n)
        /\ \A j \in a2..k3 : text[j] \notin {"/", "blank"}
        /\ k3 < n => text[k3 + 1] \in {"/", "blank"}
  BY <1>2, <1>3, CutPartAt DEF Group3, After3
<1>5. k3 + 1 \in 1..(n + 1) /\ n \in ((k3 + 1) - 1)..n /\ (k3 + 1) - 1 = k3
  BY <1>0, <1>3
<1>6. PICK k4 \in ((k3 + 1) - 1)..n :
        /\ Group4 = SubSeq(text, k3 + 1, k4)
        /\ From(After3, {"blank", "#", "?"}) = SubSeq(text, k4 + 1, n)
        /\ \A j \in (k3 + 1)..k4 : text[j] \notin {"blank", "#", "?"}
        /\ k4 < n => text[k4 + 1] \in {"blank", "#", "?"}
  BY <1>4, <1>5, CutPartAt DEF Group4
<1>7. k4 \in k3..n /\ k4 \in 0..n
  BY <1>0, <1>3, <1>5
<1>8. SubSeq(After3, Len(Group4) + 1, Len(After3)) = SubSeq(text, k4 + 1, n)
  BY <1>6 DEF Group4, From
<1>9. PICK a4 \in (k4 + 1)..(n + 1) : Behind(k4, a4, Mark(k4)) /\ After4 = SubSeq(text, a4, n)
  BY <1>7, <1>8, SkipBehind DEF After4, Mark
<1>10. a4 \in 1..(n + 1) /\ n \in (a4 - 1)..n
  BY <1>0, <1>7
<1>11. PICK k5 \in (a4 - 1)..n :
        /\ Group5 = SubSeq(text, a4, k5)
        /\ From(After4, {"blank", "#"}) = SubSeq(text, k5 + 1, n)
        /\ \A j \in a4..k5 : text[j] \notin {"blank", "#"}
        /\ k5 < n => text[k5 + 1] \in {"blank", "#"}
  BY <1>9, <1>10, CutPartAt DEF Group5
<1>12. k5 \in 0..n
  BY <1>0, <1>10
<1>13. PICK a5 \in (k5 + 1)..(n + 1) : Behind(k5, a5, Sharp(k5)) /\ After5 = SubSeq(text, a5, n)
  BY <1>11, <1>12, SkipBehind DEF After5, Sharp
<1>14. IsCut(k2, a2, k3, k4, a4, k5, a5)
  BY <1>1, <1>2, <1>4, <1>6, <1>7, <1>9, <1>11, <1>13 DEF IsCut
<1> QED
  BY <1>1, <1>4, <1>6, <1>11, <1>13, <1>14

\* The groups follow each other inside the text.
LEMMA CutsInside ==
  ASSUME text \in Seq(Tokens),
         NEW k2, NEW a2, NEW k3, NEW k4, NEW a4, NEW k5, NEW a5, IsCut(k2, a2, k3, k4, a4, k5, a5)
  PROVE  LET n == Len(text) IN
         /\ k2 \in 0..n /\ a2 \in (k2 + 1)..(n + 1) /\ k3 \in (a2 - 1)..n
         /\ k4 \in k3..n /\ a4 \in (k4 + 1)..(n + 1) /\ k5 \in (a4 - 1)..n
         /\ a5 \in (k5 + 1)..(n + 1)
<1> DEFINE n == Len(text)
<1>0. n \in Nat
  OBVIOUS
<1>1. /\ k2 \in 0..n /\ Behind(k2, a2, Colon(k2)) /\ k3 \in (a2 - 1)..n
      /\ k4 \in k3..n /\ Behind(k4, a4, Mark(k4)) /\ k5 \in (a4 - 1)..n
      /\ Behind(k5, a5, Sharp(k5))
  BY DEF IsCut
<1>2. a2 \in (k2 + 1)..(n + 1)
  BY <1>0, <1>1, BehindInside DEF Colon
<1>3. k4 \in 0..n
  BY <1>0, <1>1, <1>2
<1>4. a4 \in (k4 + 1)..(n + 1)
  BY <1>0, <1>1, <1>3, BehindInside DEF Mark
<1>5. k5 \in 0..n
  BY <1>0, <1>1, <1>3, <1>4
<1>6. a5 \in (k5 + 1)..(n + 1)
  BY <1>0, <1>1, <1>5, BehindInside DEF Sharp
<1> QED
  BY <1>1, <1>2, <1>4, <1>6

\* A text that matches as a whole has no blank in it: each group and each delimiter
\* behind one leaves the next token to what follows, and nothing follows the last.
LEMMA NoBlank ==
  ASSUME text \in Seq(Tokens), Group6 = After5,
         NEW k2, NEW a2, NEW k3, NEW k4, NEW a4, NEW k5, NEW a5, IsCut(k2, a2, k3, k4, a4, k5, a5),
         After5 = SubSeq(text, a5, Len(text))
  PROVE  \A j \in 1..Len(text) : text[j] # "blank"
<1> DEFINE n == Len(text)
<1>0. n \in Nat
  OBVIOUS
<1>1. /\ k2 \in 0..n /\ a2 \in (k2 + 1)..(n + 1) /\ k3 \in (a2 - 1)..n
      /\ k4 \in k3..n /\ a4 \in (k4 + 1)..(n + 1) /\ k5 \in (a4 - 1)..n
      /\ a5 \in (k5 + 1)..(n + 1)
  BY CutsInside
<1>2. \A j \in a5..n : text[j] # "blank"
  <2>1. a5 \in 1..(n + 1) /\ n \in (a5 - 1)..n
    BY <1>0, <1>1
  <2>2. PICK k \in (a5 - 1)..n :
          /\ Group6 = SubSeq(text, a5, k)
          /\ \A j \in a5..k : text[j] \notin {"blank"}
    BY <2>1, CutPartAt DEF Group6
  <2>3. k = n
    <3>1. Len(SubSeq(text, a5, k)) = k - a5 + 1
      BY <1>0, <2>1
    <3>2. Len(SubSeq(text, a5, n)) = n - a5 + 1
      BY <1>0, <2>1
    <3> QED
      BY <1>0, <2>1, <2>2, <3>1, <3>2
  <2> QED
    BY <2>2, <2>3
<1>3. ASSUME NEW j \in 1..n, text[j] = "blank" PROVE FALSE
  <2>1. j > k2
    BY <1>0, <1>1, <1>3 DEF IsCut
  <2>2. j >= a2
    <3>1. CASE Colon(k2)
      BY <1>0, <1>1, <1>3, <2>1, <3>1 DEF IsCut, Behind, Colon
    <3>2. CASE ~Colon(k2)
      BY <1>0, <1>1, <2>1, <3>2 DEF IsCut, Behind
    <3> QED
      BY <3>1, <3>2
  <2>3. j > k4
    <3>1. j > k3
      BY <1>0, <1>1, <1>3, <2>2 DEF IsCut
    <3> QED
      BY <1>0, <1>1, <1>3, <3>1 DEF IsCut
  <2>4. j >= a4
    <3>1. CASE Mark(k4)
      BY <1>0, <1>1, <1>3, <2>3, <3>1 DEF IsCut, Behind, Mark
    <3>2. CASE ~Mark(k4)
      BY <1>0, <1>1, <2>3, <3>2 DEF IsCut, Behind
    <3> QED
      BY <3>1, <3>2
  <2>5. j > k5
    BY <1>0, <1>1, <1>3, <2>4 DEF IsCut
  <2>6. j >= a5
    <3>1. CASE Sharp(k5)
      BY <1>0, <1>1, <1>3, <2>5, <3>1 DEF IsCut, Behind, Sharp
    <3>2. CASE ~Sharp(k5)
      BY <1>0, <1>1, <2>5, <3>2 DEF IsCut, Behind
    <3> QED
      BY <3>1, <3>2
  <2>7. j \in a5..n
    BY <1>0, <1>1, <2>6
  <2> QED
    BY <1>2, <1>3, <2>7
<1> QED
  BY <1>3

\* As long as the authority ends at a slash or with the text, the groups are what the url
\* names: the first slash, the first sharp, the first mark before it and the first colon of
\* the authority are where the groups end.
LEMMA GroupsAreWhatTheUrlNames ==
  ASSUME text \in Seq(Tokens), Group6 = After5,
         Upto(text, {"/", "?", "#"}) = Upto(text, {"/"})
  PROVE  Group2 = Host /\ Group3 = PortText /\ Group4 = Path /\ Group5 = Query
<1> DEFINE n == Len(text)
<1>0. n \in Nat
  OBVIOUS
<1>1. PICK k2, a2, k3, k4, a4, k5, a5 :
        /\ IsCut(k2, a2, k3, k4, a4, k5, a5)
        /\ Group2 = SubSeq(text, 1, k2)
        /\ Group3 = SubSeq(text, a2, k3)
        /\ Group4 = SubSeq(text, k3 + 1, k4)
        /\ Group5 = SubSeq(text, a4, k5)
        /\ After5 = SubSeq(text, a5, n)
  BY Groups
<1>2. \A j \in 1..n : text[j] # "blank"
  BY <1>1, NoBlank
\* The hierarchy and the query.
<1>3. PICK f \in 0..n :
        /\ Upto(text, {"#"}) = SubSeq(text, 1, f)
        /\ \A j \in 1..f : text[j] \notin {"#"}
        /\ f < n => text[f + 1] \in {"#"}
  BY CutAt
<1>4. 1 \in 1..(n + 1) /\ f \in (1 - 1)..n /\ 1 - 1 = 0
  BY <1>0
<1>5. PICK q \in 0..f :
        /\ Hierarchy = SubSeq(text, 1, q)
        /\ From(Upto(text, {"#"}), {"?"}) = SubSeq(text, q + 1, f)
        /\ \A j \in 1..q : text[j] \notin {"?"}
        /\ q < f => text[q + 1] \in {"?"}
  <2>1. PICK q \in (1 - 1)..f :
          /\ Upto(SubSeq(text, 1, f), {"?"}) = SubSeq(text, 1, q)
          /\ From(SubSeq(text, 1, f), {"?"}) = SubSeq(text, q + 1, f)
          /\ \A j \in 1..q : text[j] \notin {"?"}
          /\ q < f => text[q + 1] \in {"?"}
    BY <1>4, CutPartAt
  <2>2. q \in 0..f
    BY <2>1
  <2> QED
    BY <1>3, <2>1, <2>2 DEF Hierarchy
<1>6. q \in (1 - 1)..n
  BY <1>0
<1>7. PICK p \in 0..q :
        /\ Authority = SubSeq(text, 1, p)
        /\ Path = SubSeq(text, p + 1, q)
        /\ \A j \in 1..p : text[j] \notin {"/"}
        /\ p < q => text[p + 1] \in {"/"}
  BY <1>4, <1>5, <1>6, CutPartAt DEF Authority, Path
<1>8. p \in (1 - 1)..n
  BY <1>0
<1>9. PICK h \in 0..p :
        /\ Host = SubSeq(text, 1, h)
        /\ From(Authority, {":"}) = SubSeq(text, h + 1, p)
        /\ \A j \in 1..h : text[j] \notin {":"}
        /\ h < p => text[h + 1] \in {":"}
  BY <1>4, <1>7, <1>8, CutPartAt DEF Host
\* The authority ends at the first slash.
<1>10. PICK c \in 0..n :
         /\ \A j \in 1..c : text[j] \notin {"/", "?", "#"}
         /\ c < n => text[c + 1] \in {"/"}
  <2>1. PICK c \in 0..n :
          /\ Upto(text, {"/", "?", "#"}) = SubSeq(text, 1, c)
          /\ \A j \in 1..c : text[j] \notin {"/", "?", "#"}
    BY CutAt
  <2>2. PICK d \in 0..n :
          /\ Upto(text, {"/"}) = SubSeq(text, 1, d)
          /\ d < n => text[d + 1] \in {"/"}
    BY CutAt
  <2>3. Len(SubSeq(text, 1, c)) = c /\ Len(SubSeq(text, 1, d)) = d
    BY <1>0
  <2>4. c = d
    BY <2>1, <2>2, <2>3
  <2> QED
    BY <2>1, <2>2, <2>4
<1> HIDE DEF n
<1>11. p = c
  <2>1. c <= f
    BY <1>0, <1>3, <1>10
  <2>2. c <= q
    BY <1>0, <1>5, <1>10, <2>1
  <2>3. c <= p
    BY <1>0, <1>7, <1>10, <2>2
  <2>4. p <= c
    BY <1>0, <1>7, <1>10
  <2> QED
    BY <1>0, <2>3, <2>4
\* Each group ends where what it is named for does.
<1>12. /\ k2 \in 0..n /\ Behind(k2, a2, Colon(k2)) /\ k3 \in (a2 - 1)..n
       /\ k4 \in k3..n /\ Behind(k4, a4, Mark(k4)) /\ k5 \in (a4 - 1)..n
  BY <1>1 DEF IsCut, n
<1>13. /\ Colon(k2) => k2 < n /\ text[k2 + 1] = ":" /\ a2 = k2 + 2
       /\ ~Colon(k2) => (k2 < n => text[k2 + 1] # ":") /\ a2 = k2 + 1
       /\ Mark(k4) => k4 < n /\ text[k4 + 1] = "?" /\ a4 = k4 + 2
       /\ ~Mark(k4) => (k4 < n => text[k4 + 1] # "?") /\ a4 = k4 + 1
  BY <1>12 DEF Behind, Colon, Mark, n
<1>14. k2 = h
  <2>1. /\ \A j \in 1..k2 : text[j] \notin {"/", ":"}
        /\ k2 < n => text[k2 + 1] \in {"/", ":"}
    <3>1. k2 < n => text[k2 + 1] # "blank"
      BY <1>0, <1>2, <1>12
    <3> QED
      BY <1>1, <3>1 DEF IsCut, n
  <2>2. k2 <= p
    BY <1>0, <1>10, <1>11, <1>12, <2>1
  <2>3. k2 <= h
    BY <1>0, <1>9, <1>12, <2>1, <2>2
  <2>4. h <= k2
    BY <1>0, <1>7, <1>9, <1>12, <2>1
  <2> QED
    BY <1>0, <1>12, <2>3, <2>4
<1>15. Colon(k2) <=> h < p /\ text[h + 1] = ":"
  <2>1. ASSUME Colon(k2) PROVE h < p
    BY <1>0, <1>10, <1>11, <1>13, <1>14, <2>1
  <2>2. h < p => h < n
    BY <1>0
  <2> QED
    BY <1>13, <1>14, <2>1, <2>2 DEF Colon
<1>16. a2 \in (h + 1)..(p + 1)
  BY <1>0, <1>13, <1>14, <1>15
<1>17. k3 = p
  <2>1. /\ \A j \in a2..k3 : text[j] # "/"
        /\ k3 < n => text[k3 + 1] = "/"
    <3>1. k3 < n => text[k3 + 1] # "blank"
      BY <1>0, <1>2, <1>12, <1>16
    <3> QED
      BY <1>1, <3>1 DEF IsCut, n
  <2>2. k3 <= p
    BY <1>0, <1>10, <1>11, <1>12, <1>16, <2>1
  <2>3. p <= k3
    BY <1>0, <1>7, <1>12, <1>16, <2>1
  <2> QED
    BY <1>0, <1>12, <1>16, <2>2, <2>3
<1>18. k4 = q
  <2>1. /\ \A j \in (k3 + 1)..k4 : text[j] \notin {"#", "?"}
        /\ k4 < n => text[k4 + 1] \in {"#", "?"}
    <3>1. k4 < n => text[k4 + 1] # "blank"
      BY <1>0, <1>2, <1>12, <1>17
    <3> QED
      BY <1>1, <3>1 DEF IsCut, n
  <2>2. k4 <= f
    BY <1>0, <1>3, <1>12, <1>17, <2>1
  <2>3. k4 <= q
    BY <1>0, <1>5, <1>12, <1>17, <2>1, <2>2
  <2>4. q <= k4
    <3>1. ASSUME k4 < q PROVE FALSE
      <4>1. k4 + 1 \in 1..q /\ k4 + 1 \in 1..f /\ k4 < n
        BY <1>0, <1>12, <1>17, <3>1
      <4> QED
        BY <1>3, <1>5, <2>1, <4>1
    <3> QED
      BY <1>0, <1>12, <1>17, <3>1
  <2> QED
    BY <1>0, <1>12, <1>17, <2>3, <2>4
<1>19. Mark(k4) <=> q < f /\ text[q + 1] = "?"
  <2>1. ASSUME Mark(k4) PROVE q < f
    BY <1>0, <1>3, <1>13, <1>18, <2>1
  <2>2. q < f => q < n
    BY <1>0
  <2> QED
    BY <1>13, <1>18, <2>1, <2>2 DEF Mark
<1>20. a4 \in (q + 1)..(f + 1)
  BY <1>0, <1>13, <1>18, <1>19
<1>21. k5 = f
  <2>1. /\ \A j \in a4..k5 : text[j] # "#"
        /\ k5 < n => text[k5 + 1] = "#"
    <3>1. k5 < n => text[k5 + 1] # "blank"
      BY <1>0, <1>2, <1>12, <1>20
    <3> QED
      BY <1>1, <3>1 DEF IsCut, n
  <2>2. k5 <= f
    BY <1>0, <1>3, <1>12, <1>20, <2>1
  <2>3. f <= k5
    BY <1>0, <1>3, <1>12, <1>20, <2>1
  <2> QED
    BY <1>0, <1>12, <1>20, <2>2, <2>3
\* So the groups are the same parts of the text.
<1>22. PortText = SubSeq(text, a2, p)
  <2>1. h + 1 \in 1..(Len(text) + 1) /\ p \in ((h + 1) - 1)..Len(text)
    BY <1>0 DEF n
  <2>2. PortText = IF h + 1 <= p /\ text[h + 1] = ":" THEN SubSeq(text, (h + 1) + 1, p)
                   ELSE SubSeq(text, h + 1, p)
    <3>1. From(Authority, {":"}) = SubSeq(text, h + 1, p)
      BY <1>9
    <3>2. PortText = Skip(SubSeq(text, h + 1, p), ":")
      BY <3>1 DEF PortText, After
    <3> QED
      BY <2>1, <3>2, SkipAt
  <2>3. h + 1 <= p <=> h < p
    BY <1>0
  <2>4. (h + 1) + 1 = h + 2
    BY <1>0
  <2> QED
    BY <1>13, <1>14, <1>15, <2>2, <2>3, <2>4
<1>23. Query = SubSeq(text, a4, f)
  <2>1. q + 1 \in 1..(Len(text) + 1) /\ f \in ((q + 1) - 1)..Len(text)
    BY <1>0 DEF n
  <2>2. Query = IF q + 1 <= f /\ text[q + 1] = "?" THEN SubSeq(text, (q + 1) + 1, f)
                ELSE SubSeq(text, q + 1, f)
    <3>1. From(Upto(text, {"#"}), {"?"}) = SubSeq(text, q + 1, f)
      BY <1>5
    <3>2. Query = Skip(SubSeq(text, q + 1, f), "?")
      BY <3>1 DEF Query, After
    <3> QED
      BY <2>1, <3>2, SkipAt
  <2>3. q + 1 <= f <=> q < f
    BY <1>0
  <2>4. (q + 1) + 1 = q + 2
    BY <1>0
  <2> QED
    BY <1>13, <1>18, <1>19, <2>2, <2>3, <2>4
<1> QED
  BY <1>1, <1>7, <1>9, <1>14, <1>17, <1>18, <1>21, <1>22, <1>23

-----------------------------------------------------------------------------
(***************************************************************************)
(* The invariant: a url that was parsed is the one that the groups of the  *)
(* regular expression and the port make, whatever copies it went through,  *)
(* and the session is made of it.                                          *)
(***************************************************************************)
ParsedUrl ==
  [protocol |-> scheme, host |-> Group2, port |-> Port,
   path |-> Group4, query |-> Group5, fragment |-> <<>>]

PortIsRead == Group3 = <<>> \/ ReadingsOf(Group3) # {}

PortFits == PortInRange(Port)

UrlInv ==
  stage \in {"parsed", "made"} => Matches /\ PortIsRead /\ PortFits /\ url = ParsedUrl

SessionInv == stage = "made" => session = SessionOf(ParsedUrl)

IInv == TypeOK /\ UrlInv /\ SessionInv

LEMMA InitInv == Init => IInv
<1> SUFFICES ASSUME Init PROVE IInv
  OBVIOUS
<1>1. text \in Seq(Delims \cup Words)
  <2>1. CASE scheme = "empty"
    BY <2>1 DEF Init
  <2>2. CASE scheme # "empty"
    <3>1. text \in Texts
      BY <2>2 DEF Init
    <3>2. PICK n \in 0..MaxTokens : text \in [1..n -> Delims \cup Words]
      BY <3>1 DEF Texts
    <3>3. n \in Nat
      BY <3>2, MaxTokensIsNat
    <3> QED
      BY <3>2, <3>3
  <2> QED
    BY <2>1, <2>2
<1>2. url.port = 0 /\ session.port = 0 /\ 0 \in 0..MaxPort
  BY DEF Init, NoUrl, NoSession, MaxPort
<1>3. HasPort(url) /\ HasPort(session)
  BY <1>2 DEF HasPort
<1>4. TypeOK
  BY <1>1, <1>3 DEF Init, TypeOK
<1> QED
  BY <1>4 DEF Init, IInv, UrlInv, SessionInv

\* What is given does not change, and so what is read in it does not, either.
LEMMA GroupsStay ==
  ASSUME UNCHANGED <<scheme, text>>
  PROVE  /\ ParsedUrl' = ParsedUrl
         /\ Matches' = Matches /\ PortIsRead' = PortIsRead /\ PortFits' = PortFits
<1>1. Group2' = Group2 /\ After2' = After2
  BY DEF Group2, After2
<1>2. Group3' = Group3 /\ After3' = After3
  BY <1>1 DEF Group3, After3
<1>3. Group4' = Group4 /\ After4' = After4
  BY <1>2 DEF Group4, After4
<1>4. Group5' = Group5 /\ After5' = After5
  BY <1>3 DEF Group5, After5
<1>5. Group6' = Group6
  BY <1>4 DEF Group6
<1>6. Port' = Port
  BY <1>2 DEF Port
<1>7. Matches' = Matches
  BY <1>1, <1>4, <1>5 DEF Matches
<1>8. PortIsRead' = PortIsRead /\ PortFits' = PortFits
  BY <1>2, <1>6 DEF PortIsRead, PortFits, ReadingsOf, PortInRange
<1> QED
  BY <1>1, <1>2, <1>3, <1>4, <1>6, <1>7, <1>8 DEF ParsedUrl

\* What a step leaves as it is; the groups that were read need not be known here.
LEMMA UrlInvStays ==
  ASSUME UrlInv, stage \in {"parsed", "made"}, UNCHANGED <<scheme, text>>, url' = url
  PROVE  UrlInv'
<1>1. Matches' /\ PortIsRead' /\ PortFits' /\ url' = ParsedUrl'
  BY GroupsStay DEF UrlInv
<1> QED
  BY <1>1 DEF UrlInv

\* What Parse returns.
LEMMA ParseResult ==
  ASSUME Parse
  PROVE  \/ UNCHANGED url /\ stage' = "refused" /\ code' \in {"EMPTY", "NOT_SUPPORTED"}
         \/ UNCHANGED <<url, code>> /\ stage' = "thrown"
         \/ /\ Matches /\ PortIsRead /\ PortFits
            /\ url' = CopyOf([protocol |-> scheme, host |-> Group2, port |-> Port % (MaxPort + 1),
                              path |-> Group4, query |-> Group5, fragment |-> Group6])
            /\ stage' = "parsed"
            /\ UNCHANGED code
  BY DEF Parse, Refused, PortIsRead, PortFits

\* A port that fits is not changed by the conversion to 16 bits.
LEMMA PortConverts == ASSUME PortFits PROVE Port \in 0..MaxPort /\ Port % (MaxPort + 1) = Port
<1> DEFINE n == Port
<1>1. n \in 0..MaxPort
  BY DEF PortFits, PortInRange
<1>2. MaxPort \in Nat
  BY DEF MaxPort
<1> HIDE DEF n
<1>3. n % (MaxPort + 1) = n
  BY <1>1, <1>2
<1> QED
  BY <1>1, <1>3 DEF n

LEMMA ParseInv == ASSUME IInv, Parse PROVE IInv'
<1>1. stage = "given" /\ UNCHANGED <<scheme, text, session>>
  BY DEF Parse
<1>2. TypeOK
  BY DEF IInv
<1>3. code = "none"
  BY <1>1, <1>2 DEF TypeOK
<1>4. stage' # "made" => SessionInv'
  BY DEF SessionInv
<1>5. CASE UNCHANGED url /\ stage' = "refused" /\ code' \in {"EMPTY", "NOT_SUPPORTED"}
  <2>1. TypeOK'
    BY <1>1, <1>2, <1>5 DEF TypeOK
  <2>2. UrlInv'
    BY <1>5 DEF UrlInv
  <2> QED
    BY <1>4, <1>5, <2>1, <2>2 DEF IInv
<1>6. CASE UNCHANGED <<url, code>> /\ stage' = "thrown"
  <2>1. TypeOK'
    BY <1>1, <1>2, <1>3, <1>6 DEF TypeOK
  <2>2. UrlInv'
    BY <1>6 DEF UrlInv
  <2> QED
    BY <1>4, <1>6, <2>1, <2>2 DEF IInv
<1>7. CASE /\ Matches /\ PortIsRead /\ PortFits
           /\ url' = CopyOf([protocol |-> scheme, host |-> Group2, port |-> Port % (MaxPort + 1),
                             path |-> Group4, query |-> Group5, fragment |-> Group6])
           /\ stage' = "parsed"
           /\ UNCHANGED code
  <2>0. PortFits
    BY <1>7
  <2>1. Port \in 0..MaxPort /\ Port % (MaxPort + 1) = Port
    BY <2>0, PortConverts
  <2>3. url' = ParsedUrl
    BY <1>7, <2>1 DEF CopyOf, ParsedUrl
  <2>4. HasPort(url)'
    BY <2>1, <2>3 DEF ParsedUrl, HasPort
  <2>5. TypeOK'
    BY <1>1, <1>2, <1>3, <1>7, <2>4 DEF TypeOK
  <2>6. Matches' /\ PortIsRead' /\ PortFits' /\ url' = ParsedUrl'
    BY <1>1, <1>7, <2>3, GroupsStay
  <2>7. UrlInv'
    BY <2>6 DEF UrlInv
  <2> QED
    BY <1>4, <1>7, <2>5, <2>7 DEF IInv
<1> QED
  BY <1>5, <1>6, <1>7, ParseResult

LEMMA MakeClientInv == ASSUME IInv, MakeClient PROVE IInv'
<1>1. stage = "parsed" /\ stage' = "made" /\ UNCHANGED <<scheme, text, code>>
  BY DEF MakeClient
<1>2. TypeOK /\ UrlInv
  BY DEF IInv
<1>3. url = ParsedUrl /\ PortFits
  BY <1>1, <1>2 DEF UrlInv
<1>4. Port \in 0..MaxPort
  BY <1>3, PortConverts
<1>5. url' = ParsedUrl
  <2>1. CopyOf(ParsedUrl) = ParsedUrl /\ Assigned(ParsedUrl, ParsedUrl) = ParsedUrl
    BY DEF CopyOf, Assigned, ParsedUrl
  <2>2. url' \in {CopyOf(url), Assigned(CopyOf(url), CopyOf(url))}
    BY DEF MakeClient
  <2> QED
    BY <1>3, <2>1, <2>2
<1>6. session' = SessionOf(ParsedUrl)
  BY <1>5 DEF MakeClient
<1>7. HasPort(url)' /\ HasPort(session)'
  BY <1>4, <1>5, <1>6 DEF ParsedUrl, SessionOf, HasPort
<1>8. TypeOK'
  BY <1>1, <1>2, <1>7 DEF TypeOK
<1>9. UrlInv'
  BY <1>1, <1>2, <1>3, <1>5, UrlInvStays
<1>10. SessionInv'
  <2>1. ParsedUrl' = ParsedUrl
    BY <1>1, GroupsStay
  <2>2. SessionOf(ParsedUrl)' = SessionOf(ParsedUrl)
    BY <2>1 DEF SessionOf
  <2> QED
    BY <1>6, <2>2 DEF SessionInv
<1> QED
  BY <1>8, <1>9, <1>10 DEF IInv

LEMMA StutterInv == ASSUME IInv, UNCHANGED vars PROVE IInv'
<1>1. UNCHANGED <<scheme, text, stage, code, url, session>>
  BY DEF vars
<1>2. TypeOK'
  BY <1>1 DEF IInv, TypeOK
<1>3. UrlInv'
  <2>1. CASE stage \in {"parsed", "made"}
    BY <1>1, <2>1, UrlInvStays DEF IInv
  <2>2. CASE stage \notin {"parsed", "made"}
    BY <1>1, <2>2 DEF UrlInv
  <2> QED
    BY <2>1, <2>2
<1>4. SessionInv'
  <2>1. ParsedUrl' = ParsedUrl
    BY <1>1, GroupsStay
  <2>2. SessionOf(ParsedUrl)' = SessionOf(ParsedUrl)
    BY <2>1 DEF SessionOf
  <2>3. SessionInv
    BY DEF IInv
  <2> QED
    BY <1>1, <2>2, <2>3 DEF SessionInv
<1> QED
  BY <1>2, <1>3, <1>4 DEF IInv

LEMMA StepInv == IInv /\ [Next]_vars => IInv'
  BY ParseInv, MakeClientInv, StutterInv DEF Next

\* The invariant holds in every behaviour.
THEOREM Invariance == Spec => []IInv
  BY InitInv, StepInv, PTL DEF Spec

-----------------------------------------------------------------------------
(***************************************************************************)
(* The theorems.                                                           *)
(***************************************************************************)
\* The types of the url and of the session: a port is always one of 16 bits, and an error is
\* reported exactly when a url is refused (Url::Parse, Url::Url, Client::Client).
THEOREM UrlsAreTyped == Spec => []TypeOK
<1>1. IInv => TypeOK
  BY DEF IInv
<1> QED
  BY <1>1, Invariance, PTL

\* A port number that does not fit into 16 bits is refused, never cut: the session is made
\* with a number that was read in the url (Url::Parse).
THEOREM PortsAreNeverCut == Spec => []PortNeverWraps
<1>1. IInv => PortNeverWraps
  <2> SUFFICES ASSUME IInv, stage = "made", Group3 # <<>> PROVE session.port \in ReadingsOf(Group3)
    BY DEF PortNeverWraps
  <2>1. UrlInv /\ SessionInv
    BY DEF IInv
  <2>2. PortIsRead
    BY <2>1 DEF UrlInv
  <2>3. Port \in ReadingsOf(Group3)
    BY <2>2 DEF PortIsRead, Port
  <2>4. session.port = Port
    BY <2>1 DEF SessionInv, SessionOf, ParsedUrl
  <2> QED
    BY <2>3, <2>4
<1> QED
  BY <1>1, Invariance, PTL

\* What std::stoi reads in a decimal number that fits.
LEMMA DecimalsAreRead ==
  ASSUME Group3 # <<>>, Group3[1] \in {r[1] : r \in Decimals}
  PROVE  <<Group3[1], Port>> \in Decimals
<1>0. \A n : n \in ReadingsOf(Group3) <=> \E r \in Readings : r[1] = Group3[1] /\ n = r[2]
  BY DEF ReadingsOf
<1>1. CASE Group3[1] = "80"
  <2>1. <<"80", 80>> \in Readings /\ <<"80", 80>>[1] = "80" /\ <<"80", 80>>[2] = 80
    BY DEF Readings
  <2>2. 80 \in ReadingsOf(Group3)
    BY <1>0, <1>1, <2>1
  <2>3. \A r \in Readings : r[1] = "80" => r[2] = 80
    BY DEF Readings
  <2>4. \A n \in ReadingsOf(Group3) : n = 80
    BY <1>0, <1>1, <2>3
  <2>5. Port = 80
    BY <2>2, <2>4 DEF Port
  <2> QED
    BY <1>1, <2>5 DEF Decimals
<1>2. CASE Group3[1] = "443"
  <2>1. <<"443", 443>> \in Readings /\ <<"443", 443>>[1] = "443" /\ <<"443", 443>>[2] = 443
    BY DEF Readings
  <2>2. 443 \in ReadingsOf(Group3)
    BY <1>0, <1>2, <2>1
  <2>3. \A r \in Readings : r[1] = "443" => r[2] = 443
    BY DEF Readings
  <2>4. \A n \in ReadingsOf(Group3) : n = 443
    BY <1>0, <1>2, <2>3
  <2>5. Port = 443
    BY <2>2, <2>4 DEF Port
  <2> QED
    BY <1>2, <2>5 DEF Decimals
<1>3. CASE Group3[1] = "65535"
  <2>1. <<"65535", 65535>> \in Readings /\ <<"65535", 65535>>[1] = "65535" /\ <<"65535", 65535>>[2] = 65535
    BY DEF Readings
  <2>2. 65535 \in ReadingsOf(Group3)
    BY <1>0, <1>3, <2>1
  <2>3. \A r \in Readings : r[1] = "65535" => r[2] = 65535
    BY DEF Readings
  <2>4. \A n \in ReadingsOf(Group3) : n = 65535
    BY <1>0, <1>3, <2>3
  <2>5. Port = 65535
    BY <2>2, <2>4 DEF Port
  <2> QED
    BY <1>3, <2>5 DEF Decimals
<1> QED
  BY <1>1, <1>2, <1>3 DEF Decimals

\* The session is made for the server, the port, the path and the protocol that the url
\* names, for a url of any length whose authority ends at a slash or with the text: the
\* regular expression of Url::Parse cuts where the parts of a url begin.
THEOREM SessionsReachWhatTheUrlNames == Spec => []ReachesWhatTheUrlNames
<1>1. IInv => ReachesWhatTheUrlNames
  <2> SUFFICES ASSUME IInv, stage = "made", Conventional
               PROVE  /\ session.host = Host
                      /\ session.target = Path
                      /\ session.use_ssl = (scheme = "https")
                      /\ IF PortText = <<>> THEN session.port = IF scheme = "https" THEN 443 ELSE 80
                                            ELSE <<PortText[1], session.port>> \in Decimals
                      /\ url.query = Query
    BY DEF ReachesWhatTheUrlNames
  <2>1. UrlInv /\ SessionInv /\ TypeOK
    BY DEF IInv
  <2>2. Matches /\ url = ParsedUrl /\ session = SessionOf(ParsedUrl)
    BY <2>1 DEF UrlInv, SessionInv
  <2>3. text \in Seq(Tokens)
    BY <2>1 DEF TypeOK, Tokens
  <2>4. Group2 = Host /\ Group3 = PortText /\ Group4 = Path /\ Group5 = Query
    <3>1. Group6 = After5 /\ Upto(text, {"/", "?", "#"}) = Upto(text, {"/"})
      BY <2>2 DEF Matches, Conventional
    <3> QED
      BY <2>3, <3>1, GroupsAreWhatTheUrlNames
  <2>5. /\ session.host = Group2 /\ session.port = Port /\ session.target = Group4
        /\ session.use_ssl = (scheme = "https") /\ url.query = Group5
    BY <2>2 DEF SessionOf, ParsedUrl
  <2>6. CASE PortText = <<>>
    <3>1. Port = IF scheme = "https" THEN 443 ELSE 80
      BY <2>4, <2>6 DEF Port
    <3> QED
      BY <2>4, <2>5, <2>6, <3>1
  <2>7. CASE PortText # <<>>
    <3>1. PortText[1] \in {r[1] : r \in Decimals}
      BY <2>7 DEF Conventional
    <3>2. <<PortText[1], Port>> \in Decimals
      BY <2>4, <2>7, <3>1, DecimalsAreRead
    <3> QED
      BY <2>4, <2>5, <2>7, <3>2
  <2> QED
    BY <2>6, <2>7
<1> QED
  BY <1>1, Invariance, PTL

-----------------------------------------------------------------------------
(***************************************************************************)
(* Which urls are turned away.                                             *)
(***************************************************************************)
\* A url that was refused, or that made std::stoi throw, did not match, is for another
\* protocol, or has a port that cannot be read or does not fit.
Usable == Matches /\ scheme \in {"http", "https"} /\ PortIsRead /\ PortFits

TurnedAwayInv == stage \in {"refused", "thrown"} => ~Usable

LEMMA ParseTurnsAway == ASSUME Parse PROVE stage' \in {"refused", "thrown"} => ~Usable
<1>1. CASE scheme = "empty" \/ (scheme # "empty" /\ ~Matches) \/ (Matches /\ scheme = "ftp")
  BY <1>1 DEF Usable
<1>2. CASE Group3 # <<>> /\ ReadingsOf(Group3) = {}
  BY <1>2 DEF Usable, PortIsRead
<1>3. CASE ~PortInRange(Port)
  BY <1>3 DEF Usable, PortFits
<1>4. CASE stage' = "parsed"
  BY <1>4
<1> QED
  BY <1>1, <1>2, <1>3, <1>4 DEF Parse

LEMMA TurnedAwayNext == TurnedAwayInv /\ [Next]_vars => TurnedAwayInv'
<1> SUFFICES ASSUME TurnedAwayInv, [Next]_vars PROVE TurnedAwayInv'
  OBVIOUS
<1>1. UNCHANGED <<scheme, text>>
  BY DEF Next, Parse, MakeClient, vars
<1>2. Usable' = Usable
  <2>1. Matches' = Matches /\ PortIsRead' = PortIsRead /\ PortFits' = PortFits
    BY <1>1, GroupsStay
  <2> QED
    BY <1>1, <2>1 DEF Usable
<1>3. stage' \in {"refused", "thrown"} => ~Usable
  <2>1. CASE Parse
    BY <2>1, ParseTurnsAway
  <2>2. CASE MakeClient
    BY <2>2 DEF MakeClient
  <2>3. CASE UNCHANGED vars
    BY <2>3 DEF vars, TurnedAwayInv
  <2> QED
    BY <2>1, <2>2, <2>3 DEF Next
<1> QED
  BY <1>2, <1>3 DEF TurnedAwayInv

\* The last group takes all that is left of a text without a blank.
LEMMA NothingIsLeft ==
  ASSUME text \in Seq(Tokens), \A i \in 1..Len(text) : text[i] # "blank"
  PROVE  Group6 = After5
<1> DEFINE n == Len(text)
<1>0. n \in Nat
  OBVIOUS
<1>1. PICK k2, a2, k3, k4, a4, k5, a5 :
        IsCut(k2, a2, k3, k4, a4, k5, a5) /\ After5 = SubSeq(text, a5, n)
  BY Groups
<1>2. a5 \in 1..(n + 1) /\ n \in (a5 - 1)..n
  BY <1>0, <1>1, CutsInside
<1>3. PICK k \in (a5 - 1)..n :
        /\ Upto(SubSeq(text, a5, n), {"blank"}) = SubSeq(text, a5, k)
        /\ k < n => text[k + 1] \in {"blank"}
  BY <1>2, CutPartAt
<1>4. k = n
  <2>1. k < n => k + 1 \in 1..n
    BY <1>0, <1>2
  <2> QED
    BY <1>0, <1>2, <1>3, <2>1
<1> QED
  BY <1>1, <1>3, <1>4 DEF Group6

LEMMA UsualPortsFit == {80, 443, 65535} \subseteq 0..MaxPort
  BY DEF MaxPort

\* A decimal port is read, and it fits.
LEMMA DecimalsFit ==
  ASSUME Group3 = <<>> \/ Group3[1] \in {r[1] : r \in Decimals}
  PROVE  PortIsRead /\ PortFits
<1>1. CASE Group3 = <<>>
  <2>1. Port \in {443, 80}
    BY <1>1 DEF Port
  <2>2. Port \in 0..MaxPort
    BY <2>1, UsualPortsFit
  <2> QED
    BY <1>1, <2>2 DEF PortIsRead, PortFits, PortInRange
<1>2. CASE Group3 # <<>> /\ Group3[1] \in {r[1] : r \in Decimals}
  <2>1. <<Group3[1], Port>> \in Decimals
    BY <1>2, DecimalsAreRead
  <2>2. Port \in {80, 443, 65535}
    BY <2>1 DEF Decimals
  <2>3. Port \in 0..MaxPort
    BY <2>2, UsualPortsFit
  <2>4. ReadingsOf(Group3) # {}
    <3>1. \A r \in Decimals : r \in Readings
      BY DEF Decimals, Readings
    <3>2. PICK r \in Decimals : Group3[1] = r[1]
      BY <1>2
    <3>3. r[2] \in ReadingsOf(Group3)
      BY <1>2, <3>1, <3>2 DEF ReadingsOf
    <3> QED
      BY <3>3
  <2> QED
    BY <2>3, <2>4 DEF PortIsRead, PortFits, PortInRange
<1> QED
  BY <1>1, <1>2

\* Url::Parse takes every http and https url that is written as usual: one with a host and
\* no blank, an authority that ends at a slash or with the text, and a port that is empty or
\* a decimal number of 16 bits.
THEOREM ConventionalUrlsAreTaken == Spec => []AcceptsWhatItCanReach
<1>1. Init => TurnedAwayInv
  BY DEF Init, TurnedAwayInv
<1>2. IInv /\ TurnedAwayInv => AcceptsWhatItCanReach
  <2> SUFFICES ASSUME IInv, TurnedAwayInv, scheme \in {"http", "https"}, Conventional,
                      Host # <<>>, \A i \in 1..Len(text) : text[i] # "blank"
               PROVE  stage \notin {"refused", "thrown"}
    BY DEF AcceptsWhatItCanReach
  <2>1. text \in Seq(Tokens)
    BY DEF IInv, TypeOK, Tokens
  <2>2. Group6 = After5
    BY <2>1, NothingIsLeft
  <2>3. Group2 = Host /\ Group3 = PortText
    <3>1. Upto(text, {"/", "?", "#"}) = Upto(text, {"/"})
      BY DEF Conventional
    <3> QED
      BY <2>1, <2>2, <3>1, GroupsAreWhatTheUrlNames
  <2>4. Matches
    BY <2>2, <2>3 DEF Matches
  <2>5. PortIsRead /\ PortFits
    BY <2>3, DecimalsFit DEF Conventional
  <2> QED
    BY <2>4, <2>5 DEF Usable, TurnedAwayInv
<1> QED
  BY <1>1, <1>2, TurnedAwayNext, Invariance, PTL DEF Spec

=============================================================================
