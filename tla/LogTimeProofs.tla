---------------------------- MODULE LogTimeProofs ----------------------------
(***************************************************************************)
(* Proofs about the order of texts, and how it differs from that of the    *)
(* instants they stand for.                                                *)
(***************************************************************************)
EXTENDS LogTime, SequenceTheorems, WellFoundedInduction, TLAPS

LEMMA FractionIsText ==
  ASSUME NEW f \in Nat
  PROVE  Fraction(f) \in Seq(Nat)
<1>1. f % 10 \in Nat /\ f \div 10 \in Nat
  OBVIOUS
<1>2. QED
  BY <1>1 DEF Fraction, Dot, Zero

LEMMA ConcatKeepsFront ==
  ASSUME NEW h \in Seq(Nat), NEW f \in Seq(Nat)
  PROVE  /\ h \o f \in Seq(Nat)
         /\ Len(h \o f) = Len(h) + Len(f)
         /\ \A i \in 1..Len(h) : (h \o f)[i] = h[i]
<1>1. h \o f \in Seq(Nat) /\ Len(h \o f) = Len(h) + Len(f)
  OBVIOUS
<1>2. ASSUME NEW i \in 1..Len(h) PROVE (h \o f)[i] = h[i]
  OBVIOUS
<1>3. QED
  BY <1>1, <1>2

\* The date and the time of day stand at the front of a text.
LEMMA FrontOfText ==
  ASSUME NEW s \in Instant
  PROVE  LET a == RFC3339Nano(s) IN
         /\ a \in Seq(Nat) /\ Len(a) >= 4
         /\ a[1] = s.day /\ a[2] = LetterT /\ a[3] = s.sec
<1> DEFINE f == Fraction(s.frac)
           h == <<s.day, LetterT, s.sec>>
           g == h \o f
<1>1. s.day \in Nat /\ s.sec \in Nat /\ f \in Seq(Nat)
  <2>1. s.day \in Nat /\ s.sec \in Nat /\ s.frac \in Nat
    BY DEF Instant
  <2>2. QED
    BY <2>1, FractionIsText
<1>2. h \in Seq(Nat) /\ Len(h) = 3 /\ h[1] = s.day /\ h[2] = LetterT /\ h[3] = s.sec
  BY <1>1 DEF LetterT
<1>3. Len(f) \in Nat
  BY <1>1
<1>4. RFC3339Nano(s) = g \o <<LetterZ>>
  BY DEF RFC3339Nano
<1> HIDE DEF h, f
<1>5. g \in Seq(Nat) /\ Len(g) = 3 + Len(f) /\ g[1] = s.day /\ g[2] = LetterT /\ g[3] = s.sec
  <2>1. g \in Seq(Nat) /\ Len(g) = Len(h) + Len(f) /\ \A i \in 1..Len(h) : g[i] = h[i]
    BY <1>1, <1>2, ConcatKeepsFront
  <2>2. QED
    BY <1>2, <1>3, <2>1
<1> HIDE DEF g
<1>6. g \o <<LetterZ>> \in Seq(Nat) /\ Len(g \o <<LetterZ>>) = Len(g) + 1
      /\ \A i \in 1..Len(g) : (g \o <<LetterZ>>)[i] = g[i]
  <2>1. <<LetterZ>> \in Seq(Nat) /\ Len(<<LetterZ>>) = 1
    BY DEF LetterZ
  <2>2. QED
    BY <1>5, <2>1, ConcatKeepsFront
<1>7. QED
  BY <1>3, <1>4, <1>5, <1>6

\* A start deletes by the day alone: at the place where RFC3339Nano has a T,
\* datetime() has a blank, which comes before it.
LEMMA TextsCompareByDay ==
  ASSUME NEW s \in Instant, NEW d \in Int, NEW sec \in Nat
  PROVE  TextBefore(RFC3339Nano(s), <<d, Blank, sec>>) <=> s.day < d
<1> DEFINE a == RFC3339Nano(s)
           b == <<d, Blank, sec>>
<1>1. s.day \in Nat
  BY DEF Instant
<1>3. Len(a) >= 4 /\ Len(a) \in Nat /\ a[1] = s.day /\ a[2] = 84
  BY FrontOfText DEF LetterT
<1>4. Len(b) = 3 /\ b[1] = d /\ b[2] = 32
  BY DEF Blank
<1> HIDE DEF a, b
<1>5. ASSUME s.day < d PROVE TextBefore(a, b)
  <2>1. 0 \in 0..Len(a) /\ 0 < Len(b) /\ a[0 + 1] < b[0 + 1] /\ \A i \in 1..0 : a[i] = b[i]
    BY <1>1, <1>3, <1>4, <1>5
  <2>2. QED
    BY <2>1 DEF TextBefore
<1>6. ASSUME TextBefore(a, b) PROVE s.day < d
  <2>1. PICK n \in 0..Len(a) : /\ n < Len(b) /\ \A i \in 1..n : a[i] = b[i]
                               /\ n = Len(a) \/ a[n + 1] < b[n + 1]
    BY <1>6 DEF TextBefore
  <2>2. n \in 0..2 /\ a[n + 1] < b[n + 1]
    BY <1>3, <1>4, <2>1
  <2>3. n # 2
    <3>1. n = 2 => a[2] = b[2]
      BY <2>1
    <3>2. QED
      BY <3>1, <1>3, <1>4
  <2>4. n # 1
    BY <1>3, <1>4, <2>2
  <2>5. n = 0
    BY <2>2, <2>3, <2>4
  <2>6. QED
    BY <1>3, <1>4, <2>2, <2>5
<1>7. QED
  BY <1>5, <1>6 DEF a, b

-----------------------------------------------------------------------------
(* The order of texts is a strict total order *)

LEMMA TextIrreflexive ==
  ASSUME NEW a \in Seq(Nat)
  PROVE  ~TextBefore(a, a)
<1> SUFFICES ASSUME NEW n \in 0..Len(a), n < Len(a), n = Len(a) \/ a[n + 1] < a[n + 1]
             PROVE  FALSE
  BY DEF TextBefore
<1>1. n + 1 \in 1..Len(a)
  OBVIOUS
<1>2. a[n + 1] \in Nat
  BY <1>1
<1>3. QED
  BY <1>2

LEMMA TextTransitive ==
  ASSUME NEW a \in Seq(Nat), NEW b \in Seq(Nat), NEW c \in Seq(Nat),
         TextBefore(a, b), TextBefore(b, c)
  PROVE  TextBefore(a, c)
<1>1. PICK n \in 0..Len(a) : /\ n < Len(b) /\ \A i \in 1..n : a[i] = b[i]
                             /\ n = Len(a) \/ a[n + 1] < b[n + 1]
  BY DEF TextBefore
<1>2. PICK m \in 0..Len(b) : /\ m < Len(c) /\ \A i \in 1..m : b[i] = c[i]
                             /\ m = Len(b) \/ b[m + 1] < c[m + 1]
  BY DEF TextBefore
<1>3. Len(a) \in Nat /\ Len(b) \in Nat /\ Len(c) \in Nat
  OBVIOUS
<1>4. CASE n < m
  <2>1. \A i \in 1..n : a[i] = c[i]
    BY <1>1, <1>2, <1>4
  <2>2. n = Len(a) \/ a[n + 1] < c[n + 1]
    BY <1>1, <1>2, <1>4
  <2>3. n < Len(c)
    BY <1>2, <1>3, <1>4
  <2>4. QED
    BY <2>1, <2>2, <2>3 DEF TextBefore
<1>5. CASE n = m
  <2>1. \A i \in 1..n : a[i] = c[i]
    BY <1>1, <1>2, <1>5
  <2>2. n = Len(a) \/ a[n + 1] < c[n + 1]
    <3>1. SUFFICES ASSUME n # Len(a) PROVE a[n + 1] < c[n + 1]
      OBVIOUS
    <3>2. a[n + 1] < b[n + 1] /\ b[n + 1] < c[n + 1]
      BY <1>1, <1>2, <1>5, <3>1
    <3>3. a[n + 1] \in Nat /\ b[n + 1] \in Nat /\ c[n + 1] \in Nat
      <4>1. n + 1 \in 1..Len(a) /\ n + 1 \in 1..Len(b) /\ n + 1 \in 1..Len(c)
        BY <1>1, <1>2, <1>3, <1>5, <3>1, SMTT(30)
      <4>2. QED
        BY <4>1
    <3>4. QED
      BY <3>2, <3>3, SMTT(30)
  <2>3. QED
    BY <1>2, <1>5, <2>1, <2>2 DEF TextBefore
<1>6. CASE m < n
  <2>1. \A i \in 1..m : a[i] = c[i]
    BY <1>1, <1>2, <1>6
  <2>2. a[m + 1] = b[m + 1] /\ b[m + 1] < c[m + 1]
    BY <1>1, <1>2, <1>3, <1>6
  <2>3. m \in 0..Len(a)
    BY <1>3, <1>6
  <2>4. QED
    BY <1>2, <2>1, <2>2, <2>3 DEF TextBefore
<1>7. QED
  BY <1>4, <1>5, <1>6

\* Two texts differ at a first place, or one ends where the other goes on.
LEMMA TextTotal ==
  ASSUME NEW a \in Seq(Nat), NEW b \in Seq(Nat), a # b
  PROVE  TextBefore(a, b) \/ TextBefore(b, a)
<1> DEFINE shared == IF Len(a) < Len(b) THEN Len(a) ELSE Len(b)
           Apart == {i \in 1..shared : a[i] # b[i]}
<1>1. Len(a) \in Nat /\ Len(b) \in Nat /\ shared \in Nat
  OBVIOUS
<1>2. CASE Apart = {}
  <2>1. \A i \in 1..shared : a[i] = b[i]
    BY <1>2
  <2>2. Len(a) # Len(b)
    <3>1. SUFFICES ASSUME Len(a) = Len(b) PROVE FALSE
      OBVIOUS
    <3>2. shared = Len(a) /\ \A i \in 1..Len(a) : a[i] = b[i]
      BY <2>1, <3>1
    <3>3. a = b
      BY <3>1, <3>2, SeqEqual
    <3>4. QED
      BY <3>3
  <2>3. CASE Len(a) < Len(b)
    BY <1>1, <2>1, <2>3 DEF TextBefore
  <2>4. CASE Len(b) < Len(a)
    BY <1>1, <2>1, <2>4 DEF TextBefore
  <2>5. QED
    BY <1>1, <2>2, <2>3, <2>4
<1>3. CASE Apart # {}
  <2>1. Apart \subseteq Nat
    BY <1>1
  <2>2. PICK k \in Apart : \A i \in Apart : <<i, k>> \notin OpToRel(<, Nat)
    BY <1>3, <2>1, NatLessThanWellFounded, WFMin
  <2>3. \A i \in 1..(k - 1) : a[i] = b[i]
    <3>1. ASSUME NEW i \in 1..(k - 1), a[i] # b[i] PROVE FALSE
      <4>1. i \in Apart /\ i \in Nat /\ k \in Nat /\ i < k
        BY <1>1, <3>1
      <4>2. QED
        BY <2>2, <4>1 DEF OpToRel
    <3>2. QED
      BY <3>1
  <2>4. k - 1 \in 0..Len(a) /\ k - 1 \in 0..Len(b) /\ k - 1 < Len(a) /\ k - 1 < Len(b)
    BY <1>1
  <2>5. (k - 1) + 1 = k /\ a[k] \in Nat /\ b[k] \in Nat /\ a[k] # b[k]
    BY <1>1
  <2>6. CASE a[k] < b[k]
    BY <2>3, <2>4, <2>5, <2>6 DEF TextBefore
  <2>7. CASE b[k] < a[k]
    BY <2>3, <2>4, <2>5, <2>7 DEF TextBefore
  <2>8. QED
    BY <2>5, <2>6, <2>7
<1>4. QED
  BY <1>2, <1>3

-----------------------------------------------------------------------------
(* Texts and instants *)

\* Apart from those of one second, the texts of two instants compare as the
\* instants do.
LEMMA TextsCompareBySecond ==
  ASSUME NEW s \in Instant, NEW t \in Instant, ~SameSecond(s, t)
  PROVE  TextBefore(RFC3339Nano(s), RFC3339Nano(t)) <=> Earlier(s, t)
<1> DEFINE a == RFC3339Nano(s)
           b == RFC3339Nano(t)
<1>1. /\ s.day \in Nat /\ s.sec \in Nat /\ t.day \in Nat /\ t.sec \in Nat
      /\ s.day # t.day \/ s.sec # t.sec
  BY DEF Instant, SameSecond
<1>2. /\ Len(a) \in Nat /\ Len(a) >= 4 /\ a[1] = s.day /\ a[2] = 84 /\ a[3] = s.sec
      /\ Len(b) \in Nat /\ Len(b) >= 4 /\ b[1] = t.day /\ b[2] = 84 /\ b[3] = t.sec
  BY FrontOfText, SMTT(30) DEF LetterT
<1> HIDE DEF a, b
<1>3. ASSUME Earlier(s, t) PROVE TextBefore(a, b)
  <2>1. CASE s.day < t.day
    <3>1. 0 \in 0..Len(a) /\ 0 < Len(b) /\ a[0 + 1] < b[0 + 1] /\ \A i \in 1..0 : a[i] = b[i]
      BY <1>1, <1>2, <2>1
    <3>2. QED
      BY <3>1 DEF TextBefore
  <2>2. CASE s.day = t.day /\ s.sec < t.sec
    <3>1. 2 \in 0..Len(a) /\ 2 < Len(b) /\ a[2 + 1] < b[2 + 1] /\ \A i \in 1..2 : a[i] = b[i]
      BY <1>1, <1>2, <2>2
    <3>2. QED
      BY <3>1 DEF TextBefore
  <2>3. QED
    BY <1>1, <1>3, <2>1, <2>2 DEF Earlier
<1>4. ASSUME TextBefore(a, b) PROVE Earlier(s, t)
  <2>1. PICK n \in 0..Len(a) : /\ n < Len(b) /\ \A i \in 1..n : a[i] = b[i]
                               /\ n = Len(a) \/ a[n + 1] < b[n + 1]
    BY <1>4 DEF TextBefore
  <2>2. n < 3
    <3>1. n >= 3 => a[1] = b[1] /\ a[3] = b[3]
      BY <2>1
    <3>2. QED
      BY <1>1, <1>2, <2>1, <3>1
  <2>3. a[n + 1] < b[n + 1]
    BY <1>2, <2>1, <2>2
  <2>4. n >= 1 => a[1] = b[1]
    BY <2>1
  <2>5. n # 1
    BY <1>2, <2>3
  <2>6. n = 0 \/ n = 2
    BY <2>1, <2>2, <2>5
  <2>7. QED
    BY <1>1, <1>2, <2>3, <2>4, <2>6 DEF Earlier
<1>5. QED
  BY <1>3, <1>4 DEF a, b

=============================================================================
