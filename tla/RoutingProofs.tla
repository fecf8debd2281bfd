---------------------------- MODULE RoutingProofs ----------------------------
(***************************************************************************)
(* Proofs about Routing, for any rules, paths and Locations over any       *)
(* characters: that comparing characters comes to comparing segments, that *)
(* a request stays under its target, and that a rewritten redirect leads   *)
(* back to where upstream pointed.                                         *)
(***************************************************************************)
EXTENDS Routing, FiniteSetTheorems, SequenceTheorems, WellFoundedInduction, TLAPS

Str == Seq(Chars)

-----------------------------------------------------------------------------
(* Numbers *)

\* A set of naturals has a smallest member.
LEMMA Smallest ==
  ASSUME NEW S \in SUBSET Nat, S # {}
  PROVE  \E m \in S : \A n \in S : m <= n
<1>1. PICK m \in S : \A n \in S : <<n, m>> \notin OpToRel(<, Nat)
  BY NatLessThanWellFounded, WFMin
<1>2. \A n \in S : ~(n < m)
  BY <1>1 DEF OpToRel
<1>3. QED
  BY <1>2

\* A set of naturals with a bound has a largest member.
LEMMA LargestUpTo ==
  ASSUME NEW bound \in Nat, NEW S \in SUBSET (0..bound), S # {}
  PROVE  \E m \in S : \A n \in S : n <= m
<1> DEFINE Gaps == {bound - n : n \in S}
<1>1. Gaps \in SUBSET Nat /\ Gaps # {}
  <2>1. \A n \in S : n \in 0..bound /\ bound - n \in Nat
    OBVIOUS
  <2>2. QED
    BY <2>1
<1>2. PICK g \in Gaps : \A h \in Gaps : g <= h
  BY <1>1, Smallest
<1>3. PICK m \in S : g = bound - m
  OBVIOUS
<1>4. ASSUME NEW n \in S PROVE n <= m
  <2>1. bound - n \in Gaps
    OBVIOUS
  <2>2. bound - m <= bound - n
    BY <1>2, <1>3, <2>1
  <2>3. QED
    BY <2>2
<1>5. QED
  BY <1>4

-----------------------------------------------------------------------------
(* Strings: how they are cut and put together *)

\* The length and the characters of a slice.
LEMMA SliceChars ==
  ASSUME NEW t \in Str, NEW i \in 1..(Len(t) + 1), NEW j \in (i - 1)..Len(t)
  PROVE  /\ SubSeq(t, i, j) \in Str
         /\ Len(SubSeq(t, i, j)) = j - i + 1
         /\ \A n \in 1..(j - i + 1) : SubSeq(t, i, j)[n] = t[i + n - 1]
<1>1. \A n \in i..j : t[n] \in Chars
  BY ElementOfSeq DEF Str
<1>2. i \in Int /\ j \in Int
  OBVIOUS
<1>3. QED
  BY <1>1, <1>2, SubSeqProperties DEF Str

\* The length and the characters of two strings put together.
LEMMA JoinChars ==
  ASSUME NEW s \in Str, NEW t \in Str
  PROVE  /\ s \o t \in Str
         /\ Len(s \o t) = Len(s) + Len(t)
         /\ \A i \in 1..Len(s) : (s \o t)[i] = s[i]
         /\ \A i \in 1..Len(t) : (s \o t)[Len(s) + i] = t[i]
<1>1. Len(s) \in Nat /\ Len(t) \in Nat
  BY DEF Str
<1>2. /\ s \o t \in Str
      /\ Len(s \o t) = Len(s) + Len(t)
      /\ \A i \in 1 .. Len(s) + Len(t) : (s \o t)[i] =
                     IF i <= Len(s) THEN s[i] ELSE t[i - Len(s)]
  BY ConcatProperties DEF Str
<1>3. ASSUME NEW i \in 1..Len(t) PROVE (s \o t)[Len(s) + i] = t[i]
  <2>1. Len(s) + i \in 1..(Len(s) + Len(t)) /\ ~(Len(s) + i <= Len(s)) /\ (Len(s) + i) - Len(s) = i
    BY <1>1
  <2>2. QED
    BY <1>2, <2>1
<1>4. QED
  BY <1>1, <1>2, <1>3

\* Strings of the same characters are the same.
LEMMA SameChars ==
  ASSUME NEW s \in Str, NEW t \in Str, Len(s) = Len(t), \A i \in 1..Len(s) : s[i] = t[i]
  PROVE  s = t
  BY SeqEqual DEF Str

\* What is cut at one place and put together again.
LEMMA CutAt ==
  ASSUME NEW t \in Str, NEW n \in 0..Len(t)
  PROVE  t = SubSeq(t, 1, n) \o SubSeq(t, n + 1, Len(t))
<1>1. Len(t) \in Nat
  BY DEF Str
<1>2. 1 \in 1..(Len(t) + 1) /\ n \in 0..Len(t) /\ n \in (1 - 1)..Len(t) /\ Len(t) \in n..Len(t)
  BY <1>1
<1>3. SubSeq(t, 1, n) \o SubSeq(t, n + 1, Len(t)) = SubSeq(t, 1, Len(t))
  BY <1>2, ConcatAdjacentSubSeq DEF Str
<1>4. QED
  BY <1>3, SubSeqFull DEF Str

\* What is put together and cut at the seam.
LEMMA FrontOfJoin ==
  ASSUME NEW s \in Str, NEW t \in Str
  PROVE  /\ SubSeq(s \o t, 1, Len(s)) = s
         /\ SubSeq(s \o t, Len(s) + 1, Len(s \o t)) = t
<1> DEFINE j == s \o t
<1>1. Len(s) \in Nat /\ Len(t) \in Nat
  BY DEF Str
<1>2. j \in Str /\ Len(j) = Len(s) + Len(t)
  BY JoinChars
<1>3. SubSeq(j, 1, Len(s)) = s
  <2>1. 1 \in 1..(Len(j) + 1) /\ Len(s) \in (1 - 1)..Len(j)
    BY <1>1, <1>2
  <2> DEFINE f == SubSeq(j, 1, Len(s))
  <2>2. f \in Str /\ Len(f) = Len(s) /\ \A n \in 1..Len(s) : f[n] = j[n]
    <3> HIDE DEF j
    <3>1. /\ f \in Str /\ Len(f) = Len(s) - 1 + 1
          /\ \A n \in 1..(Len(s) - 1 + 1) : f[n] = j[1 + n - 1]
      BY <1>2, <2>1, SliceChars
    <3> HIDE DEF f
    <3>2. QED
      BY <1>1, <3>1
  <2>3. \A n \in 1..Len(s) : j[n] = s[n]
    BY JoinChars
  <2> HIDE DEF f, j
  <2>4. QED
    BY <2>2, <2>3, SameChars DEF f
<1>4. SubSeq(j, Len(s) + 1, Len(j)) = t
  <2> DEFINE f == SubSeq(j, Len(s) + 1, Len(j))
  <2>1. PICK a \in Nat : a = Len(s) + 1
    BY <1>1
  <2>2. /\ f \in Str /\ Len(f) = Len(j) - (Len(s) + 1) + 1
        /\ \A n \in 1..(Len(j) - (Len(s) + 1) + 1) : f[n] = j[(Len(s) + 1) + n - 1]
    <3>1. a \in 1..(Len(j) + 1) /\ Len(j) \in (a - 1)..Len(j)
      BY <1>1, <1>2, <2>1
    <3> HIDE DEF j, f
    <3>2. /\ SubSeq(j, a, Len(j)) \in Str /\ Len(SubSeq(j, a, Len(j))) = Len(j) - a + 1
          /\ \A n \in 1..(Len(j) - a + 1) : SubSeq(j, a, Len(j))[n] = j[a + n - 1]
      BY <1>2, <3>1, SliceChars
    <3>3. QED
      BY <2>1, <3>2 DEF f
  <2>3. \A n \in 1..Len(t) : j[Len(s) + n] = t[n]
    BY JoinChars
  <2> HIDE DEF f, j
  <2>4. Len(f) = Len(t)
    BY <1>1, <1>2, <2>2
  <2>5. \A n \in 1..Len(t) : f[n] = t[n]
    <3>1. Len(j) - (Len(s) + 1) + 1 = Len(t) /\ \A n \in 1..Len(t) : (Len(s) + 1) + n - 1 = Len(s) + n
      BY <1>1, <1>2
    <3>2. QED
      BY <2>2, <2>3, <3>1
  <2>6. QED
    BY <2>2, <2>4, <2>5, SameChars DEF f
<1>5. QED
  BY <1>3, <1>4

\* A prefix is what agrees element by element as far as it goes.
LEMMA PrefixElements ==
  ASSUME NEW S, NEW s \in Seq(S), NEW t \in Seq(S)
  PROVE  IsPrefix(s, t) <=> Len(s) <= Len(t) /\ \A i \in 1..Len(s) : s[i] = t[i]
<1>1. Len(s) \in Nat /\ Len(t) \in Nat /\ SubSeq(s, 1, Len(s)) = s
  BY SubSeqFull
<1>2. ASSUME Len(s) <= Len(t)
      PROVE  SubSeq(t, 1, Len(s)) = s <=> \A i \in 1..Len(s) : s[i] = t[i]
  <2> DEFINE f == SubSeq(t, 1, Len(s))
  <2>1. \A i \in 1..Len(s) : t[i] \in S
    BY <1>1, <1>2
  <2>2. /\ f \in Seq(S) /\ Len(f) = (IF 1 <= Len(s) THEN Len(s) - 1 + 1 ELSE 0)
        /\ \A i \in 1..(Len(s) - 1 + 1) : f[i] = t[1 + i - 1]
    BY <1>1, <2>1, SubSeqProperties
  <2> HIDE DEF f
  <2>3. Len(f) = Len(s) /\ \A i \in 1..Len(s) : f[i] = t[i]
    BY <1>1, <2>2
  <2>4. f = s <=> \A i \in 1..Len(s) : s[i] = t[i]
    BY <2>2, <2>3, SeqEqual
  <2>5. QED
    BY <2>4 DEF f
<1>3. QED
  BY <1>1, <1>2 DEF IsPrefix

\* That fact for strings.
LEMMA PrefixChars ==
  ASSUME NEW s \in Str, NEW t \in Str
  PROVE  IsPrefix(s, t) <=> Len(s) <= Len(t) /\ \A i \in 1..Len(s) : s[i] = t[i]
  BY PrefixElements DEF Str

\* A string is a prefix of another that continues it.
LEMMA PrefixRest ==
  ASSUME NEW s \in Str, NEW t \in Str
  PROVE  IsPrefix(s, t) <=> \E r \in Str : t = s \o r
<1>1. Len(s) \in Nat /\ Len(t) \in Nat
  BY DEF Str
<1>2. ASSUME IsPrefix(s, t) PROVE \E r \in Str : t = s \o r
  <2>1. Len(s) <= Len(t) /\ SubSeq(t, 1, Len(s)) = s
    BY <1>2, SubSeqFull DEF IsPrefix, Str
  <2>2. t = SubSeq(t, 1, Len(s)) \o SubSeq(t, Len(s) + 1, Len(t))
    <3>1. Len(s) \in 0..Len(t)
      BY <1>1, <2>1
    <3>2. QED
      BY <3>1, CutAt
  <2>3. SubSeq(t, Len(s) + 1, Len(t)) \in Str
    <3>1. Len(s) + 1 \in 1..(Len(t) + 1) /\ Len(t) \in ((Len(s) + 1) - 1)..Len(t)
      BY <1>1, <2>1
    <3>2. QED
      BY <3>1, SliceChars
  <2>4. QED
    BY <2>1, <2>2, <2>3
<1>3. ASSUME NEW r \in Str, t = s \o r PROVE IsPrefix(s, t)
  <2>1. Len(t) = Len(s) + Len(r) /\ Len(r) \in Nat
    BY <1>3, JoinChars DEF Str
  <2>2. \A i \in 1..Len(s) : s[i] = t[i]
    BY <1>3, JoinChars
  <2>3. QED
    BY <1>1, <2>1, <2>2, PrefixChars
<1>4. QED
  BY <1>2, <1>3

\* How three strings are put together does not depend on the order.
LEMMA JoinAgain ==
  ASSUME NEW s \in Str, NEW t \in Str, NEW u \in Str
  PROVE  (s \o t) \o u = s \o (t \o u)
  BY ConcatAssociative DEF Str

\* The empty string adds nothing.
LEMMA JoinNothing ==
  ASSUME NEW s \in Str
  PROVE  s \o <<>> = s /\ <<>> \o s = s /\ <<>> \in Str
  BY ConcatEmptySeq, EmptySeq DEF Str

\* Of two prefixes of one string, the shorter is a prefix of the longer.
LEMMA ShorterPrefix ==
  ASSUME NEW s \in Str, NEW t \in Str, NEW u \in Str,
         IsPrefix(s, u), IsPrefix(t, u), Len(s) <= Len(t)
  PROVE  IsPrefix(s, t) /\ (Len(s) = Len(t) => s = t)
<1>1. Len(s) \in Nat /\ Len(t) \in Nat
  BY DEF Str
<1>2. /\ \A i \in 1..Len(s) : s[i] = u[i]
      /\ \A i \in 1..Len(t) : t[i] = u[i]
  BY PrefixChars
<1>3. \A i \in 1..Len(s) : s[i] = t[i]
  BY <1>1, <1>2
<1>4. QED
  BY <1>3, PrefixChars, SameChars

-----------------------------------------------------------------------------
(* Slashes at the ends of a string *)

\* The empty string is the one without characters.
LEMMA NonEmpty ==
  ASSUME NEW t \in Str
  PROVE  /\ Len(t) \in Nat /\ DOMAIN t = 1..Len(t)
         /\ t = <<>> <=> Len(t) = 0
  BY EmptySeq DEF Str

\* The slash is a string of one character.
LEMMA SlashChar == Slash \in Str /\ Len(Slash) = 1 /\ Slash[1] = "/"
<1>1. PICK c \in Chars : c = "/"
  BY RoutingAssumption DEF RoutingAssumption
<1>2. <<c>> \in Seq(Chars) /\ Len(<<c>>) = 1 /\ <<c>>[1] = c
  OBVIOUS
<1>3. QED
  BY <1>1, <1>2 DEF Slash, Str

\* A rooted string is one whose first character is a slash.
LEMMA RootedChars ==
  ASSUME NEW t \in Str
  PROVE  /\ Rooted(t) <=> t # <<>> /\ t[1] = "/"
         /\ Rooted(t) => \E r \in Str : t = Slash \o r
<1>1. Len(t) \in Nat /\ (t = <<>> <=> Len(t) = 0)
  BY NonEmpty
<1>2. Rooted(t) <=> Len(Slash) <= Len(t) /\ \A i \in 1..Len(Slash) : Slash[i] = t[i]
  BY SlashChar, PrefixChars DEF Rooted
<1>3. (\A i \in 1..Len(Slash) : Slash[i] = t[i]) <=> t[1] = "/"
  BY SlashChar
<1>4. Rooted(t) => \E r \in Str : t = Slash \o r
  BY SlashChar, PrefixRest DEF Rooted
<1>5. QED
  BY <1>1, <1>2, <1>3, <1>4, SlashChar

\* What follows a rooted string leaves it rooted.
LEMMA RootedJoin ==
  ASSUME NEW s \in Str, NEW t \in Str
  PROVE  /\ Rooted(s) => Rooted(s \o t)
         /\ s = <<>> => s \o t = t
<1>1. ASSUME Rooted(s) PROVE Rooted(s \o t)
  <2>1. s # <<>> /\ s[1] = "/"
    BY <1>1, RootedChars
  <2>2. Len(s) \in Nat /\ Len(t) \in Nat /\ Len(s) # 0 /\ s \o t \in Str
    BY <2>1, NonEmpty, JoinChars
  <2>3. (s \o t)[1] = "/" /\ Len(s \o t) # 0
    BY <2>1, <2>2, JoinChars
  <2>4. QED
    BY <2>2, <2>3, NonEmpty, RootedChars
<1>2. QED
  BY <1>1, JoinNothing

\* A string that ends in a slash is its front and a slash.
LEMMA EndChars ==
  ASSUME NEW t \in Str, HasSlash(t)
  PROVE  Front(t) \in Str /\ t = Front(t) \o Slash
<1>1. Len(t) \in Nat /\ Len(t) # 0 /\ t[Len(t)] = "/"
  BY NonEmpty DEF HasSlash, Last
<1>2. PICK n \in Nat : n = Len(t) - 1
  BY <1>1
<1>3. 1 \in 1..(Len(t) + 1) /\ n \in 0..Len(t) /\ n \in (1 - 1)..Len(t)
  BY <1>1, <1>2
<1>4. SubSeq(t, 1, n) \in Str
  BY <1>3, SliceChars
<1>5. SubSeq(t, n + 1, Len(t)) = Slash
  <2>1. n + 1 = Len(t)
    BY <1>1, <1>2
  <2>2. Len(t) \in 1..(Len(t) + 1) /\ Len(t) \in (Len(t) - 1)..Len(t)
    BY <1>1
  <2>3. /\ SubSeq(t, Len(t), Len(t)) \in Str
        /\ Len(SubSeq(t, Len(t), Len(t))) = Len(t) - Len(t) + 1
        /\ \A i \in 1..(Len(t) - Len(t) + 1) : SubSeq(t, Len(t), Len(t))[i] = t[Len(t) + i - 1]
    BY <2>2, SliceChars
  <2> DEFINE f == SubSeq(t, Len(t), Len(t))
  <2> HIDE DEF f
  <2>4. f \in Str /\ Len(f) = 1 /\ f[1] = "/"
    BY <1>1, <2>3 DEF f
  <2>5. f = Slash
    <3>1. Len(f) = Len(Slash) /\ \A i \in 1..Len(f) : f[i] = Slash[i]
      BY <2>4, SlashChar
    <3>2. QED
      BY <2>4, <3>1, SlashChar, SameChars
  <2>6. QED
    BY <2>1, <2>5 DEF f
<1>6. t = SubSeq(t, 1, n) \o SubSeq(t, n + 1, Len(t))
  BY <1>3, CutAt
<1>7. QED
  BY <1>2, <1>4, <1>5, <1>6 DEF Front

\* A string with a slash added ends in it, and has the string as its front.
LEMMA EndJoin ==
  ASSUME NEW s \in Str
  PROVE  /\ s \o Slash \in Str /\ Len(s \o Slash) = Len(s) + 1
         /\ HasSlash(s \o Slash) /\ Front(s \o Slash) = s
<1> DEFINE j == s \o Slash
<1>1. Len(s) \in Nat /\ j \in Str /\ Len(j) = Len(s) + 1 /\ j[Len(s) + 1] = "/"
  <2>1. /\ j \in Str /\ Len(j) = Len(s) + Len(Slash)
        /\ \A i \in 1..Len(Slash) : j[Len(s) + i] = Slash[i]
    BY SlashChar, JoinChars
  <2> HIDE DEF j
  <2>2. QED
    BY <2>1, SlashChar, NonEmpty
<1>2. SubSeq(j, 1, Len(s)) = s
  BY SlashChar, FrontOfJoin
<1> HIDE DEF j
<1>3. Len(j) - 1 = Len(s) /\ Len(j) # 0
  BY <1>1
<1>4. HasSlash(j)
  BY <1>1, <1>3, NonEmpty DEF HasSlash, Last
<1>5. Front(j) = s
  BY <1>2, <1>3 DEF Front
<1>6. QED
  BY <1>1, <1>4, <1>5 DEF j

\* A string ends as its last part does.
LEMMA EndOfJoin ==
  ASSUME NEW s \in Str, NEW t \in Str
  PROVE  /\ t # <<>> => (HasSlash(s \o t) <=> HasSlash(t))
         /\ ~HasSlash(s) /\ ~HasSlash(t) => ~HasSlash(s \o t)
<1>1. Len(s) \in Nat /\ Len(t) \in Nat /\ s \o t \in Str /\ Len(s \o t) = Len(s) + Len(t)
  BY JoinChars, NonEmpty
<1>2. ASSUME t # <<>> PROVE HasSlash(s \o t) <=> HasSlash(t)
  <2>1. Len(t) # 0 /\ Len(s \o t) # 0 /\ Len(t) \in 1..Len(t)
    BY <1>1, <1>2, NonEmpty
  <2>2. (s \o t)[Len(s \o t)] = t[Len(t)]
    BY <1>1, <2>1, JoinChars
  <2>3. s \o t # <<>>
    BY <1>1, <2>1, NonEmpty
  <2>4. QED
    BY <1>2, <2>2, <2>3 DEF HasSlash, Last
<1>3. t = <<>> => s \o t = s
  BY JoinNothing
<1>4. QED
  BY <1>2, <1>3

\* Max is the member no other exceeds.
LEMMA MaxIs ==
  ASSUME NEW S \in SUBSET Nat, NEW m \in S, \A n \in S : n <= m
  PROVE  Max(S) = m
<1>1. \A y \in S : m >= y
  OBVIOUS
<1>2. Max(S) \in S /\ \A y \in S : Max(S) >= y
  BY <1>1 DEF Max
<1>3. Max(S) >= m /\ m >= Max(S) /\ Max(S) \in Nat /\ m \in Nat
  BY <1>1, <1>2
<1>4. QED
  BY <1>3

\* What strings.TrimRight(text, "/") leaves ends in no slash, and what it takes
\* is slashes.
LEMMA Trimmed ==
  ASSUME NEW t \in Str
  PROVE  /\ TrimSlashes(t) \in Str /\ ~HasSlash(TrimSlashes(t))
         /\ \E rest \in Str : AllSlashes(rest) /\ t = TrimSlashes(t) \o rest
<1> DEFINE S == {0} \cup {i \in 1..Len(t) : t[i] # "/"}
<1>1. Len(t) \in Nat
  BY NonEmpty
<1>2. PICK m \in S : \A n \in S : n <= m
  <2>1. S \in SUBSET (0..Len(t)) /\ S # {}
    BY <1>1
  <2>2. QED
    BY <1>1, <2>1, LargestUpTo
<1>3. TrimSlashes(t) = SubSeq(t, 1, m)
  <2>1. S \in SUBSET Nat
    BY <1>1
  <2>2. Max(S) = m
    BY <1>2, <2>1, MaxIs
  <2>3. QED
    BY <2>2 DEF TrimSlashes
<1>4. m \in 0..Len(t) /\ m \in Nat /\ (m # 0 => t[m] # "/") /\ \A n \in (m + 1)..Len(t) : t[n] = "/"
  <2>1. m \in 0..Len(t) /\ (m # 0 => t[m] # "/")
    BY <1>1
  <2>2. ASSUME NEW n \in (m + 1)..Len(t) PROVE t[n] = "/"
    <3>1. n \in 1..Len(t) /\ ~(n <= m)
      BY <1>1, <2>1
    <3>2. QED
      BY <1>2, <3>1
  <2>3. QED
    BY <1>1, <2>1, <2>2
<1> HIDE DEF S
<1> DEFINE f == SubSeq(t, 1, m)
           e == SubSeq(t, m + 1, Len(t))
<1>5. f \in Str /\ ~HasSlash(f)
  <2>1. 1 \in 1..(Len(t) + 1) /\ m \in (1 - 1)..Len(t)
    BY <1>1, <1>4
  <2>2. f \in Str /\ Len(f) = m - 1 + 1 /\ \A n \in 1..(m - 1 + 1) : f[n] = t[1 + n - 1]
    BY <2>1, SliceChars
  <2> HIDE DEF f
  <2>3. Len(f) = m /\ (m # 0 => f[m] = t[m])
    BY <1>4, <2>2
  <2>4. QED
    BY <1>4, <2>2, <2>3, NonEmpty DEF HasSlash, Last
<1>6. e \in Str /\ AllSlashes(e)
  <2>1. PICK a \in Nat : a = m + 1
    BY <1>4
  <2>2. a \in 1..(Len(t) + 1) /\ Len(t) \in (a - 1)..Len(t)
    BY <1>1, <1>4, <2>1
  <2>3. /\ SubSeq(t, a, Len(t)) \in Str /\ Len(SubSeq(t, a, Len(t))) = Len(t) - a + 1
        /\ \A n \in 1..(Len(t) - a + 1) : SubSeq(t, a, Len(t))[n] = t[a + n - 1]
    BY <2>2, SliceChars
  <2> HIDE DEF e
  <2>4. e \in Str /\ Len(e) = Len(t) - a + 1 /\ \A n \in 1..(Len(t) - a + 1) : e[n] = t[a + n - 1]
    BY <2>1, <2>3 DEF e
  <2>5. \A n \in 1..Len(e) : a + n - 1 \in (m + 1)..Len(t)
    BY <1>1, <1>4, <2>1, <2>4
  <2>6. \A n \in 1..Len(e) : e[n] = "/"
    BY <1>4, <2>4, <2>5
  <2>7. QED
    BY <2>4, <2>6, NonEmpty DEF AllSlashes
<1>7. t = f \o e
  BY <1>4, CutAt
<1>8. QED
  BY <1>3, <1>5, <1>6, <1>7

\* There is one way to part a string like that.
LEMMA TrimmedIs ==
  ASSUME NEW s \in Str, NEW rest \in Str, ~HasSlash(s), AllSlashes(rest)
  PROVE  TrimSlashes(s \o rest) = s
<1> DEFINE t == s \o rest
           S == {0} \cup {i \in 1..Len(t) : t[i] # "/"}
<1>1. Len(s) \in Nat /\ Len(rest) \in Nat /\ t \in Str /\ Len(t) = Len(s) + Len(rest)
  BY JoinChars, NonEmpty
<1>2. Len(s) \in S
  <2>1. CASE Len(s) = 0
    BY <2>1
  <2>2. CASE Len(s) # 0
    <3>1. s[Len(s)] # "/" /\ Len(s) \in 1..Len(s)
      BY <1>1, <2>2, NonEmpty DEF HasSlash, Last
    <3>2. t[Len(s)] # "/"
      BY <3>1, JoinChars
    <3>3. Len(s) \in 1..Len(t)
      BY <1>1, <2>2
    <3> HIDE DEF t
    <3>4. QED
      BY <3>2, <3>3
  <2>3. QED
    BY <2>1, <2>2
<1>3. ASSUME NEW n \in S PROVE n <= Len(s)
  <2>1. SUFFICES ASSUME n > Len(s) PROVE FALSE
    BY <1>1
  <2>2. n \in 1..Len(t) /\ t[n] # "/"
    BY <1>1, <2>1
  <2>3. PICK k \in 1..Len(rest) : n = Len(s) + k
    <3>1. n - Len(s) \in 1..Len(rest) /\ n = Len(s) + (n - Len(s))
      BY <1>1, <2>1, <2>2
    <3>2. QED
      BY <3>1
  <2>4. t[n] = rest[k]
    BY <2>3, JoinChars
  <2>5. rest[k] = "/"
    BY NonEmpty DEF AllSlashes
  <2>6. QED
    BY <2>2, <2>4, <2>5
<1>4. S \in SUBSET Nat
  BY <1>1
<1>5. Max(S) = Len(s)
  <2> HIDE DEF S
  <2>1. QED
    BY <1>2, <1>3, <1>4, MaxIs
<1>6. TrimSlashes(t) = SubSeq(t, 1, Len(s))
  BY <1>5 DEF TrimSlashes
<1>7. QED
  BY <1>6, FrontOfJoin

-----------------------------------------------------------------------------
(* The slashes of a string, counted from its beginning *)

\* Slashes are counted by naturals.
LEMMA CountedSlashes ==
  ASSUME NEW t \in Str, NEW i \in Nat
  PROVE  /\ IsFiniteSet({j \in 1..i : t[j] = "/"})
         /\ SlashesUpTo(t, i) \in Nat
<1>1. IsFiniteSet(1..i)
  BY FS_Interval
<1>2. {j \in 1..i : t[j] = "/"} \in SUBSET (1..i)
  OBVIOUS
<1>3. IsFiniteSet({j \in 1..i : t[j] = "/"})
  BY <1>1, <1>2, FS_Subset
<1>4. QED
  BY <1>3, FS_CardinalityType DEF SlashesUpTo

\* One character further there is one slash more exactly if it is a slash.
LEMMA OneMore ==
  ASSUME NEW t \in Str, NEW i \in Nat \ {0}
  PROVE  SlashesUpTo(t, i) = SlashesUpTo(t, i - 1) + (IF t[i] = "/" THEN 1 ELSE 0)
<1> DEFINE S == {j \in 1..i : t[j] = "/"}
           B == {j \in 1..(i - 1) : t[j] = "/"}
<1>1. i - 1 \in Nat
  OBVIOUS
<1>2. IsFiniteSet(B) /\ SlashesUpTo(t, i - 1) = Cardinality(B) /\ Cardinality(B) \in Nat
  BY <1>1, CountedSlashes DEF SlashesUpTo
<1>3. SlashesUpTo(t, i) = Cardinality(S)
  BY DEF SlashesUpTo
<1>4. i \notin B
  OBVIOUS
<1>5. CASE t[i] = "/"
  <2>1. S = B \cup {i}
    BY <1>5
  <2>2. Cardinality(B \cup {i}) = Cardinality(B) + 1
    <3> HIDE DEF B
    <3>1. QED
      BY <1>2, <1>4, FS_AddElement
  <2>3. QED
    BY <1>2, <1>3, <1>5, <2>1, <2>2
<1>6. CASE t[i] # "/"
  <2>1. S = B
    BY <1>6
  <2>2. QED
    BY <1>2, <1>3, <1>6, <2>1
<1>7. QED
  BY <1>5, <1>6

\* Before the first character there is no slash.
LEMMA NoneAtFirst ==
  ASSUME NEW t \in Str
  PROVE  SlashesUpTo(t, 0) = 0
<1>1. {j \in 1..0 : t[j] = "/"} = {}
  OBVIOUS
<1>2. QED
  BY <1>1, FS_EmptySet DEF SlashesUpTo

\* Further on there are no fewer slashes.
LEMMA NeverFewer ==
  ASSUME NEW t \in Str, NEW i \in Nat, NEW j \in Nat, i <= j
  PROVE  SlashesUpTo(t, i) <= SlashesUpTo(t, j)
<1> DEFINE B == {k \in 1..i : t[k] = "/"}
           S == {k \in 1..j : t[k] = "/"}
<1>1. IsFiniteSet(S)
  BY CountedSlashes
<1>2. B \in SUBSET S
  OBVIOUS
<1>3. Cardinality(B) <= Cardinality(S)
  <2> HIDE DEF B, S
  <2>1. QED
    BY <1>1, <1>2, FS_Subset
<1>4. QED
  BY <1>3 DEF SlashesUpTo

\* The slashes up to a place are those of the string up to there.
LEMMA SameFrontSameCount ==
  ASSUME NEW s \in Str, NEW t \in Str, NEW i \in Nat, \A j \in 1..i : s[j] = t[j]
  PROVE  SlashesUpTo(s, i) = SlashesUpTo(t, i)
<1>1. {j \in 1..i : s[j] = "/"} = {j \in 1..i : t[j] = "/"}
  OBVIOUS
<1>2. QED
  BY <1>1 DEF SlashesUpTo

\* A slash is told from others by its count.
LEMMA OneIsTheKth ==
  ASSUME NEW t \in Str, NEW i \in 1..Len(t), NEW j \in 1..Len(t),
         t[i] = "/", t[j] = "/", SlashesUpTo(t, i) = SlashesUpTo(t, j)
  PROVE  i = j
<1> Len(t) \in Nat
  BY NonEmpty
<1>1. ASSUME NEW a \in 1..Len(t), NEW b \in 1..Len(t), a < b, t[b] = "/"
      PROVE  SlashesUpTo(t, a) < SlashesUpTo(t, b)
  <2>1. a \in Nat /\ b \in Nat \ {0} /\ b - 1 \in Nat /\ a <= b - 1
    BY <1>1
  <2>2. SlashesUpTo(t, b) = SlashesUpTo(t, b - 1) + 1
    BY <1>1, <2>1, OneMore
  <2>3. SlashesUpTo(t, a) <= SlashesUpTo(t, b - 1)
    BY <2>1, NeverFewer
  <2>4. SlashesUpTo(t, a) \in Nat /\ SlashesUpTo(t, b - 1) \in Nat
    BY <2>1, CountedSlashes
  <2>5. QED
    BY <2>2, <2>3, <2>4
<1>2. i \in Nat /\ j \in Nat
  OBVIOUS
<1> DEFINE c == SlashesUpTo(t, i)
<1>3. c \in Nat
  BY <1>2, CountedSlashes
<1>4. ~(i < j) /\ ~(j < i)
  <2>1. i < j => c < c
    BY <1>1
  <2>2. j < i => c < c
    BY <1>1
  <2> HIDE DEF c
  <2>3. QED
    BY <1>3, <2>1, <2>2
<1>5. QED
  BY <1>2, <1>4

\* For each number up to the count there is one slash, and SlashAt finds it.
LEMMA KthSlash ==
  ASSUME NEW t \in Str, NEW k \in 1..SlashesUpTo(t, Len(t))
  PROVE  /\ SlashAt(t, k) \in 1..Len(t)
         /\ t[SlashAt(t, k)] = "/" /\ SlashesUpTo(t, SlashAt(t, k)) = k
         /\ \A i \in 1..Len(t) : t[i] = "/" /\ SlashesUpTo(t, i) = k => i = SlashAt(t, k)
<1> DEFINE S == {i \in 0..Len(t) : k <= SlashesUpTo(t, i)}
<1>1. Len(t) \in Nat /\ DOMAIN t = 1..Len(t) /\ SlashesUpTo(t, Len(t)) \in Nat /\ k \in Nat /\ k >= 1
  <2>1. Len(t) \in Nat /\ DOMAIN t = 1..Len(t)
    BY NonEmpty
  <2>2. SlashesUpTo(t, Len(t)) \in Nat
    BY <2>1, CountedSlashes
  <2>3. QED
    BY <2>1, <2>2
<1>2. S \in SUBSET Nat /\ Len(t) \in S
  BY <1>1
<1>3. PICK m \in S : \A n \in S : m <= n
  <2> HIDE DEF S
  <2>1. QED
    BY <1>2, Smallest
<1>4. m \in 0..Len(t) /\ k <= SlashesUpTo(t, m) /\ m # 0
  BY <1>1, NoneAtFirst
<1>5. m \in Nat \ {0} /\ m - 1 \in Nat /\ m \in 1..Len(t) /\ m - 1 \in 0..Len(t)
  BY <1>1, <1>4
<1>6. SlashesUpTo(t, m - 1) < k
  <2>1. m - 1 \notin S
    BY <1>3, <1>5
  <2>2. SlashesUpTo(t, m - 1) \in Nat
    BY <1>5, CountedSlashes
  <2>3. QED
    BY <1>1, <1>5, <2>1, <2>2
<1>7. SlashesUpTo(t, m) = SlashesUpTo(t, m - 1) + (IF t[m] = "/" THEN 1 ELSE 0)
  BY <1>5, OneMore
<1>8. t[m] = "/" /\ SlashesUpTo(t, m) = k
  <2>1. SlashesUpTo(t, m - 1) \in Nat /\ SlashesUpTo(t, m) \in Nat
    BY <1>5, CountedSlashes
  <2> HIDE DEF S
  <2>2. QED
    BY <1>1, <1>4, <1>6, <1>7, <2>1
<1>9. /\ SlashAt(t, k) \in DOMAIN t
      /\ t[SlashAt(t, k)] = "/" /\ SlashesUpTo(t, SlashAt(t, k)) = k
  BY <1>1, <1>5, <1>8 DEF SlashAt
<1>10. QED
  BY <1>1, <1>9, OneIsTheKth

-----------------------------------------------------------------------------
(* Segments *)

\* A text of the kind that has segments.
Enclosed(t) == t \in Str /\ Rooted(t) /\ HasSlash(t)

NumSlashes(t) == SlashesUpTo(t, Len(t))

\* The first and the last slash of a string enclosed by slashes.
LEMMA EnclosedSlashes ==
  ASSUME NEW t, Enclosed(t)
  PROVE  /\ t \in Str /\ Len(t) \in Nat \ {0} /\ t[1] = "/" /\ t[Len(t)] = "/"
         /\ NumSlashes(t) \in Nat \ {0}
         /\ SlashAt(t, 1) = 1 /\ SlashAt(t, NumSlashes(t)) = Len(t)
<1>1. t \in Str /\ t # <<>> /\ t[1] = "/" /\ t[Len(t)] = "/"
  BY RootedChars DEF Enclosed, HasSlash, Last
<1>2. Len(t) \in Nat \ {0} /\ 1 \in 1..Len(t) /\ Len(t) \in 1..Len(t)
  BY <1>1, NonEmpty
<1>3. SlashesUpTo(t, 1) = 1
  <2>1. 1 \in Nat \ {0} /\ 1 - 1 = 0
    OBVIOUS
  <2>2. SlashesUpTo(t, 1) = SlashesUpTo(t, 1 - 1) + (IF t[1] = "/" THEN 1 ELSE 0)
    BY <1>1, <2>1, OneMore
  <2>3. QED
    BY <1>1, <2>2, NoneAtFirst
<1>4. NumSlashes(t) \in Nat /\ 1 <= NumSlashes(t)
  <2>1. SlashesUpTo(t, 1) <= SlashesUpTo(t, Len(t))
    BY <1>1, <1>2, NeverFewer
  <2>2. QED
    BY <1>1, <1>2, <1>3, <2>1, CountedSlashes DEF NumSlashes
<1>5. 1 = SlashAt(t, 1)
  BY <1>1, <1>2, <1>3, <1>4, KthSlash DEF NumSlashes
<1>6. Len(t) = SlashAt(t, NumSlashes(t))
  <2>1. NumSlashes(t) \in 1..NumSlashes(t)
    BY <1>4
  <2>2. QED
    BY <1>1, <1>2, <2>1, KthSlash DEF NumSlashes
<1>7. QED
  BY <1>1, <1>2, <1>4, <1>5, <1>6

\* The next slash is further on.
LEMMA NextSlash ==
  ASSUME NEW t \in Str, NEW k \in 1..(NumSlashes(t) - 1)
  PROVE  /\ k \in 1..NumSlashes(t) /\ k + 1 \in 1..NumSlashes(t)
         /\ SlashAt(t, k) \in 1..Len(t) /\ SlashAt(t, k + 1) \in 1..Len(t)
         /\ SlashAt(t, k) < SlashAt(t, k + 1)
<1>1. Len(t) \in Nat /\ NumSlashes(t) \in Nat
  BY NonEmpty, CountedSlashes DEF NumSlashes
<1>2. k \in 1..NumSlashes(t) /\ k + 1 \in 1..NumSlashes(t)
  BY <1>1
<1>3. /\ SlashAt(t, k) \in 1..Len(t) /\ SlashesUpTo(t, SlashAt(t, k)) = k
      /\ SlashAt(t, k + 1) \in 1..Len(t) /\ SlashesUpTo(t, SlashAt(t, k + 1)) = k + 1
  <2>1. \A n \in 1..NumSlashes(t) :
           SlashAt(t, n) \in 1..Len(t) /\ SlashesUpTo(t, SlashAt(t, n)) = n
    BY KthSlash DEF NumSlashes
  <2>2. QED
    BY <1>2, <2>1
<1>4. ~(SlashAt(t, k + 1) <= SlashAt(t, k))
  <2>1. SUFFICES ASSUME SlashAt(t, k + 1) <= SlashAt(t, k) PROVE FALSE
    OBVIOUS
  <2>2. SlashesUpTo(t, SlashAt(t, k + 1)) <= SlashesUpTo(t, SlashAt(t, k))
    <3>1. SlashAt(t, k + 1) \in Nat /\ SlashAt(t, k) \in Nat
      BY <1>1, <1>3
    <3>2. QED
      BY <2>1, <3>1, NeverFewer
  <2>3. QED
    BY <1>1, <1>2, <1>3, <2>2
<1>5. QED
  BY <1>1, <1>2, <1>3, <1>4

\* A segment is the slice between its two slashes.
LEMMA SegmentAt ==
  ASSUME NEW t, Enclosed(t)
  PROVE  /\ Segments(t) \in Seq(Str)
         /\ Len(Segments(t)) = NumSlashes(t) - 1
         /\ \A k \in 1..(NumSlashes(t) - 1) :
               Segments(t)[k] = SubSeq(t, SlashAt(t, k) + 1, SlashAt(t, k + 1) - 1)
<1>1. t \in Str /\ NumSlashes(t) \in Nat \ {0} /\ Len(t) \in Nat
  BY EnclosedSlashes
<1>2. PICK n \in Nat : n = NumSlashes(t) - 1
  BY <1>1
<1>3. Segments(t) = [k \in 1..n |-> SubSeq(t, SlashAt(t, k) + 1, SlashAt(t, k + 1) - 1)]
  BY <1>2 DEF Segments, NumSlashes
<1>4. ASSUME NEW k \in 1..n
      PROVE  SubSeq(t, SlashAt(t, k) + 1, SlashAt(t, k + 1) - 1) \in Str
  <2>1. PICK a \in 1..Len(t), b \in 1..Len(t) : a = SlashAt(t, k) /\ b = SlashAt(t, k + 1) /\ a < b
    BY <1>1, <1>2, NextSlash
  <2>2. PICK i \in Nat, j \in Nat : i = a + 1 /\ j = b - 1
    BY <1>1
  <2>3. i \in 1..(Len(t) + 1) /\ j \in (i - 1)..Len(t)
    BY <1>1, <2>1, <2>2
  <2>4. SubSeq(t, i, j) \in Str
    BY <1>1, <2>3, SliceChars
  <2>5. QED
    BY <2>1, <2>2, <2>4
<1>5. Segments(t) \in [1..n -> Str]
  BY <1>3, <1>4
<1>6. Segments(t) \in Seq(Str)
  BY <1>5, SeqDef
<1>7. DOMAIN Segments(t) = 1..Len(Segments(t)) /\ Len(Segments(t)) \in Nat
  BY <1>6, LenProperties
<1>8. Len(Segments(t)) = n
  BY <1>5, <1>7
<1>9. QED
  BY <1>2, <1>3, <1>6, <1>8

\* What two strings have between the same two places of a common front.
LEMMA SameSlice ==
  ASSUME NEW s \in Str, NEW t \in Str, NEW a \in Nat, NEW b \in Nat,
         1 <= a, a < b, b <= Len(s), b <= Len(t), \A j \in 1..b : s[j] = t[j]
  PROVE  SubSeq(s, a + 1, b - 1) = SubSeq(t, a + 1, b - 1)
<1>1. PICK i \in Nat, n \in Nat : i = a + 1 /\ n = b - 1
  OBVIOUS
<1>2. Len(s) \in Nat /\ Len(t) \in Nat
  BY NonEmpty
<1>3. /\ i \in 1..(Len(s) + 1) /\ n \in (i - 1)..Len(s)
      /\ i \in 1..(Len(t) + 1) /\ n \in (i - 1)..Len(t)
  BY <1>1, <1>2
<1> DEFINE f == SubSeq(s, i, n)
           g == SubSeq(t, i, n)
<1>4. f \in Str /\ Len(f) = n - i + 1 /\ \A j \in 1..(n - i + 1) : f[j] = s[i + j - 1]
  BY <1>3, SliceChars
<1>5. g \in Str /\ Len(g) = n - i + 1 /\ \A j \in 1..(n - i + 1) : g[j] = t[i + j - 1]
  BY <1>3, SliceChars
<1>6. \A j \in 1..(n - i + 1) : i + j - 1 \in 1..b
  BY <1>1
<1> HIDE DEF f, g
<1>7. f = g
  BY <1>4, <1>5, <1>6, SameChars
<1>8. QED
  BY <1>1, <1>7 DEF f, g

\* A string that begins with another has its slashes, and so its segments.
LEMMA PrefixHasSegments ==
  ASSUME NEW s, NEW t, Enclosed(s), Enclosed(t), IsPrefix(s, t)
  PROVE  IsPrefix(Segments(s), Segments(t))
<1>1. /\ s \in Str /\ Len(s) \in Nat /\ NumSlashes(s) \in Nat \ {0}
      /\ t \in Str /\ Len(t) \in Nat /\ NumSlashes(t) \in Nat \ {0}
  BY EnclosedSlashes
<1>2. Len(s) <= Len(t) /\ \A i \in 1..Len(s) : s[i] = t[i]
  BY <1>1, PrefixChars
<1>3. NumSlashes(s) <= NumSlashes(t)
  <2>1. SlashesUpTo(s, Len(s)) = SlashesUpTo(t, Len(s))
    BY <1>1, <1>2, SameFrontSameCount
  <2>2. SlashesUpTo(t, Len(s)) <= SlashesUpTo(t, Len(t))
    BY <1>1, <1>2, NeverFewer
  <2>3. QED
    BY <2>1, <2>2 DEF NumSlashes
<1>4. ASSUME NEW k \in 1..NumSlashes(s)
      PROVE  SlashAt(s, k) = SlashAt(t, k) /\ SlashAt(s, k) \in 1..Len(s)
  <2>1. PICK p \in 1..Len(s) : p = SlashAt(s, k) /\ s[p] = "/" /\ SlashesUpTo(s, p) = k
    BY <1>1, KthSlash DEF NumSlashes
  <2>2. p \in Nat /\ p \in 1..Len(t) /\ \A j \in 1..p : s[j] = t[j]
    BY <1>1, <1>2
  <2>3. t[p] = "/" /\ SlashesUpTo(t, p) = k
    BY <1>1, <2>1, <2>2, SameFrontSameCount
  <2>4. k \in 1..SlashesUpTo(t, Len(t))
    BY <1>1, <1>3 DEF NumSlashes
  <2>5. p = SlashAt(t, k)
    BY <1>1, <2>2, <2>3, <2>4, KthSlash
  <2>6. QED
    BY <2>1, <2>5
<1>5. ASSUME NEW k \in 1..(NumSlashes(s) - 1)
      PROVE  Segments(s)[k] = Segments(t)[k]
  <2>1. PICK a \in 1..Len(s), b \in 1..Len(s) : a = SlashAt(s, k) /\ b = SlashAt(s, k + 1) /\ a < b
    BY <1>1, NextSlash
  <2>2. k \in 1..NumSlashes(s) /\ k + 1 \in 1..NumSlashes(s) /\ k \in 1..(NumSlashes(t) - 1)
    BY <1>1, <1>3
  <2>3. a = SlashAt(t, k) /\ b = SlashAt(t, k + 1)
    BY <1>4, <2>1, <2>2
  <2>4. SubSeq(s, a + 1, b - 1) = SubSeq(t, a + 1, b - 1)
    <3>1. /\ a \in Nat /\ b \in Nat /\ 1 <= a /\ a < b /\ b <= Len(s) /\ b <= Len(t)
          /\ s \in Str /\ t \in Str /\ \A j \in 1..b : s[j] = t[j]
      BY <1>1, <1>2, <2>1
    <3>2. QED
      BY <3>1, SameSlice
  <2>5. Segments(s)[k] = SubSeq(s, a + 1, b - 1)
    BY <2>1, SegmentAt
  <2>6. Segments(t)[k] = SubSeq(t, a + 1, b - 1)
    BY <2>2, <2>3, SegmentAt
  <2>7. QED
    BY <2>4, <2>5, <2>6
<1>6. /\ Segments(s) \in Seq(Str) /\ Len(Segments(s)) = NumSlashes(s) - 1
      /\ Segments(t) \in Seq(Str) /\ Len(Segments(t)) = NumSlashes(t) - 1
  BY SegmentAt
<1>7. QED
  BY <1>1, <1>3, <1>5, <1>6, PrefixElements

SameUpTo(s, t, n) == \A j \in 1..n : s[j] = t[j]

\* What stands between two places of a string.
Between(t, a, b) == SubSeq(t, a + 1, b - 1)

\* Strings that agree up to a place and have the same slice from there to another
\* agree on the whole way, and the slices are equally long.
LEMMA SliceTellsChars ==
  ASSUME NEW s \in Str, NEW t \in Str, NEW a \in Nat, NEW b \in Nat, NEW c \in Nat,
         a < b, b <= Len(s), a < c, c <= Len(t),
         SameUpTo(s, t, a), Between(s, a, b) = Between(t, a, c), s[b] = t[c]
  PROVE  b = c /\ SameUpTo(s, t, b)
<1>1. PICK i \in Nat, m \in Nat, n \in Nat : i = a + 1 /\ m = b - 1 /\ n = c - 1
  OBVIOUS
<1>2. /\ i \in 1..(Len(s) + 1) /\ m \in (i - 1)..Len(s)
      /\ i \in 1..(Len(t) + 1) /\ n \in (i - 1)..Len(t)
  BY <1>1, NonEmpty
<1> DEFINE f == SubSeq(s, i, m)
           g == SubSeq(t, i, n)
<1>3. Len(f) = m - i + 1 /\ \A j \in 1..(m - i + 1) : f[j] = s[i + j - 1]
  BY <1>2, SliceChars
<1>4. Len(g) = n - i + 1 /\ \A j \in 1..(n - i + 1) : g[j] = t[i + j - 1]
  BY <1>2, SliceChars
<1> HIDE DEF f, g
<1>5. ASSUME f = g PROVE b = c /\ SameUpTo(s, t, b)
  <2>1. b = c /\ m = n
    <3>1. m - i + 1 = n - i + 1
      BY <1>3, <1>4, <1>5
    <3>2. QED
      BY <1>1, <3>1
  <2>2. ASSUME NEW j \in 1..b PROVE s[j] = t[j]
    <3>1. CASE j \in 1..a
      BY <3>1 DEF SameUpTo
    <3>2. CASE j = b
      BY <2>1, <3>2
    <3>3. CASE j \notin 1..a /\ j # b
      <4>1. PICK l \in 1..(m - i + 1) : i + l - 1 = j
        <5>1. j - a \in 1..(m - i + 1) /\ i + (j - a) - 1 = j
          BY <1>1, <3>3
        <5>2. QED
          BY <5>1
      <4>2. f[l] = s[j] /\ g[l] = t[j]
        BY <1>3, <1>4, <2>1, <4>1
      <4>3. QED
        BY <1>5, <4>2
    <3>4. QED
      BY <3>1, <3>2, <3>3
  <2>3. QED
    BY <2>1, <2>2 DEF SameUpTo
<1>6. QED
  BY <1>1, <1>5 DEF f, g, Between

\* Two strings that agree up to their k-th slashes and have the same segment
\* after those agree up to the next slashes.
LEMMA NextSegmentAgrees ==
  ASSUME NEW s \in Str, NEW t \in Str,
         NEW k \in 1..(NumSlashes(s) - 1), k \in 1..(NumSlashes(t) - 1),
         NEW a \in Nat, a = SlashAt(s, k), a = SlashAt(t, k), SameUpTo(s, t, a),
         Between(s, a, SlashAt(s, k + 1)) = Between(t, a, SlashAt(t, k + 1))
  PROVE  SlashAt(s, k + 1) = SlashAt(t, k + 1) /\ SameUpTo(s, t, SlashAt(s, k + 1))
<1>1. ASSUME NEW u \in Str, NEW l \in 1..(NumSlashes(u) - 1)
      PROVE  \E b \in Nat : /\ b = SlashAt(u, l + 1) /\ SlashAt(u, l) < b /\ b <= Len(u)
                             /\ u[b] = "/"
  <2>1. /\ SlashAt(u, l + 1) \in 1..Len(u) /\ SlashAt(u, l) < SlashAt(u, l + 1)
        /\ l + 1 \in 1..NumSlashes(u)
    BY <1>1, NextSlash
  <2>2. u[SlashAt(u, l + 1)] = "/"
    BY <1>1, <2>1, KthSlash DEF NumSlashes
  <2>3. Len(u) \in Nat
    BY <1>1, NonEmpty
  <2>4. QED
    BY <2>1, <2>2, <2>3
<1>2. PICK b \in Nat : b = SlashAt(s, k + 1) /\ a < b /\ b <= Len(s) /\ s[b] = "/"
  BY <1>1
<1>3. PICK c \in Nat : c = SlashAt(t, k + 1) /\ a < c /\ c <= Len(t) /\ t[c] = "/"
  BY <1>1
<1>4. Between(s, a, b) = Between(t, a, c) /\ s[b] = t[c]
  BY <1>2, <1>3, Zenon
<1>5. b = c /\ SameUpTo(s, t, b)
  BY <1>2, <1>3, <1>4, SliceTellsChars
<1>6. QED
  BY <1>2, <1>3, <1>5, Zenon

\* And the other way round: the segments tell the string.
LEMMA SegmentsTellPrefix ==
  ASSUME NEW s, NEW t, Enclosed(s), Enclosed(t), IsPrefix(Segments(s), Segments(t))
  PROVE  IsPrefix(s, t)
<1>1. /\ s \in Str /\ Len(s) \in Nat /\ s[1] = "/" /\ NumSlashes(s) \in Nat \ {0}
      /\ SlashAt(s, 1) = 1 /\ SlashAt(s, NumSlashes(s)) = Len(s)
      /\ t \in Str /\ Len(t) \in Nat /\ t[1] = "/" /\ NumSlashes(t) \in Nat \ {0}
      /\ SlashAt(t, 1) = 1
  BY EnclosedSlashes
<1>2. /\ NumSlashes(s) <= NumSlashes(t)
      /\ \A k \in 1..(NumSlashes(s) - 1) : Segments(s)[k] = Segments(t)[k]
  <2>1. /\ Segments(s) \in Seq(Str) /\ Len(Segments(s)) = NumSlashes(s) - 1
        /\ Segments(t) \in Seq(Str) /\ Len(Segments(t)) = NumSlashes(t) - 1
    BY SegmentAt
  <2>2. Len(Segments(s)) <= Len(Segments(t)) /\ \A k \in 1..Len(Segments(s)) : Segments(s)[k] = Segments(t)[k]
    BY <2>1, PrefixElements
  <2>3. QED
    BY <1>1, <2>1, <2>2
<1> DEFINE Agree(k) == SlashAt(s, k) = SlashAt(t, k) /\ SameUpTo(s, t, SlashAt(s, k))
           Bad == {k \in 1..NumSlashes(s) : ~Agree(k)}
<1>3. Agree(1)
  BY <1>1 DEF SameUpTo
<1>4. ASSUME NEW k \in 1..(NumSlashes(s) - 1), Agree(k) PROVE Agree(k + 1)
  <2>1. k \in 1..(NumSlashes(t) - 1)
    BY <1>1, <1>2
  <2>2. PICK a \in Nat : a = SlashAt(s, k)
    BY <1>1, NextSlash
  <2>3. Segments(s)[k] = Between(s, a, SlashAt(s, k + 1))
    BY <2>2, SegmentAt DEF Between
  <2>4. Segments(t)[k] = Between(t, a, SlashAt(t, k + 1))
    BY <1>4, <2>1, <2>2, SegmentAt DEF Between
  <2>5. Segments(s)[k] = Segments(t)[k]
    BY <1>2
  <2>6. a = SlashAt(t, k) /\ SameUpTo(s, t, a)
    BY <1>4, <2>2
  <2>7. Between(s, a, SlashAt(s, k + 1)) = Between(t, a, SlashAt(t, k + 1))
    BY <2>3, <2>4, <2>5
  <2>8. SlashAt(s, k + 1) = SlashAt(t, k + 1) /\ SameUpTo(s, t, SlashAt(s, k + 1))
    <3>1. s \in Str /\ t \in Str
      BY <1>1
    <3> HIDE DEF Agree
    <3>2. QED
      BY <2>1, <2>2, <2>6, <2>7, <3>1, NextSegmentAgrees
  <2>9. QED
    BY <2>8
<1> HIDE DEF Agree
<1>5. Bad = {}
  <2>1. SUFFICES ASSUME Bad # {} PROVE FALSE
    OBVIOUS
  <2>2. PICK m \in Bad : \A n \in Bad : m <= n
    <3>1. Bad \in SUBSET Nat
      BY <1>1
    <3> HIDE DEF Bad
    <3>2. QED
      BY <2>1, <3>1, Smallest
  <2>3. m \in 1..NumSlashes(s) /\ ~Agree(m) /\ m # 1
    BY <1>3
  <2>4. m - 1 \in 1..(NumSlashes(s) - 1) /\ m - 1 \in 1..NumSlashes(s) /\ (m - 1) + 1 = m /\ ~(m <= m - 1)
    BY <1>1, <2>3
  <2>5. Agree(m - 1)
    BY <2>2, <2>4
  <2>6. QED
    BY <1>4, <2>3, <2>4, <2>5
<1>6. Agree(NumSlashes(s))
  BY <1>1, <1>5
<1>7. \A j \in 1..Len(s) : s[j] = t[j]
  BY <1>1, <1>6 DEF Agree, SameUpTo
<1>8. Len(s) <= Len(t)
  <2>1. NumSlashes(s) \in 1..SlashesUpTo(t, Len(t))
    BY <1>1, <1>2 DEF NumSlashes
  <2>2. SlashAt(t, NumSlashes(s)) \in 1..Len(t)
    BY <1>1, <2>1, KthSlash
  <2>3. QED
    BY <1>1, <1>6, <2>2 DEF Agree
<1>9. QED
  BY <1>1, <1>7, <1>8, PrefixChars

-----------------------------------------------------------------------------
(* The inductive invariant *)

\* A rule as the store has it.
GoodRule(r) ==
    /\ r \in [prefix: Str, host: Str, path: Str]
    /\ Enclosed(r.prefix)
    /\ r.host # NoHost /\ ~HasSlash(r.host)
    /\ Rooted(r.path)

GoodRules ==
    /\ rules \in Seq([prefix: Str, host: Str, path: Str])
    /\ \A i \in DOMAIN rules : GoodRule(rules[i])
    /\ \A i, j \in DOMAIN rules : rules[i].prefix = rules[j].prefix => i = j

\* The rule the scan of matchRule comes to first.
FirstToServe(i, p) ==
    /\ i \in DOMAIN rules
    /\ Serves(rules[i], p)
    /\ \A j \in DOMAIN rules \ {i} : Serves(rules[j], p) => ScannedBefore(i, j)

\* What the client got is upstream's Location as the proxy rewrote it.
Answered ==
    /\ hit # 0
    /\ location \in Locations
    /\ answer = RewriteLocation(rules[hit], location)

\* The path a client asks for that follows a Location.
Followed(loc) == IF loc.path = <<>> THEN Slash ELSE loc.path

RouteInv ==
    /\ GoodRules
    /\ path \in Str /\ Rooted(path)
    /\ at \in {"client", "upstream", "redirected", "nobody"}
    /\ hit = 0 \/ hit \in DOMAIN rules
    /\ at = "upstream" => FirstToServe(hit, path) /\ url = BuildTargetURL(rules[hit], path)
    /\ at = "nobody" => \A i \in DOMAIN rules : ~Serves(rules[i], path)
    /\ at = "redirected" => Answered
    /\ at = "client" /\ hit # 0 =>
          Answered /\ answer.host = NoHost /\ path = Followed(answer)

-----------------------------------------------------------------------------
(* matchRule *)

\* The two comparisons of matchRule are one: with a slash at its end the path
\* begins with the prefix.
LEMMA ServesIsPrefix ==
  ASSUME NEW r, Enclosed(r.prefix), NEW p \in Str, Rooted(p)
  PROVE  Serves(r, p) <=> IsPrefix(r.prefix, p \o Slash)
<1> DEFINE q == p \o Slash
<1>1. /\ r.prefix \in Str /\ Len(r.prefix) \in Nat \ {0} /\ HasSlash(r.prefix)
      /\ r.prefix[Len(r.prefix)] = "/"
  BY EnclosedSlashes DEF Enclosed
<1>2. /\ q \in Str /\ Len(p) \in Nat /\ Len(q) = Len(p) + 1
      /\ \A i \in 1..Len(p) : q[i] = p[i]
  BY SlashChar, EndJoin, JoinChars, NonEmpty
<1>3. r.prefix = Front(r.prefix) \o Slash /\ Front(r.prefix) \in Str
  BY <1>1, EndChars
<1>4. TrimSlash(r.prefix) = Front(r.prefix)
  BY <1>1 DEF TrimSlash
<1> HIDE DEF q
<1>5. ASSUME IsPrefix(r.prefix, p) PROVE IsPrefix(r.prefix, q)
  <2>1. Len(r.prefix) <= Len(p) /\ \A i \in 1..Len(r.prefix) : r.prefix[i] = p[i]
    BY <1>1, <1>5, PrefixChars
  <2>2. Len(r.prefix) <= Len(q) /\ \A i \in 1..Len(r.prefix) : r.prefix[i] = q[i]
    BY <1>1, <1>2, <2>1
  <2>3. QED
    BY <1>1, <1>2, <2>2, PrefixChars
<1>6. ASSUME p = TrimSlash(r.prefix) PROVE IsPrefix(r.prefix, q)
  <2>1. r.prefix = q
    BY <1>3, <1>4, <1>6 DEF q
  <2>2. QED
    BY <1>1, <2>1, PrefixChars
<1>7. ASSUME IsPrefix(r.prefix, q) PROVE Serves(r, p)
  <2>1. Len(r.prefix) <= Len(q) /\ \A i \in 1..Len(r.prefix) : r.prefix[i] = q[i]
    BY <1>1, <1>2, <1>7, PrefixChars
  <2>2. CASE Len(r.prefix) <= Len(p)
    <3>1. \A i \in 1..Len(r.prefix) : r.prefix[i] = p[i]
      BY <1>1, <1>2, <2>1, <2>2
    <3>2. IsPrefix(r.prefix, p)
      BY <1>1, <2>2, <3>1, PrefixChars
    <3>3. QED
      BY <3>2 DEF Serves
  <2>3. CASE Len(r.prefix) = Len(q)
    <3>1. r.prefix = q
      BY <1>1, <1>2, <2>1, <2>3, SameChars
    <3>2. Front(r.prefix) = p
      BY <3>1, EndJoin DEF q
    <3>3. p # <<>>
      BY RootedChars
    <3>4. QED
      BY <1>4, <3>2, <3>3 DEF Serves
  <2>4. QED
    BY <1>1, <1>2, <2>1, <2>2, <2>3
<1>8. QED
  BY <1>5, <1>6, <1>7 DEF Serves, q

\* A path with a slash added is enclosed by slashes, as a prefix is.
LEMMA AskedPathIsEnclosed ==
  ASSUME NEW p \in Str, Rooted(p)
  PROVE  Enclosed(p \o Slash)
  BY EndJoin, RootedJoin, SlashChar DEF Enclosed

\* So to compare characters is to compare segments.
LEMMA ServesIsCovers ==
  ASSUME NEW r, Enclosed(r.prefix), NEW p \in Str, Rooted(p)
  PROVE  Serves(r, p) <=> Covers(r, p)
<1>1. PICK q : q = p \o Slash
  OBVIOUS
<1>2. Enclosed(q)
  BY <1>1, AskedPathIsEnclosed
<1>3. IsPrefix(r.prefix, q) <=> IsPrefix(Segments(r.prefix), Segments(q))
  BY <1>2, PrefixHasSegments, SegmentsTellPrefix
<1>4. QED
  BY <1>1, <1>3, ServesIsPrefix DEF Covers

\* Of the rules that serve a path, prefixes of the same length are the same
\* prefix, and a longer one has no fewer segments.
LEMMA LongerHasMoreSegments ==
  ASSUME NEW r, Enclosed(r.prefix), NEW o, Enclosed(o.prefix), NEW p \in Str, Rooted(p),
         Serves(r, p), Serves(o, p), Len(o.prefix) <= Len(r.prefix)
  PROVE  /\ Len(Segments(o.prefix)) <= Len(Segments(r.prefix))
         /\ Len(o.prefix) = Len(r.prefix) => o.prefix = r.prefix
<1>1. PICK q : q = p \o Slash
  OBVIOUS
<1>2. q \in Str /\ r.prefix \in Str /\ o.prefix \in Str
  BY <1>1, EndJoin DEF Enclosed
<1>3. IsPrefix(r.prefix, q) /\ IsPrefix(o.prefix, q)
  BY <1>1, ServesIsPrefix
<1>4. IsPrefix(o.prefix, r.prefix) /\ (Len(o.prefix) = Len(r.prefix) => o.prefix = r.prefix)
  BY <1>2, <1>3, ShorterPrefix
<1>5. IsPrefix(Segments(o.prefix), Segments(r.prefix))
  BY <1>4, PrefixHasSegments
<1>6. QED
  BY <1>4, <1>5 DEF IsPrefix

\* A rule is scanned before all others that serve a path.
LEMMA SomeRuleIsFirst ==
  ASSUME GoodRules, NEW p \in Str, Rooted(p), NEW k \in DOMAIN rules, Serves(rules[k], p)
  PROVE  \E i \in DOMAIN rules : FirstToServe(i, p)
<1> DEFINE S == {i \in DOMAIN rules : Serves(rules[i], p)}
           Lengths == {Len(rules[i].prefix) : i \in S}
<1>1. DOMAIN rules = 1..Len(rules) /\ Len(rules) \in Nat
  BY LenProperties DEF GoodRules
<1>2. Len(p) \in Nat
  BY NonEmpty
<1>3. ASSUME NEW i \in S PROVE Len(rules[i].prefix) \in 0..(Len(p) + 1)
  <2>1. Enclosed(rules[i].prefix)
    BY DEF GoodRules, GoodRule
  <2>2. IsPrefix(rules[i].prefix, p \o Slash)
    BY <2>1, ServesIsPrefix
  <2>3. Len(rules[i].prefix) <= Len(p \o Slash)
    BY <2>2 DEF IsPrefix
  <2>4. Len(p \o Slash) = Len(p) + 1 /\ Len(rules[i].prefix) \in Nat
    BY <2>1, EndJoin, EnclosedSlashes
  <2>5. QED
    BY <1>2, <2>3, <2>4
<1>4. PICK m \in Lengths : \A n \in Lengths : n <= m
  <2>1. Lengths \in SUBSET (0..(Len(p) + 1)) /\ Lengths # {}
    BY <1>3
  <2>2. PICK bound \in Nat : bound = Len(p) + 1
    BY <1>2
  <2> HIDE DEF Lengths
  <2>3. QED
    BY <2>1, <2>2, LargestUpTo
<1> DEFINE Longest == {i \in S : Len(rules[i].prefix) = m}
<1>5. PICK i \in Longest : \A j \in Longest : i <= j
  <2>1. Longest \in SUBSET Nat /\ Longest # {}
    BY <1>1
  <2> HIDE DEF Longest
  <2>2. QED
    BY <2>1, Smallest
<1>6. ASSUME NEW j \in S \ {i} PROVE ScannedBefore(i, j)
  <2>1. Len(rules[j].prefix) <= m /\ Len(rules[i].prefix) = m
    BY <1>4, <1>5
  <2>2. Len(rules[j].prefix) \in Nat /\ m \in Nat /\ i \in Nat /\ j \in Nat
    BY <1>1, <1>3, <1>5, <2>1
  <2>3. Len(rules[j].prefix) = m => i <= j
    BY <1>5
  <2>4. QED
    BY <2>1, <2>2, <2>3 DEF ScannedBefore
<1>7. QED
  BY <1>5, <1>6 DEF FirstToServe

\* matchRule returns the rule it comes to first, and none if none serves.
LEMMA MatchRuleFinds ==
  ASSUME GoodRules, NEW p \in Str, Rooted(p)
  PROVE  /\ MatchRule(p) # 0 => FirstToServe(MatchRule(p), p)
         /\ MatchRule(p) = 0 => \A i \in DOMAIN rules : ~Serves(rules[i], p)
<1> DEFINE S == {i \in DOMAIN rules : Serves(rules[i], p)}
           First(i) == \A j \in S \ {i} : ScannedBefore(i, j)
<1>1. \A i \in DOMAIN rules : i # 0
  BY LenProperties DEF GoodRules
<1>2. CASE S = {}
  <2>1. MatchRule(p) = 0
    BY <1>2 DEF MatchRule
  <2>2. QED
    BY <1>2, <2>1
<1>3. CASE S # {}
  <2>1. MatchRule(p) = CHOOSE i \in S : First(i)
    BY <1>3 DEF MatchRule
  <2>2. PICK i \in DOMAIN rules : FirstToServe(i, p)
    BY <1>3, SomeRuleIsFirst
  <2>3. i \in S /\ First(i)
    BY <2>2 DEF FirstToServe
  <2> HIDE DEF First
  <2>4. MatchRule(p) \in S /\ First(MatchRule(p))
    BY <2>1, <2>3
  <2>5. FirstToServe(MatchRule(p), p)
    BY <2>4 DEF FirstToServe, First
  <2>6. QED
    BY <1>1, <2>4, <2>5
<1>4. QED
  BY <1>2, <1>3

-----------------------------------------------------------------------------
(* buildTargetURL *)

\* A string of slashes begins and ends in one.
LEMMA SlashesAlone ==
  ASSUME NEW t \in Str, AllSlashes(t), t # <<>>
  PROVE  HasSlash(t) /\ Rooted(t)
<1>1. Len(t) \in Nat /\ Len(t) # 0 /\ DOMAIN t = 1..Len(t)
  BY NonEmpty
<1>2. t[1] = "/" /\ t[Len(t)] = "/"
  BY <1>1 DEF AllSlashes
<1>3. QED
  BY <1>2, RootedChars DEF HasSlash, Last

\* The slash is one of the strings of slashes.
LEMMA OneSlashIsSlashes == AllSlashes(Slash) /\ Slash # <<>> /\ Rooted(Slash) /\ HasSlash(Slash)
<1>1. AllSlashes(Slash) /\ Slash # <<>>
  BY SlashChar, NonEmpty DEF AllSlashes
<1>2. QED
  BY <1>1, SlashChar, SlashesAlone

\* A slash between two strings.
LEMMA JoinSlash ==
  ASSUME NEW s \in Str, NEW t \in Str
  PROVE  (s \o Slash) \o t = s \o (Slash \o t)
  BY SlashChar, JoinAgain, Zenon

\* Two slashes are a string of slashes.
LEMMA TwoSlashes ==
  \E t \in Str : /\ AllSlashes(t) /\ t # <<>>
                /\ \A e \in Str : t \o e = Slash \o (Slash \o e)
<1>1. PICK t \in Str : t = Slash \o Slash
  BY SlashChar, JoinChars
<1>2. /\ Len(Slash \o Slash) = Len(Slash) + Len(Slash)
      /\ \A i \in 1..Len(Slash) : (Slash \o Slash)[i] = Slash[i]
      /\ \A i \in 1..Len(Slash) : (Slash \o Slash)[Len(Slash) + i] = Slash[i]
  BY SlashChar, JoinChars
<1>3. Len(t) = 2 /\ t[1] = "/" /\ t[2] = "/"
  BY <1>1, <1>2, SlashChar
<1>4. DOMAIN t = 1..Len(t) /\ (t = <<>> <=> Len(t) = 0)
  BY NonEmpty
<1>5. \A i \in 1..2 : i = 1 \/ i = 2
  OBVIOUS
<1>6. AllSlashes(t) /\ t # <<>>
  BY <1>3, <1>4, <1>5 DEF AllSlashes
<1>7. ASSUME NEW e \in Str PROVE t \o e = Slash \o (Slash \o e)
  BY <1>1, SlashChar, JoinAgain
<1>8. QED
  BY <1>6, <1>7

\* Nothing is trimmed from a string that ends in no slash.
LEMMA NoneTrimmed ==
  ASSUME NEW t \in Str, ~HasSlash(t)
  PROVE  TrimSlashes(t) = t
<1>1. <<>> \in Str /\ t \o <<>> = t /\ AllSlashes(<<>>)
  BY JoinNothing DEF AllSlashes
<1>2. QED
  BY <1>1, TrimmedIs

\* TrimPrefix leaves a string, and of a join with the prefix the rest.
LEMMA PrefixTrimmed ==
  ASSUME NEW s \in Str, NEW t \in Str
  PROVE  /\ TrimPrefix(s \o t, s) = t
         /\ TrimPrefix(t, s) \in Str
<1>1. IsPrefix(s, s \o t)
  BY JoinChars, PrefixRest
<1>2. TrimPrefix(s \o t, s) = t
  BY <1>1, FrontOfJoin DEF TrimPrefix
<1>3. CASE IsPrefix(s, t)
  <2>1. PICK r \in Str : t = s \o r
    BY <1>3, PrefixRest
  <2>2. SubSeq(t, Len(s) + 1, Len(t)) = r
    BY <2>1, FrontOfJoin
  <2>3. QED
    BY <1>2, <1>3, <2>2 DEF TrimPrefix
<1>4. CASE ~IsPrefix(s, t)
  BY <1>2, <1>4 DEF TrimPrefix
<1>5. QED
  BY <1>3, <1>4

\* Between the target without the slashes at its end and what is joined to it
\* without the one at its beginning, there are slashes and at least one.
LEMMA JoinedBySlashes ==
  ASSUME NEW a \in Str, NEW b \in Str
  PROVE  \E s \in Str, c \in Str :
            /\ AllSlashes(s) /\ s # <<>>
            /\ b = Slash \o c \/ (~Rooted(b) /\ b = c)
            /\ SingleJoiningSlash(a, b) = TrimSlashes(a) \o (s \o c)
<1>1. PICK base \in Str : base = TrimSlashes(a)
  BY Trimmed
<1>2. PICK s \in Str : AllSlashes(s) /\ a = base \o s
  BY <1>1, Trimmed
<1>3. PICK c \in Str : (Rooted(b) /\ b = Slash \o c) \/ (~Rooted(b) /\ b = c)
  BY RootedChars
<1>4. ~HasSlash(base)
  BY <1>1, Trimmed
<1>5. Rooted(b) => Tail(b) = c
  <2>1. SUFFICES ASSUME Rooted(b) PROVE Tail(b) = c
    OBVIOUS
  <2>2. b = Slash \o c /\ b # <<>>
    BY <1>3, <2>1, RootedChars
  <2>3. Tail(b) = SubSeq(b, 2, Len(b))
    BY <2>2, TailIsSubSeq DEF Str
  <2>4. SubSeq(b, Len(Slash) + 1, Len(b)) = c
    BY <2>2, SlashChar, FrontOfJoin
  <2>5. QED
    BY <2>3, <2>4, SlashChar
<1>6. CASE s # <<>>
  <2>1. HasSlash(a)
    BY <1>2, <1>6, SlashesAlone, EndOfJoin
  <2>2. SingleJoiningSlash(a, b) = a \o c
    <3>1. CASE Rooted(b)
      BY <1>5, <2>1, <3>1 DEF SingleJoiningSlash, Rooted
    <3>2. CASE ~Rooted(b)
      <4>1. b = c
        BY <1>3, <3>2
      <4>2. SingleJoiningSlash(a, b) = a \o b
        BY <2>1, <3>2 DEF SingleJoiningSlash, Rooted
      <4>3. QED
        BY <4>1, <4>2
    <3>3. QED
      BY <3>1, <3>2
  <2>3. a \o c = base \o (s \o c)
    BY <1>2, JoinAgain
  <2>4. QED
    BY <1>1, <1>2, <1>3, <1>6, <2>2, <2>3
<1>7. CASE s = <<>>
  <2>1. a = base /\ ~HasSlash(a)
    BY <1>2, <1>4, <1>7, JoinNothing
  <2>2. SingleJoiningSlash(a, b) = a \o (Slash \o c)
    <3>1. CASE Rooted(b)
      <4>1. SingleJoiningSlash(a, b) = a \o b
        BY <2>1, <3>1 DEF SingleJoiningSlash, Rooted
      <4>2. QED
        BY <1>3, <3>1, <4>1
    <3>2. CASE ~Rooted(b)
      <4>1. SingleJoiningSlash(a, b) = (a \o Slash) \o b
        BY <2>1, <3>2 DEF SingleJoiningSlash, Rooted
      <4>2. b = c
        BY <1>3, <3>2
      <4>3. (a \o Slash) \o c = a \o (Slash \o c)
        BY JoinSlash, Zenon
      <4>4. QED
        BY <4>1, <4>2, <4>3
    <3>3. QED
      BY <3>1, <3>2
  <2>3. QED
    BY <1>1, <1>3, <2>1, <2>2, SlashChar, OneSlashIsSlashes
<1>8. QED
  BY <1>6, <1>7

\* What is left of a path after the prefix is a string.
LEMMA RemainderIsStr ==
  ASSUME NEW r, GoodRule(r), NEW p \in Str
  PROVE  Remainder(r, p) \in Str
<1>1. r.prefix \in Str /\ TrimSlash(r.prefix) \in Str
  BY EndChars DEF GoodRule, Enclosed, TrimSlash
<1>2. QED
  BY <1>1, PrefixTrimmed DEF Remainder

\* A URL that starts with the target and then has slashes is under the target.
LEMMA SlashesKeepUnder ==
  ASSUME NEW base \in Str, NEW s \in Str, NEW c \in Str, AllSlashes(s), s # <<>>
  PROVE  IsPrefix(base \o Slash, base \o (s \o c))
<1>1. PICK e \in Str : s = Slash \o e
  BY SlashesAlone, RootedChars
<1>2. s \o c = Slash \o (e \o c) /\ e \o c \in Str
  <2>1. (Slash \o e) \o c = Slash \o (e \o c)
    BY SlashChar, JoinAgain, Zenon
  <2>2. QED
    BY <1>1, <2>1, JoinChars
<1>3. base \o (s \o c) = (base \o Slash) \o (e \o c)
  <2>1. (base \o Slash) \o (e \o c) = base \o (Slash \o (e \o c))
    BY <1>2, JoinSlash, Zenon
  <2>2. QED
    BY <1>2, <2>1
<1>4. base \o Slash \in Str /\ base \o (s \o c) \in Str
  BY SlashChar, JoinChars
<1>5. QED
  BY <1>2, <1>3, <1>4, PrefixRest

\* The URL built for a path is the target or below it.
LEMMA BuiltUnderTarget ==
  ASSUME NEW r, GoodRule(r), NEW p \in Str
  PROVE  Under(BuildTargetURL(r, p), r)
<1> DEFINE u == BuildTargetURL(r, p)
<1>1. r.path \in Str /\ TrimSlashes(r.path) \in Str
  BY Trimmed DEF GoodRule
<1>2. PICK s \in Str, c \in Str :
         /\ AllSlashes(s) /\ s # <<>>
         /\ SingleJoiningSlash(r.path, Remainder(r, p)) = TrimSlashes(r.path) \o (s \o c)
  <2>1. PICK a \in Str, b \in Str : a = r.path /\ b = Remainder(r, p)
    BY <1>1, RemainderIsStr
  <2>2. PICK s \in Str, c \in Str :
           /\ AllSlashes(s) /\ s # <<>>
           /\ b = Slash \o c \/ (~Rooted(b) /\ b = c)
           /\ SingleJoiningSlash(a, b) = TrimSlashes(a) \o (s \o c)
    BY JoinedBySlashes
  <2>3. QED
    BY <2>1, <2>2
<1>3. u.host = r.host /\ u.path = TrimSlashes(r.path) \o (s \o c)
  BY <1>2 DEF BuildTargetURL
<1>4. IsPrefix(TrimSlashes(r.path) \o Slash, u.path)
  BY <1>1, <1>2, <1>3, SlashesKeepUnder
<1>5. QED
  BY <1>3, <1>4 DEF Under

-----------------------------------------------------------------------------
(* rewriteLocationHeader *)

\* A URL under the target of a rule starts with the target, and what follows
\* begins with a slash.
LEMMA UnderRest ==
  ASSUME NEW r, GoodRule(r), NEW loc \in [host: Str, path: Str], Under(loc, r)
  PROVE  \E rest \in Str : /\ rest = <<>> \/ Rooted(rest)
                           /\ loc.path = TrimSlashes(r.path) \o rest
<1>1. PICK base \in Str : base = TrimSlashes(r.path)
  BY Trimmed DEF GoodRule
<1>2. loc.path \in Str
  OBVIOUS
<1>3. CASE TrimSlashes(loc.path) = base
  <2>1. PICK rest \in Str : AllSlashes(rest) /\ loc.path = base \o rest
    BY <1>2, <1>3, Trimmed
  <2>2. rest = <<>> \/ Rooted(rest)
    BY <2>1, SlashesAlone
  <2>3. QED
    BY <1>1, <2>1, <2>2
<1>4. CASE IsPrefix(base \o Slash, loc.path)
  <2>1. base \o Slash \in Str /\ Slash \in Str
    BY SlashChar, JoinChars
  <2>2. PICK e \in Str : loc.path = (base \o Slash) \o e
    BY <1>2, <1>4, <2>1, PrefixRest
  <2>3. (base \o Slash) \o e = base \o (Slash \o e)
    BY JoinSlash, Zenon
  <2>4. Slash \o e \in Str /\ Rooted(Slash \o e)
    BY <2>1, JoinChars, RootedJoin, OneSlashIsSlashes
  <2>5. QED
    BY <1>1, <2>2, <2>3, <2>4
<1>5. QED
  BY <1>1, <1>3, <1>4 DEF Under

\* A host keeps no slash from being trimmed.
LEMMA TrimmedText ==
  ASSUME NEW host \in Str, ~HasSlash(host), NEW p \in Str
  PROVE  TrimSlashes(host \o p) = host \o TrimSlashes(p)
<1>1. PICK t \in Str, e \in Str : t = TrimSlashes(p) /\ ~HasSlash(t) /\ AllSlashes(e) /\ p = t \o e
  BY Trimmed
<1>2. host \o t \in Str /\ ~HasSlash(host \o t)
  BY <1>1, JoinChars, EndOfJoin
<1>3. host \o p = (host \o t) \o e
  <2>1. (host \o t) \o e = host \o (t \o e)
    BY JoinAgain, ZenonT(60)
  <2>2. QED
    BY <1>1, <2>1
<1>4. TrimSlashes((host \o t) \o e) = host \o t
  BY <1>1, <1>2, TrimmedIs
<1>5. QED
  BY <1>1, <1>3, <1>4

\* What a rewritten Location has after the prefix.
LEMMA RewrittenRest ==
  ASSUME NEW r, GoodRule(r), NEW loc \in [host: Str, path: Str], loc.host = r.host,
         NEW rest \in Str, loc.path = TrimSlashes(r.path) \o rest
  PROVE  Rewrites(r, loc) /\ RewrittenPath(r, loc) = TrimSlashes(r.prefix) \o rest
<1>1. PICK host \in Str, base \in Str :
         /\ host = r.host /\ host # NoHost /\ ~HasSlash(host)
         /\ base = TrimSlashes(r.path) /\ ~HasSlash(base)
  BY Trimmed DEF GoodRule
<1>2. TargetText(r) = host \o base
  <2>1. r.path \in Str
    BY DEF GoodRule
  <2>2. TrimSlashes(host \o r.path) = host \o base
    BY <1>1, <2>1, TrimmedText
  <2>3. QED
    BY <1>1, <2>2 DEF TargetText, Text
<1>3. Text(loc) = (host \o base) \o rest
  <2>1. (host \o base) \o rest = host \o (base \o rest)
    BY JoinAgain, ZenonT(60)
  <2>2. Text(loc) = host \o (base \o rest)
    BY <1>1 DEF Text
  <2>3. QED
    BY <2>1, <2>2
<1>4. PICK t \in Str : t = host \o base
  BY JoinChars
<1>5. ~HasSlash(t)
  BY <1>1, <1>4, EndOfJoin
<1>6. TrimSlashes(t \o rest) = t \o TrimSlashes(rest) /\ TrimSlashes(rest) \in Str
  BY <1>5, TrimmedText, Trimmed
<1>7. IsPrefix(t, t \o TrimSlashes(rest))
  BY <1>6, JoinChars, PrefixRest
<1>8. Rewrites(r, loc)
  BY <1>1, <1>2, <1>3, <1>4, <1>6, <1>7 DEF Rewrites
<1>9. TrimPrefix(t \o rest, t) = rest
  BY PrefixTrimmed
<1>10. QED
  BY <1>2, <1>3, <1>4, <1>8, <1>9 DEF RewrittenPath

\* The Location a client is sent that upstream meant for a place below the target.
LEMMA RewrittenAnswer ==
  ASSUME NEW r, GoodRule(r), EndsInOneSlash(r.prefix),
         NEW loc \in [host: Str, path: Str], Under(loc, r),
         NEW rest \in Str, rest = <<>> \/ Rooted(rest), loc.path = TrimSlashes(r.path) \o rest
  PROVE  RewriteLocation(r, loc) = [host |-> NoHost, path |-> Front(r.prefix) \o rest]
<1>1. PICK pre \in Str : pre = Front(r.prefix) /\ r.prefix = pre \o Slash /\ ~HasSlash(pre)
  BY EndChars DEF EndsInOneSlash, GoodRule
<1>2. TrimSlashes(r.prefix) = pre
  BY <1>1, SlashChar, OneSlashIsSlashes, TrimmedIs
<1>3. pre = <<>> \/ Rooted(pre)
  <2>1. SUFFICES ASSUME pre # <<>> PROVE Rooted(pre)
    OBVIOUS
  <2>2. Len(pre) \in Nat /\ Len(pre) # 0 /\ r.prefix[1] = "/"
    BY <2>1, NonEmpty, EnclosedSlashes DEF GoodRule
  <2>3. (pre \o Slash)[1] = pre[1]
    BY <2>2, SlashChar, JoinChars
  <2>4. QED
    BY <1>1, <2>1, <2>2, <2>3, RootedChars
<1>4. loc.host = r.host
  BY DEF Under
<1>5. Rewrites(r, loc) /\ RewrittenPath(r, loc) = pre \o rest
  BY <1>2, <1>4, RewrittenRest
<1>6. pre \o rest = <<>> \/ Rooted(pre \o rest)
  BY <1>3, RootedJoin, JoinNothing
<1>7. QED
  BY <1>1, <1>5, <1>6 DEF RewriteLocation

\* The path a client asks for that follows it.
Asked(r, rest) == IF Front(r.prefix) \o rest = <<>> THEN Slash ELSE Front(r.prefix) \o rest

\* A client that follows it is served by the rule, which strips what it added.
LEMMA ServedAgain ==
  ASSUME NEW r, GoodRule(r), NEW rest \in Str, rest = <<>> \/ Rooted(rest)
  PROVE  /\ Asked(r, rest) \in Str
         /\ Serves(r, Asked(r, rest))
         /\ rest = <<>> => Remainder(r, Asked(r, rest)) = <<>>
         /\ rest # <<>> => rest = Slash \o Remainder(r, Asked(r, rest))
<1> DEFINE p == Asked(r, rest)
<1>1. PICK pre \in Str : pre = Front(r.prefix) /\ r.prefix = pre \o Slash /\ HasSlash(r.prefix)
  BY EndChars DEF GoodRule, Enclosed
<1>2. /\ r.prefix \in Str /\ Len(pre) \in Nat /\ Len(r.prefix) = Len(pre) + 1
      /\ TrimSlash(r.prefix) = pre
  BY <1>1, EndJoin, NonEmpty DEF TrimSlash
<1>3. p = (IF pre \o rest = <<>> THEN Slash ELSE pre \o rest) /\ p \in Str
  BY <1>1, SlashChar, JoinChars DEF Asked
<1> HIDE DEF p
\* Whatever extends the prefix.
<1>4. ASSUME NEW c \in Str, p = r.prefix \o c
      PROVE  Serves(r, p) /\ Remainder(r, p) = c
  <2>1. p \in Str /\ Len(p) = Len(r.prefix) + Len(c) /\ Len(c) \in Nat
    <3>1. PICK q \in Str : q = r.prefix
      BY <1>2
    <3>2. q \o c \in Str /\ Len(q \o c) = Len(q) + Len(c)
      BY JoinChars
    <3>3. QED
      BY <1>4, <3>1, <3>2, NonEmpty
  <2>2. IsPrefix(r.prefix, p)
    BY <1>2, <1>4, <2>1, PrefixRest
  <2>3. TrimPrefix(p, r.prefix) = c
    <3>1. TrimPrefix(r.prefix \o c, r.prefix) = c
      BY <1>2, PrefixTrimmed
    <3>2. QED
      BY <1>4, <3>1
  <2>4. c # p
    BY <1>2, <2>1
  <2>5. QED
    BY <2>2, <2>3, <2>4 DEF Serves, Remainder
<1>5. CASE rest # <<>>
  <2>1. PICK c \in Str : rest = Slash \o c
    BY <1>5, RootedChars
  <2>2. pre \o (Slash \o c) = r.prefix \o c
    <3>1. (pre \o Slash) \o c = pre \o (Slash \o c)
      BY JoinSlash, Zenon
    <3>2. QED
      BY <1>1, <3>1
  <2>3. pre \o rest # <<>>
    BY <1>5, ConcatEqualIffEmpty DEF Str
  <2>4. p = r.prefix \o c
    BY <1>3, <2>1, <2>2, <2>3
  <2>5. QED
    <3>1. Serves(r, p) /\ Remainder(r, p) = c
      BY <1>4, <2>4
    <3>2. QED
      BY <1>3, <1>5, <2>1, <3>1 DEF p
<1>6. CASE rest = <<>> /\ pre = <<>>
  <2>1. pre \o rest = <<>> /\ r.prefix = Slash /\ r.prefix \o <<>> = r.prefix /\ <<>> \in Str
    BY <1>1, <1>2, <1>6, SlashChar, JoinNothing
  <2>2. p = r.prefix \o <<>>
    BY <1>3, <2>1
  <2>3. QED
    <3>1. Serves(r, p) /\ Remainder(r, p) = <<>>
      BY <1>4, <2>1, <2>2
    <3>2. QED
      BY <1>3, <1>6, <3>1 DEF p
<1>7. CASE rest = <<>> /\ pre # <<>>
  <2>1. p = pre
    BY <1>7, <1>3, JoinNothing
  <2>2. ~IsPrefix(r.prefix, p)
    BY <1>2, <2>1 DEF IsPrefix
  <2>3. TrimPrefix(p, r.prefix) = p
    BY <2>2 DEF TrimPrefix
  <2>4. pre \o <<>> = pre /\ <<>> \in Str
    BY JoinNothing
  <2>5. TrimPrefix(p, pre) = <<>>
    BY <2>1, <2>4, PrefixTrimmed
  <2>6. QED
    <3>1. Serves(r, p) /\ Remainder(r, p) = <<>>
      BY <1>2, <1>7, <2>1, <2>3, <2>5 DEF Serves, Remainder
    <3>2. QED
      BY <1>7, <3>1, <1>3 DEF p
<1>8. QED
  BY <1>5, <1>6, <1>7, <1>3 DEF p

\* u is b, s and c put together; i and j are where b and s end.
Parts(u, i, j, b, s, c) ==
    /\ u = b \o (s \o c) /\ i = Len(b) /\ j = Len(b) + Len(s)
    /\ i \in 0..Len(u) /\ j \in i..Len(u)
    /\ s # <<>> => i < j
    /\ c = <<>> => j = Len(u)
    /\ SubSeq(u, 1, i) = b
    /\ SubSeq(u, i + 1, j) = s
    /\ SubSeq(u, j + 1, Len(u)) = c

\* Three strings put together and cut at both seams.
LEMMA ThreeParts ==
  ASSUME NEW b \in Str, NEW s \in Str, NEW c \in Str
  PROVE  \E u, i, j : Parts(u, i, j, b, s, c)
<1>1. PICK u, i, j : u = b \o (s \o c) /\ i = Len(b) /\ j = Len(b) + Len(s)
  OBVIOUS
<1>2. PICK e \in Str, f \in Str : e = s \o c /\ f = b \o s
  BY JoinChars
<1>3. u = b \o e /\ u = f \o c
  <2>1. (b \o s) \o c = b \o (s \o c)
    BY JoinAgain, ZenonT(60)
  <2>2. QED
    BY <1>2, <1>1, <2>1
<1>4. /\ Len(b) \in Nat /\ Len(s) \in Nat /\ Len(c) \in Nat
      /\ Len(f) = j /\ Len(u) = j + Len(c) /\ u \in Str
  <2>1. Len(b) \in Nat /\ Len(s) \in Nat /\ Len(c) \in Nat
    BY NonEmpty
  <2>2. Len(f) = j
    BY <1>2, <1>1, JoinChars
  <2>3. Len(f \o c) = Len(f) + Len(c) /\ f \o c \in Str
    BY JoinChars
  <2>4. QED
    BY <1>3, <2>1, <2>2, <2>3
<1>5. i \in 0..Len(u) /\ j \in i..Len(u) /\ i \in Nat /\ j \in Nat
  BY <1>4, <1>1
<1>6. (s # <<>> => i < j) /\ (c = <<>> => j = Len(u))
  <2>1. (s # <<>> => Len(s) # 0) /\ (c = <<>> => Len(c) = 0)
    BY NonEmpty
  <2>2. (Len(s) # 0 => i < j) /\ (Len(c) = 0 => j = Len(u))
    <3>1. /\ Len(b) \in Nat /\ Len(s) \in Nat /\ Len(c) \in Nat
          /\ i = Len(b) /\ j = Len(b) + Len(s) /\ Len(u) = j + Len(c)
      BY <1>4, <1>1
    <3>2. QED
      BY <3>1
  <2>3. QED
    BY <2>1, <2>2
<1>7. SubSeq(u, 1, i) = b
  <2>1. SubSeq(b \o e, 1, Len(b)) = b
    BY FrontOfJoin
  <2>2. QED
    BY <1>3, <1>1, <2>1
<1>8. SubSeq(u, j + 1, Len(u)) = c
  <2>1. SubSeq(f \o c, Len(f) + 1, Len(f \o c)) = c
    BY FrontOfJoin
  <2>2. QED
    BY <1>3, <1>4, <2>1
<1>9. SubSeq(u, i + 1, j) = s
  <2>1. PICK a \in Nat : a = i + 1
    BY <1>5
  <2>2. a \in 1..(Len(u) + 1) /\ j \in (a - 1)..Len(u)
    BY <1>4, <1>5, <2>1
  <2> DEFINE m == SubSeq(u, a, j)
  <2>3. m \in Str /\ Len(m) = j - a + 1 /\ \A n \in 1..(j - a + 1) : m[n] = u[a + n - 1]
    BY <1>4, <2>2, SliceChars
  <2> HIDE DEF m
  <2>4. Len(m) = Len(s)
    BY <1>4, <1>5, <1>1, <2>1, <2>3
  <2>5. ASSUME NEW n \in 1..Len(s) PROVE m[n] = s[n]
    <3>1. m[n] = u[a + n - 1] /\ a + n - 1 = Len(b) + n
      BY <1>4, <1>5, <1>1, <2>1, <2>3, <2>4
    <3>2. f[Len(b) + n] = s[n]
      BY <1>2, JoinChars
    <3>3. Len(b) + n \in 1..Len(f)
      BY <1>4, <1>1
    <3>4. (f \o c)[Len(b) + n] = f[Len(b) + n]
      BY <3>3, JoinChars
    <3>5. QED
      BY <1>3, <3>1, <3>2, <3>4
  <2>6. m = s
    BY <2>3, <2>4, <2>5, SameChars
  <2>7. QED
    BY <2>1, <2>6 DEF m
<1>10. QED
  <2>1. Parts(u, i, j, b, s, c)
    BY <1>1, <1>5, <1>6, <1>7, <1>8, <1>9 DEF Parts
  <2>2. QED
    BY <2>1

\* Strings that differ in slashes between two parts name the same place.
LEMMA SameButForSlashes ==
  ASSUME NEW u, NEW v, u.host = v.host,
         NEW b \in Str, NEW s \in Str, NEW t \in Str, NEW c \in Str,
         u.path = b \o (s \o c), v.path = b \o (t \o c),
         AllSlashes(s), AllSlashes(t), (s # <<>> /\ t # <<>>) \/ c = <<>>
  PROVE  SamePlace(u, v)
<1>1. PICK x, i, j : Parts(x, i, j, b, s, c)
  BY ThreeParts
<1>2. PICK y, n, k : Parts(y, n, k, b, t, c)
  BY ThreeParts
<1>3. i = n /\ x = u.path /\ y = v.path
  BY <1>1, <1>2 DEF Parts
<1>4. /\ SubSeq(x, 1, i) = SubSeq(y, 1, i)
      /\ AllSlashes(SubSeq(x, i + 1, j)) /\ AllSlashes(SubSeq(y, i + 1, k))
      /\ SubSeq(x, j + 1, Len(x)) = SubSeq(y, k + 1, Len(y))
      /\ (i < j /\ i < k) \/ j = Len(x)
  BY <1>1, <1>2, <1>3 DEF Parts
<1>5. i \in 0..Len(x) /\ j \in i..Len(x) /\ k \in i..Len(y)
  BY <1>1, <1>2, <1>3 DEF Parts
<1>6. QED
  BY <1>3, <1>4, <1>5 DEF SamePlace

\* What such a client is forwarded to is where upstream sent it.
LEMMA ForwardedToThePlace ==
  ASSUME NEW r, GoodRule(r), NEW loc \in [host: Str, path: Str], Under(loc, r),
         NEW rest \in Str, rest = <<>> \/ Rooted(rest), loc.path = TrimSlashes(r.path) \o rest
  PROVE  SamePlace(BuildTargetURL(r, Asked(r, rest)), loc)
<1> DEFINE p == Asked(r, rest)
<1>1. PICK base \in Str, a \in Str : base = TrimSlashes(a) /\ a = r.path
  BY Trimmed DEF GoodRule
<1>2. (rest = <<>> => Remainder(r, p) = <<>>) /\ (rest # <<>> => rest = Slash \o Remainder(r, p))
  BY ServedAgain
<1>3. PICK b \in Str : b = Remainder(r, p)
  <2>1. p \in Str
    BY ServedAgain
  <2>2. QED
    BY <2>1, RemainderIsStr
<1>4. PICK s \in Str, c \in Str :
         /\ AllSlashes(s) /\ s # <<>>
         /\ b = Slash \o c \/ (~Rooted(b) /\ b = c)
         /\ SingleJoiningSlash(a, b) = TrimSlashes(a) \o (s \o c)
  BY JoinedBySlashes
\* The slashes between the target and what was joined to it, in upstream's Location.
<1>5. PICK t \in Str : AllSlashes(t) /\ rest = t \o c /\ (t # <<>> \/ c = <<>>)
  <2>1. CASE rest = <<>>
    <3>1. c = <<>>
      <4>1. b = <<>>
        BY <1>2, <1>3, <2>1
      <4>2. Slash \o c # <<>>
        BY SlashChar, OneSlashIsSlashes, ConcatEqualIffEmpty DEF Str
      <4>3. QED
        BY <1>4, <4>1, <4>2
    <3>2. <<>> \in Str /\ AllSlashes(<<>>) /\ <<>> \o c = c
      BY JoinNothing DEF AllSlashes
    <3>3. QED
      BY <2>1, <3>1, <3>2
  <2>2. CASE rest # <<>> /\ b = c
    BY <1>2, <1>3, <2>2, SlashChar, OneSlashIsSlashes
  <2>3. CASE rest # <<>> /\ b = Slash \o c
    <3>1. PICK t \in Str : /\ AllSlashes(t) /\ t # <<>>
                           /\ \A e \in Str : t \o e = Slash \o (Slash \o e)
      BY TwoSlashes
    <3>2. QED
      BY <1>2, <1>3, <2>3, <3>1
  <2>4. QED
    BY <1>4, <2>1, <2>2, <2>3
<1>6. PICK u : u = BuildTargetURL(r, p)
  OBVIOUS
<1>7. u.host = loc.host /\ u.path = base \o (s \o c)
  BY <1>1, <1>3, <1>4, <1>6 DEF BuildTargetURL, Under
<1>8. loc.path = base \o (t \o c)
  BY <1>1, <1>5
<1>9. SamePlace(u, loc)
  <2>1. /\ u.host = loc.host /\ u.path = base \o (s \o c) /\ loc.path = base \o (t \o c)
        /\ AllSlashes(s) /\ AllSlashes(t) /\ ((s # <<>> /\ t # <<>>) \/ c = <<>>)
    BY <1>4, <1>5, <1>7, <1>8
  <2>2. QED
    BY <2>1, SameButForSlashes
<1>10. QED
  BY <1>6, <1>9

-----------------------------------------------------------------------------
(* The invariant is kept *)

\* What the API makes of typed fields has the form the proofs rely on.
LEMMA StoredIsGood ==
  ASSUME NEW t \in TypedRule, t.prefix # <<>>, t.host # NoHost, ~HasSlash(t.host),
         t.path = <<>> \/ Rooted(t.path)
  PROVE  GoodRule(Stored(t)) /\ Stored(t).prefix = NormalizePrefix(t.prefix)
<1>1. t.prefix \in Str /\ t.host \in Str /\ t.path \in Str
  BY DEF TypedRule, Str
<1>2. /\ Stored(t).prefix = NormalizePrefix(t.prefix) /\ Stored(t).host = t.host
      /\ Stored(t).path = NormalizeTarget(t.path)
  BY DEF Stored, TypedRule
<1>3. PICK led \in Str :
         /\ led = IF IsPrefix(Slash, t.prefix) THEN t.prefix ELSE Slash \o t.prefix
         /\ Rooted(led)
  <2>1. Slash \in Str /\ Slash \o t.prefix \in Str
    BY <1>1, SlashChar, JoinChars
  <2>2. Rooted(Slash \o t.prefix)
    BY <1>1, <2>1, RootedJoin, OneSlashIsSlashes
  <2>3. QED
    BY <1>1, <2>1, <2>2 DEF Rooted
<1>4. NormalizePrefix(t.prefix) = IF HasSlash(led) THEN led ELSE led \o Slash
  BY <1>3 DEF NormalizePrefix
<1>5. Enclosed(NormalizePrefix(t.prefix))
  <2>1. led \o Slash \in Str /\ Rooted(led \o Slash) /\ HasSlash(led \o Slash)
    BY <1>3, EndJoin, RootedJoin, SlashChar
  <2>2. QED
    BY <1>3, <1>4, <2>1 DEF Enclosed
<1>6. NormalizeTarget(t.path) \in Str /\ Rooted(NormalizeTarget(t.path))
  BY <1>1, SlashChar, OneSlashIsSlashes DEF NormalizeTarget
<1>7. Stored(t) \in [prefix: Str, host: Str, path: Str]
  <2>1. PICK x \in Str, y \in Str : x = NormalizePrefix(t.prefix) /\ y = NormalizeTarget(t.path)
    BY <1>5, <1>6 DEF Enclosed
  <2>2. t \in [prefix: Str, host: Str, path: Str]
    BY DEF TypedRule, Str
  <2>3. Stored(t) = [t EXCEPT !.prefix = x, !.path = y]
    BY <2>1 DEF Stored
  <2>4. [t EXCEPT !.prefix = x, !.path = y] \in [prefix: Str, host: Str, path: Str]
    BY <2>2
  <2>5. QED
    BY <2>3, <2>4
<1>8. QED
  BY <1>1, <1>2, <1>5, <1>6, <1>7 DEF GoodRule

\* RouteInv holds at the start.
LEMMA RoutesInit == Init => RouteInv
<1> SUFFICES ASSUME Init PROVE RouteInv
  OBVIOUS
<1>1. PICK typed \in RuleLists : rules = [i \in DOMAIN typed |-> Stored(typed[i])]
  BY DEF Init
<1>2. /\ typed \in Seq(TypedRule)
      /\ \A i \in DOMAIN typed :
            /\ typed[i].prefix # <<>>
            /\ typed[i].host # NoHost /\ ~HasSlash(typed[i].host)
            /\ typed[i].path = <<>> \/ Rooted(typed[i].path)
            /\ \A j \in DOMAIN typed :
                  NormalizePrefix(typed[i].prefix) = NormalizePrefix(typed[j].prefix) => i = j
  BY RoutingAssumption DEF RoutingAssumption
<1>3. /\ DOMAIN typed = 1..Len(typed) /\ Len(typed) \in Nat
      /\ \A i \in DOMAIN typed : typed[i] \in TypedRule
  BY <1>2, LenProperties, ElementOfSeq
<1>4. \A i \in DOMAIN typed : /\ GoodRule(rules[i])
                              /\ rules[i].prefix = NormalizePrefix(typed[i].prefix)
  BY <1>1, <1>2, <1>3, StoredIsGood
<1>5. rules \in Seq([prefix: Str, host: Str, path: Str])
  <2>1. rules \in [1..Len(typed) -> [prefix: Str, host: Str, path: Str]]
    BY <1>1, <1>3, <1>4 DEF GoodRule
  <2>2. PICK S : S = [prefix: Str, host: Str, path: Str]
    OBVIOUS
  <2>3. PICK n \in Nat : rules \in [1..n -> S]
    BY <1>3, <2>1, <2>2
  <2>4. rules \in Seq(S)
    BY <2>3, SeqDef
  <2>5. QED
    BY <2>2, <2>4
<1>6. GoodRules
  BY <1>1, <1>2, <1>4, <1>5 DEF GoodRules
<1>7. path \in Str /\ Rooted(path)
  BY RoutingAssumption DEF RoutingAssumption, Init, Str
<1>8. QED
  BY <1>6, <1>7 DEF RouteInv, Init

\* What a client sends that follows a Location on the proxy is a path.
LEMMA FollowedIsAPath ==
  ASSUME NEW r, GoodRule(r), NEW loc \in Locations, NEW a, a = RewriteLocation(r, loc),
         a.host = NoHost
  PROVE  Followed(a) \in Str /\ Rooted(Followed(a))
<1>1. /\ loc \in [host: Str, path: Str]
      /\ Rooted(loc.path) \/ (loc.path = <<>> /\ loc.host # NoHost)
  BY RoutingAssumption DEF RoutingAssumption, Str
<1>2. PICK w \in Str : w = RewrittenPath(r, loc)
  <2>1. Text(r) \in Str /\ Text(loc) \in Str
    BY <1>1, JoinChars DEF Text, GoodRule
  <2>2. TrimSlashes(r.prefix) \in Str /\ TargetText(r) \in Str
    BY <2>1, Trimmed DEF TargetText, GoodRule
  <2>3. TrimPrefix(Text(loc), TargetText(r)) \in Str
    BY <2>1, <2>2, PrefixTrimmed
  <2>4. QED
    BY <2>2, <2>3, JoinChars DEF RewrittenPath
<1>3. Slash \in Str /\ Rooted(Slash)
  BY SlashChar, OneSlashIsSlashes
<1>4. CASE ~Rewrites(r, loc)
  <2>1. a = loc
    BY <1>4 DEF RewriteLocation
  <2>2. QED
    BY <1>1, <1>3, <2>1 DEF Followed
<1>5. CASE Rewrites(r, loc) /\ (w = <<>> \/ Rooted(w))
  <2>1. a = [host |-> NoHost, path |-> w]
    BY <1>2, <1>5 DEF RewriteLocation
  <2>2. QED
    BY <1>3, <1>5, <2>1 DEF Followed
<1>6. CASE Rewrites(r, loc) /\ ~(w = <<>> \/ Rooted(w))
  <2>1. a = [host |-> w, path |-> <<>>]
    BY <1>2, <1>6 DEF RewriteLocation
  <2>2. QED
    BY <1>6, <2>1 DEF NoHost
<1>7. QED
  BY <1>4, <1>5, <1>6

\* Every step keeps RouteInv.
LEMMA RoutesKept == RouteInv /\ [Next]_vars => RouteInv'
<1> SUFFICES ASSUME RouteInv, [Next]_vars PROVE RouteInv'
  OBVIOUS
<1>1. CASE Forward
  <2>1. /\ MatchRule(path) # 0 /\ at' = "upstream" /\ hit' = MatchRule(path)
        /\ url' = BuildTargetURL(rules[MatchRule(path)], path)
        /\ UNCHANGED <<rules, path, location, answer>>
    BY <1>1 DEF Forward
  <2>2. FirstToServe(hit', path)
    BY <2>1, MatchRuleFinds DEF RouteInv
  <2>3. FirstToServe(hit, path)'
    BY <2>1, <2>2 DEF FirstToServe, ScannedBefore
  <2>4. hit' \in DOMAIN rules
    BY <2>2 DEF FirstToServe
  <2>5. (hit = 0 \/ hit \in DOMAIN rules)'
    BY <2>1, <2>4
  <2>6. GoodRules' /\ (path \in Str /\ Rooted(path))'
    BY <2>1 DEF RouteInv, GoodRules
  <2>7. url' = BuildTargetURL(rules[hit], path)'
    BY <2>1
  <2>8. QED
    BY <2>1, <2>3, <2>5, <2>6, <2>7 DEF RouteInv
<1>2. CASE NotFound
  <2>1. /\ MatchRule(path) = 0 /\ at' = "nobody" /\ hit' = 0
        /\ UNCHANGED <<rules, path, url, location, answer>>
    BY <1>2 DEF NotFound
  <2>2. \A i \in DOMAIN rules : ~Serves(rules[i], path)
    BY <2>1, MatchRuleFinds DEF RouteInv
  <2>3. QED
    BY <2>1, <2>2 DEF RouteInv, GoodRules
<1>3. CASE Redirect
  <2>1. /\ at = "upstream" /\ at' = "redirected"
        /\ location' \in Locations /\ answer' = RewriteLocation(rules[hit], location')
        /\ UNCHANGED <<rules, path, hit, url>>
    BY <1>3 DEF Redirect
  <2>2. hit # 0
    BY <2>1, LenProperties DEF RouteInv, FirstToServe, GoodRules
  <2>3. Answered'
    BY <2>1, <2>2 DEF Answered
  <2>4. QED
    BY <2>1, <2>3 DEF RouteInv, GoodRules
<1>4. CASE Follow
  <2>1. /\ at = "redirected" /\ answer.host = NoHost /\ at' = "client"
        /\ path' = Followed(answer)
        /\ UNCHANGED <<rules, hit, url, location, answer>>
    BY <1>4 DEF Follow, Followed
  <2>2. Answered
    BY <2>1 DEF RouteInv
  <2>3. GoodRule(rules[hit])
    BY <2>2 DEF Answered, RouteInv, GoodRules
  <2>4. path' \in Str /\ Rooted(path')
    BY <2>1, <2>2, <2>3, FollowedIsAPath DEF Answered
  <2>5. Answered' /\ answer'.host = NoHost /\ path' = Followed(answer')
    BY <2>1, <2>2 DEF Answered
  <2>6. QED
    BY <2>1, <2>4, <2>5 DEF RouteInv, GoodRules
<1>5. CASE UNCHANGED vars
  BY <1>5 DEF vars, RouteInv, GoodRules, FirstToServe, ScannedBefore, Answered
<1>6. QED
  BY <1>1, <1>2, <1>3, <1>4, <1>5 DEF Next

\* RouteInv holds throughout, whatever the rules, the paths and the Locations.
THEOREM RoutesInvariant == Spec => []RouteInv
  BY RoutesInit, RoutesKept, PTL DEF Spec

-----------------------------------------------------------------------------
(* The theorems *)

\* The rule that is first to serve covers the path with the most segments.
LEMMA RoutesRight == RouteInv => RoutesBySegments
<1> SUFFICES ASSUME RouteInv PROVE RoutesBySegments
  OBVIOUS
<1>1. path \in Str /\ Rooted(path) /\ \A i \in DOMAIN rules : Enclosed(rules[i].prefix)
  BY DEF RouteInv, GoodRules, GoodRule
<1>2. \A i \in DOMAIN rules : Serves(rules[i], path) <=> Covers(rules[i], path)
  BY <1>1, ServesIsCovers
<1>3. ASSUME at = "nobody" PROVE \A i \in DOMAIN rules : ~Covers(rules[i], path)
  BY <1>2, <1>3 DEF RouteInv
<1>4. ASSUME at = "upstream"
      PROVE  /\ Covers(rules[hit], path)
             /\ \A i \in DOMAIN rules : Covers(rules[i], path) =>
                   Len(Segments(rules[i].prefix)) <= Len(Segments(rules[hit].prefix))
  <2>1. FirstToServe(hit, path)
    BY <1>4 DEF RouteInv
  <2>2. hit \in DOMAIN rules /\ Serves(rules[hit], path)
    BY <2>1 DEF FirstToServe
  <2>3. ASSUME NEW i \in DOMAIN rules, Covers(rules[i], path)
        PROVE  Len(Segments(rules[i].prefix)) <= Len(Segments(rules[hit].prefix))
    <3>1. Serves(rules[i], path)
      BY <1>2, <2>3
    <3>2. Len(rules[i].prefix) \in Nat /\ Len(rules[hit].prefix) \in Nat
      BY <1>1, <2>2, EnclosedSlashes
    <3>3. Len(rules[i].prefix) <= Len(rules[hit].prefix)
      BY <2>1, <3>1, <3>2 DEF FirstToServe, ScannedBefore
    <3>4. QED
      BY <1>1, <2>2, <3>1, <3>3, LongerHasMoreSegments
  <2>4. QED
    BY <1>2, <2>2, <2>3
<1>5. QED
  BY <1>3, <1>4 DEF RoutesBySegments

\* Of any rules, with prefixes and targets however spelt, matchRule picks one
\* that covers the path with the most segments, and none only if none covers it.
THEOREM RoutesAreSegments == Spec => []RoutesBySegments
  BY RoutesInvariant, RoutesRight, PTL

\* buildTargetURL forwards every request to the target of its rule or below it.
THEOREM TargetIsKept == Spec => []StaysUnderTarget
<1>1. RouteInv => StaysUnderTarget
  <2> SUFFICES ASSUME RouteInv, at = "upstream" PROVE Under(url, rules[hit])
    BY DEF StaysUnderTarget
  <2>1. FirstToServe(hit, path) /\ url = BuildTargetURL(rules[hit], path) /\ path \in Str
    BY DEF RouteInv
  <2>2. GoodRule(rules[hit])
    BY <2>1 DEF FirstToServe, RouteInv, GoodRules
  <2>3. QED
    BY <2>1, <2>2, BuiltUnderTarget
<1>2. QED
  BY <1>1, RoutesInvariant, PTL

\* A client sent back by a redirect below the target of its rule is served by
\* that rule.
LEMMA BackAtTheRule ==
  ASSUME RouteInv, at = "client", hit # 0, Under(location, rules[hit]),
         EndsInOneSlash(rules[hit].prefix)
  PROVE  /\ Serves(rules[hit], path)
         /\ SamePlace(BuildTargetURL(rules[hit], path), location)
<1>1. PICK r : r = rules[hit] /\ GoodRule(r)
  BY DEF RouteInv, GoodRules
<1>2. /\ location \in [host: Str, path: Str] /\ answer = RewriteLocation(r, location)
      /\ path = Followed(answer)
  BY <1>1, RoutingAssumption DEF RouteInv, Answered, RoutingAssumption, Str
<1>3. PICK rest \in Str : /\ rest = <<>> \/ Rooted(rest)
                          /\ location.path = TrimSlashes(r.path) \o rest
  BY <1>1, <1>2, UnderRest
<1>4. RewriteLocation(r, location) = [host |-> NoHost, path |-> Front(r.prefix) \o rest]
  BY <1>1, <1>2, <1>3, RewrittenAnswer
<1>5. path = Asked(r, rest)
  BY <1>2, <1>4 DEF Followed, Asked
<1>6. Serves(r, Asked(r, rest))
  BY <1>1, <1>3, ServedAgain
<1>7. SamePlace(BuildTargetURL(r, Asked(r, rest)), location)
  BY <1>1, <1>2, <1>3, ForwardedToThePlace
<1>8. QED
  BY <1>1, <1>5, <1>6, <1>7

\* The step property of RedirectLeadsBack follows from RouteInv.
LEMMA BackToThePlace ==
  ASSUME RouteInv, hit # 0, Under(location, rules[hit]), EndsInOneSlash(rules[hit].prefix)
  PROVE  /\ ~NotFound
         /\ Forward => \/ hit' = hit /\ SamePlace(url', location)
                       \/ Len(rules[hit'].prefix) > Len(rules[hit].prefix)
<1>1. /\ GoodRules /\ path \in Str /\ Rooted(path) /\ hit \in DOMAIN rules
      /\ \A i \in DOMAIN rules : Enclosed(rules[i].prefix)
  BY DEF RouteInv, GoodRules, GoodRule
<1>2. ASSUME NotFound PROVE FALSE
  <2>1. Serves(rules[hit], path)
    BY <1>2, BackAtTheRule DEF NotFound
  <2>2. QED
    BY <1>1, <1>2, <2>1, MatchRuleFinds DEF NotFound
<1>3. ASSUME Forward
      PROVE  \/ hit' = hit /\ SamePlace(url', location)
             \/ Len(rules[hit'].prefix) > Len(rules[hit].prefix)
  <2>1. PICK m : m = MatchRule(path)
    OBVIOUS
  <2>2. at = "client" /\ hit' = m /\ url' = BuildTargetURL(rules[m], path) /\ m # 0
    BY <1>3, <2>1 DEF Forward
  <2>3. Serves(rules[hit], path) /\ SamePlace(BuildTargetURL(rules[hit], path), location)
    BY <2>2, BackAtTheRule
  <2>4. FirstToServe(m, path)
    BY <1>1, <2>1, <2>2, MatchRuleFinds
  <2>5. m \in DOMAIN rules /\ Serves(rules[m], path) /\ (m # hit => ScannedBefore(m, hit))
    BY <1>1, <2>3, <2>4 DEF FirstToServe
  <2>6. CASE m = hit
    BY <2>2, <2>3, <2>6
  <2>7. CASE m # hit
    <3>1. Len(rules[m].prefix) # Len(rules[hit].prefix)
      <4>1. SUFFICES ASSUME Len(rules[m].prefix) = Len(rules[hit].prefix) PROVE FALSE
        OBVIOUS
      <4>2. Len(rules[m].prefix) \in Nat /\ Len(rules[hit].prefix) \in Nat
        BY <1>1, <2>5, EnclosedSlashes
      <4>3. rules[m].prefix = rules[hit].prefix
        BY <1>1, <2>3, <2>5, <4>1, <4>2, LongerHasMoreSegments
      <4>4. QED
        BY <1>1, <2>5, <2>7, <4>3 DEF GoodRules
    <3>2. QED
      BY <2>2, <2>5, <2>7, <3>1 DEF ScannedBefore
  <2>8. QED
    BY <2>6, <2>7
<1>4. QED
  BY <1>2, <1>3

\* A client that follows a redirect below the target of its rule comes to the
\* very place, or to a rule with a longer prefix, and never to a 404.
THEOREM RedirectsLeadBack == Spec => RedirectLeadsBack
<1>1. RouteInv =>
        [hit # 0 /\ location.host # NoHost /\ Under(location, rules[hit])
           /\ EndsInOneSlash(rules[hit].prefix) =>
            /\ ~NotFound
            /\ Forward => \/ hit' = hit /\ SamePlace(url', location)
                          \/ Len(rules[hit'].prefix) > Len(rules[hit].prefix)]_vars
  BY BackToThePlace
<1>2. QED
  BY <1>1, RoutesInvariant, PTL DEF RedirectLeadsBack

=============================================================================
