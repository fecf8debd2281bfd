------------------------------- MODULE LogTime -------------------------------
(***************************************************************************)
(* Instants and the texts RequestLens compares in their place.             *)
(*                                                                         *)
(* http_logs.started_at is TEXT, and SQLite compares and orders such a     *)
(* column byte by byte.  A text is a sequence of numbers that compare as   *)
(* the bytes do: the date and the time of day have a fixed width and count *)
(* as one number each, the other characters stand by their codes.          *)
(***************************************************************************)
EXTENDS Integers, Sequences

\* An instant in UTC: a day, a second of it, hundredths (below 100) of that second.
Instant == [day: Nat, sec: Nat, frac: Nat]

Earlier(s, t) ==
    \/ s.day < t.day
    \/ s.day = t.day /\ s.sec < t.sec
    \/ s.day = t.day /\ s.sec = t.sec /\ s.frac < t.frac

SameSecond(s, t) == s.day = t.day /\ s.sec = t.sec

Blank == 32
Dot == 46
Zero == 48
LetterT == 84
LetterZ == 90

\* The fraction of RFC3339Nano: no trailing zeros, and no dot without digits.
Fraction(f) ==
    IF f = 0 THEN <<>>
    ELSE IF f % 10 = 0 THEN <<Dot, Zero + (f \div 10)>>
    ELSE <<Dot, Zero + (f \div 10), Zero + (f % 10)>>

\* time.RFC3339Nano, in which started_at is written: 2006-01-02T15:04:05.12Z
RFC3339Nano(t) == <<t.day, LetterT, t.sec>> \o Fraction(t.frac) \o <<LetterZ>>

\* SQLite's datetime(): 2006-01-02 15:04:05
Datetime(t) == <<t.day, Blank, t.sec>>

\* a < b for TEXT under the BINARY collation.
TextBefore(a, b) ==
    \E n \in 0..Len(a) :
        /\ n < Len(b)
        /\ \A i \in 1..n : a[i] = b[i]
        /\ n = Len(a) \/ a[n + 1] < b[n + 1]

=============================================================================
