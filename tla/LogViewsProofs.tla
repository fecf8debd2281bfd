---------------------------- MODULE LogViewsProofs ----------------------------
(***************************************************************************)
(* Proofs about the lists of log rows and about the clients of the log     *)
(* endpoints, for any exchanges, times, filters, limits, tokens and bounds *)
(* on what is in flight.  First the lists: their order is total, so that   *)
(* the rows take the places from 0 on without a gap, and a page by limit   *)
(* and offset has the size it should have; those lemmas speak of sets of   *)
(* rows rather than of the table, for a list before and after a step of    *)
(* the table.                                                              *)
(***************************************************************************)
EXTENDS LogViews, LogTimeProofs, FiniteSetTheorems, TLAPS

AnyRow == [id: Nat, exchange: Exchanges, rule: Rules \cup {NoRule}]

\* Rows as a table or a list has them: finitely many, and told apart by their ids.
Listing(S) ==
    /\ S \subseteq AnyRow
    /\ IsFiniteSet(S)
    /\ \A r, s \in S : r.id = s.id => r = s

Ahead(r, S) == {s \in S : ListedBefore(s, r)}

\* The place of a row in the list of the rows S; the first is 0.
Place(r, S) == Cardinality(Ahead(r, S))

\* What LIMIT and OFFSET take of the rows S.
Piece(S, limit, skip) == {r \in S : skip <= Place(r, S) /\ Place(r, S) < skip + limit}

LEMMA WindowIsPiece ==
  ASSUME NEW f, NEW limit, NEW skip
  PROVE  Window(f, limit, skip) = Piece(Selected(f), limit, skip)
  BY DEF Window, Piece, Rank, Place, Ahead

LEMMA SublistIsListing ==
  ASSUME NEW S, Listing(S), NEW T \in SUBSET S
  PROVE  Listing(T)
  BY FS_Subset DEF Listing

-----------------------------------------------------------------------------
(* The order of a list *)

LEMMA StartTextIsText ==
  ASSUME NEW r \in AnyRow
  PROVE  StartText(r) \in Seq(Nat)
<1>1. r.exchange \in Exchanges /\ Started[r.exchange] \in Instant
  BY LogListAssumption DEF AnyRow, LogListAssumption
<1>2. StartText(r) = RFC3339Nano(Started[r.exchange])
  BY <1>1 DEF StartText, StartedText
<1>3. QED
  BY <1>1, <1>2, FrontOfText

LEMMA NeverBeforeItself ==
  ASSUME NEW r \in AnyRow
  PROVE  ~ListedBefore(r, r)
<1>1. ~TextBefore(StartText(r), StartText(r))
  BY StartTextIsText, TextIrreflexive
<1>2. r.id \in Nat
  BY DEF AnyRow
<1>3. QED
  BY <1>1, <1>2 DEF ListedBefore

LEMMA ListedTransitive ==
  ASSUME NEW r \in AnyRow, NEW s \in AnyRow, NEW t \in AnyRow,
         ListedBefore(r, s), ListedBefore(s, t)
  PROVE  ListedBefore(r, t)
<1>1. StartText(r) \in Seq(Nat) /\ StartText(s) \in Seq(Nat) /\ StartText(t) \in Seq(Nat)
  BY StartTextIsText
<1>2. r.id \in Nat /\ s.id \in Nat /\ t.id \in Nat
  BY DEF AnyRow
<1>3. CASE TextBefore(StartText(s), StartText(r)) /\ TextBefore(StartText(t), StartText(s))
  BY <1>1, <1>3, TextTransitive DEF ListedBefore
<1>4. CASE StartText(s) = StartText(r) \/ StartText(t) = StartText(s)
  BY <1>2, <1>4 DEF ListedBefore
<1>5. QED
  BY <1>3, <1>4 DEF ListedBefore

LEMMA ListedTotal ==
  ASSUME NEW r \in AnyRow, NEW s \in AnyRow, r.id # s.id
  PROVE  ListedBefore(r, s) \/ ListedBefore(s, r)
<1>1. StartText(r) \in Seq(Nat) /\ StartText(s) \in Seq(Nat)
  BY StartTextIsText
<1>2. r.id \in Nat /\ s.id \in Nat
  BY DEF AnyRow
<1>3. CASE StartText(r) = StartText(s)
  BY <1>2, <1>3 DEF ListedBefore
<1>4. CASE StartText(r) # StartText(s)
  BY <1>1, <1>4, TextTotal DEF ListedBefore
<1>5. QED
  BY <1>3, <1>4

-----------------------------------------------------------------------------
(* Places *)

LEMMA PlaceIsIndex ==
  ASSUME NEW S, Listing(S), NEW r \in S
  PROVE  Place(r, S) \in 0..(Cardinality(S) - 1)
<1>1. r \in AnyRow /\ IsFiniteSet(S)
  BY DEF Listing
<1>2. r \notin Ahead(r, S) /\ Ahead(r, S) \subseteq S \ {r}
  BY <1>1, NeverBeforeItself DEF Ahead
<1>3. IsFiniteSet(S \ {r}) /\ Cardinality(S \ {r}) = Cardinality(S) - 1
  BY <1>1, FS_RemoveElement
<1>4. /\ IsFiniteSet(Ahead(r, S))
      /\ Cardinality(Ahead(r, S)) <= Cardinality(S \ {r})
  BY <1>2, <1>3, FS_Subset
<1>5. Cardinality(Ahead(r, S)) \in Nat /\ Cardinality(S) \in Nat
  BY <1>1, <1>4, FS_CardinalityType
<1>6. QED
  BY <1>3, <1>4, <1>5 DEF Place

LEMMA PlacesFollowTheOrder ==
  ASSUME NEW S, Listing(S), NEW r \in S, NEW s \in S, ListedBefore(r, s)
  PROVE  Place(r, S) < Place(s, S)
<1>1. r \in AnyRow /\ s \in AnyRow /\ S \subseteq AnyRow /\ IsFiniteSet(S)
  BY DEF Listing
<1>2. Ahead(r, S) \subseteq Ahead(s, S)
  BY <1>1, ListedTransitive DEF Ahead
<1>3. r \in Ahead(s, S) /\ r \notin Ahead(r, S)
  BY <1>1, NeverBeforeItself DEF Ahead
<1>4. IsFiniteSet(Ahead(s, S)) /\ IsFiniteSet(Ahead(r, S))
  BY <1>1, FS_Subset DEF Ahead
<1>5. /\ Cardinality(Ahead(r, S)) <= Cardinality(Ahead(s, S))
      /\ Cardinality(Ahead(r, S)) # Cardinality(Ahead(s, S))
  <2>1. /\ Cardinality(Ahead(r, S)) <= Cardinality(Ahead(s, S))
        /\ Cardinality(Ahead(s, S)) = Cardinality(Ahead(r, S)) => Ahead(s, S) = Ahead(r, S)
    BY <1>2, <1>4, FS_Subset
  <2>2. QED
    BY <1>3, <2>1
<1>6. Cardinality(Ahead(r, S)) \in Nat /\ Cardinality(Ahead(s, S)) \in Nat
  BY <1>4, FS_CardinalityType
<1>7. QED
  BY <1>5, <1>6 DEF Place

LEMMA OrderFollowsThePlaces ==
  ASSUME NEW S, Listing(S), NEW r \in S, NEW s \in S, Place(r, S) < Place(s, S)
  PROVE  ListedBefore(r, s)
<1>1. Place(r, S) \in Int /\ Place(s, S) \in Int
  BY PlaceIsIndex
<1>2. ~ListedBefore(s, r)
  BY <1>1, PlacesFollowTheOrder
<1>3. r.id # s.id
  BY <1>1 DEF Listing
<1>4. QED
  BY <1>2, <1>3, ListedTotal DEF Listing

\* Every place of a list is taken, by one row.
LEMMA PlacesAreTaken ==
  ASSUME NEW S, Listing(S)
  PROVE  /\ Cardinality(S) \in Nat
         /\ \A r, s \in S : Place(r, S) = Place(s, S) => r = s
         /\ \A k \in 0..(Cardinality(S) - 1) : \E r \in S : Place(r, S) = k
<1> DEFINE last == Cardinality(S) - 1
           place == [r \in S |-> Place(r, S)]
<1>1. Cardinality(S) \in Nat /\ IsFiniteSet(S)
  BY FS_CardinalityType DEF Listing
<1>2. ASSUME NEW r \in S, NEW s \in S, Place(r, S) = Place(s, S) PROVE r = s
  <2>1. Place(r, S) \in Int /\ Place(s, S) \in Int
    BY PlaceIsIndex
  <2>2. ~ListedBefore(r, s) /\ ~ListedBefore(s, r)
    BY <1>2, <2>1, PlacesFollowTheOrder
  <2>3. r.id = s.id
    BY <2>2, ListedTotal DEF Listing
  <2>4. QED
    BY <2>3 DEF Listing
<1>3. place \in Injection(S, 0..last)
  <2>1. place \in [S -> 0..last]
    BY PlaceIsIndex
  <2>2. QED
    BY <1>2, <2>1 DEF Injection, IsInjective
<1>4. IsFiniteSet(0..last) /\ Cardinality(0..last) = Cardinality(S)
  BY <1>1, FS_Interval, SMTT(30)
<1>5. place \in Surjection(S, 0..last)
  BY <1>1, <1>3, <1>4, FS_Injection
<1>6. ASSUME NEW k \in 0..last PROVE \E r \in S : Place(r, S) = k
  BY <1>5 DEF Surjection
<1>7. QED
  BY <1>1, <1>2, <1>6

LEMMA FromLeft ==
  ASSUME NEW n \in Nat, NEW limit \in Nat, NEW skip \in Nat
  PROVE  LET left == IF n > skip THEN n - skip ELSE 0
             end == (IF skip + limit < n THEN skip + limit ELSE n) - 1
         IN /\ end \in Int
            /\ Cardinality(skip..end) = IF left < limit THEN left ELSE limit
            /\ \A k \in 0..(n - 1) : k \in skip..end <=> skip <= k /\ k < skip + limit
            /\ skip..end \subseteq 0..(n - 1)
<1> DEFINE left == IF n > skip THEN n - skip ELSE 0
           end == (IF skip + limit < n THEN skip + limit ELSE n) - 1
<1>1. end \in Int
  OBVIOUS
<1>2. Cardinality(skip..end) = IF skip > end THEN 0 ELSE end - skip + 1
  <2> HIDE DEF end
  <2>1. skip \in Int
    OBVIOUS
  <2>2. QED
    BY <1>1, <2>1, FS_Interval
<1>3. (IF skip > end THEN 0 ELSE end - skip + 1) = IF left < limit THEN left ELSE limit
  OBVIOUS
<1>4. /\ \A k \in 0..(n - 1) : k \in skip..end <=> skip <= k /\ k < skip + limit
      /\ skip..end \subseteq 0..(n - 1)
  OBVIOUS
<1>5. QED
  BY <1>1, <1>2, <1>3, <1>4

\* A page is full unless the list ends on it.
LEMMA SizeOfPiece ==
  ASSUME NEW S, Listing(S), NEW limit \in Nat, NEW skip \in Nat
  PROVE  LET left == IF Cardinality(S) > skip THEN Cardinality(S) - skip ELSE 0
         IN Cardinality(Piece(S, limit, skip)) = IF left < limit THEN left ELSE limit
<1> DEFINE n == Cardinality(S)
           P == Piece(S, limit, skip)
           end == (IF skip + limit < n THEN skip + limit ELSE n) - 1
           place == [r \in P |-> Place(r, S)]
<1>1. n \in Nat
  BY PlacesAreTaken
<1>2. P \subseteq S /\ IsFiniteSet(P)
  BY FS_Subset DEF Piece, Listing
<1>3. \A r \in S : r \in P <=> Place(r, S) \in skip..end
  <2>1. \A r \in S : Place(r, S) \in 0..(n - 1)
    BY PlaceIsIndex
  <2>2. \A k \in 0..(n - 1) : k \in skip..end <=> skip <= k /\ k < skip + limit
    BY <1>1, FromLeft
  <2>3. QED
    BY <2>1, <2>2 DEF Piece
<1>4. place \in Bijection(P, skip..end)
  <2>1. place \in [P -> skip..end]
    BY <1>2, <1>3
  <2>2. IsInjective(place)
    BY <1>2, PlacesAreTaken DEF IsInjective
  <2>3. ASSUME NEW k \in skip..end PROVE \E r \in P : place[r] = k
    <3>1. k \in 0..(n - 1)
      BY <1>1, FromLeft
    <3>2. PICK r \in S : Place(r, S) = k
      BY <3>1, PlacesAreTaken
    <3>3. QED
      BY <1>3, <3>2
  <2>4. QED
    BY <2>1, <2>2, <2>3 DEF Bijection, Injection, Surjection
<1>5. Cardinality(skip..end) = Cardinality(P)
  BY <1>2, <1>4, FS_Bijection DEF ExistsBijection
<1>6. QED
  BY <1>1, <1>5, FromLeft

-----------------------------------------------------------------------------
(* Lists that change *)

LEMMA AsManyIds ==
  ASSUME NEW S, Listing(S)
  PROVE  IsFiniteSet(RowIds(S)) /\ Cardinality(RowIds(S)) = Cardinality(S)
<1> DEFINE id == [r \in S |-> r.id]
<1>1. id \in Bijection(S, RowIds(S))
  BY DEF Listing, RowIds, Bijection, Injection, Surjection, IsInjective
<1>2. QED
  BY <1>1, FS_Bijection DEF ExistsBijection, Listing

\* The rows of S are in T as well, but for the rule they name.
Within(S, T) ==
    \A r \in S : \E t \in T : t.id = r.id /\ t.exchange = r.exchange

\* The longer a list gets, the further back its rows.
LEMMA PlacesGrow ==
  ASSUME NEW S, Listing(S), NEW T, Listing(T), Within(S, T),
         NEW r \in S, NEW t \in T, r.id = t.id
  PROVE  Place(r, S) <= Place(t, T)
<1>1. r.exchange = t.exchange
  BY DEF Within, Listing
<1>2. RowIds(Ahead(r, S)) \subseteq RowIds(Ahead(t, T))
  <2>1. SUFFICES ASSUME NEW s \in S, ListedBefore(s, r)
                 PROVE  \E u \in T : ListedBefore(u, t) /\ u.id = s.id
    BY DEF RowIds, Ahead
  <2>2. PICK u \in T : u.id = s.id /\ u.exchange = s.exchange
    BY DEF Within
  <2>3. ListedBefore(u, t)
    BY <1>1, <2>1, <2>2 DEF ListedBefore, StartText
  <2>4. QED
    BY <2>2, <2>3
<1>3. Listing(Ahead(r, S)) /\ Listing(Ahead(t, T))
  BY SublistIsListing DEF Ahead
<1>4. /\ IsFiniteSet(RowIds(Ahead(t, T)))
      /\ Cardinality(RowIds(Ahead(r, S))) = Place(r, S)
      /\ Cardinality(RowIds(Ahead(t, T))) = Place(t, T)
  BY <1>3, AsManyIds DEF Place
<1>5. QED
  BY <1>2, <1>4, FS_Subset

-----------------------------------------------------------------------------
(* What holds of every table *)

LEMMA NewestFirst ==
  ASSUME Listing(table)
  PROVE  FirstPageIsNewest
<1> SUFFICES ASSUME NEW f \in Filters, NEW limit \in 1..MaxLimit,
                    NEW r \in Window(f, limit, 0), NEW s \in Selected(f) \ Window(f, limit, 0),
                    Earlier(Started[r.exchange], Started[s.exchange]),
                    ~SameSecond(Started[r.exchange], Started[s.exchange])
             PROVE  FALSE
  BY DEF FirstPageIsNewest
<1> DEFINE L == Selected(f)
<1>1. Listing(L) /\ r \in L /\ s \in L
  BY SublistIsListing DEF Selected, Window
<1>2. r \in AnyRow /\ s \in AnyRow
  BY <1>1 DEF Listing
<1>3. Place(r, L) < Place(s, L)
  <2>1. r \in Piece(L, limit, 0) /\ s \notin Piece(L, limit, 0)
    BY WindowIsPiece
  <2>2. Place(r, L) \in Nat /\ Place(s, L) \in Nat
    BY <1>1, PlaceIsIndex
  <2>3. limit \in Nat
    BY LogListAssumption DEF LogListAssumption
  <2>4. Place(r, L) < limit /\ ~(Place(s, L) < limit)
    BY <1>1, <2>1, <2>2, <2>3 DEF Piece
  <2>5. QED
    BY <2>2, <2>3, <2>4
<1>4. ListedBefore(r, s)
  BY <1>1, <1>3, OrderFollowsThePlaces
<1>5. /\ r.exchange \in Exchanges /\ Started[r.exchange] \in Instant
      /\ s.exchange \in Exchanges /\ Started[s.exchange] \in Instant
  BY <1>2, LogListAssumption DEF AnyRow, LogListAssumption
<1>6. TextBefore(StartText(r), StartText(s))
  BY <1>5, TextsCompareBySecond DEF StartText, StartedText
<1>7. StartText(r) \in Seq(Nat) /\ StartText(s) \in Seq(Nat)
  BY <1>2, StartTextIsText
<1>8. TextBefore(StartText(s), StartText(r)) \/ StartText(s) = StartText(r)
  BY <1>4 DEF ListedBefore
<1>9. TextBefore(StartText(r), StartText(r))
  BY <1>6, <1>7, <1>8, TextTransitive
<1>10. QED
  BY <1>7, <1>9, TextIrreflexive

LEMMA TimesHold ==
  ASSUME Listing(table)
  PROVE  TimesHoldToTheSecond
<1> SUFFICES ASSUME NEW r \in table, NEW x \in Exchanges,
                    ~SameSecond(Started[r.exchange], Started[x])
             PROVE  LET text == RFC3339Nano(Started[x])
                        earlier == Earlier(Started[r.exchange], Started[x])
                    IN /\ r \in Named(text, NoRule) <=> earlier
                       /\ r \in Selected([NoFilter EXCEPT !.from = text]) <=> ~earlier
                       /\ r \in Selected([NoFilter EXCEPT !.to = text]) <=> earlier
  BY DEF TimesHoldToTheSecond
<1> DEFINE text == RFC3339Nano(Started[x])
           earlier == Earlier(Started[r.exchange], Started[x])
           from == [NoFilter EXCEPT !.from = text]
           to == [NoFilter EXCEPT !.to = text]
<1>1. /\ r \in AnyRow /\ r.exchange \in Exchanges
      /\ Started[r.exchange] \in Instant /\ Started[x] \in Instant
  BY LogListAssumption DEF Listing, AnyRow, LogListAssumption
<1>2. StartText(r) = RFC3339Nano(Started[r.exchange])
  BY <1>1 DEF StartText, StartedText
<1>3. TextBefore(StartText(r), text) <=> earlier
  BY <1>1, <1>2, TextsCompareBySecond
<1>4. TextBefore(text, StartText(r)) <=> ~earlier
  <2>1. ~SameSecond(Started[x], Started[r.exchange])
    BY DEF SameSecond
  <2>2. TextBefore(text, StartText(r)) <=> Earlier(Started[x], Started[r.exchange])
    BY <1>1, <1>2, <2>1, TextsCompareBySecond
  <2>3. Earlier(Started[x], Started[r.exchange]) <=> ~earlier
    BY <1>1, <2>1 DEF Earlier, SameSecond, Instant
  <2>4. QED
    BY <2>2, <2>3
<1>5. text # <<>>
  <2>1. Len(text) >= 4
    BY <1>1, FrontOfText
  <2>2. QED
    BY <2>1
<1> HIDE DEF text, earlier
<1>6. r \in Named(text, NoRule) <=> earlier
  BY <1>3, <1>5 DEF Named
<1>7. r \in Selected(from) <=> ~earlier
  <2>1. from.rule = NoRule /\ from.category = Any /\ from.from = text /\ from.to = <<>>
        /\ from.columns = Exchanges
    BY DEF NoFilter
  <2>2. QED
    BY <1>1, <1>3, <1>5, <2>1 DEF Selected
<1>8. r \in Selected(to) <=> earlier
  <2>1. to.rule = NoRule /\ to.category = Any /\ to.from = <<>> /\ to.to = text
        /\ to.columns = Exchanges
    BY DEF NoFilter
  <2>2. QED
    BY <1>1, <1>4, <1>5, <2>1 DEF Selected
<1>9. QED
  BY <1>6, <1>7, <1>8 DEF text, earlier

-----------------------------------------------------------------------------
(* Steps of the table *)

\* The inductive invariant of the table: no id is handed out twice.
TableInv == TableTypeOK /\ Listing(table)

LEMMA TableInitInv ==
  ASSUME NEW X \in SUBSET Exchanges, TableInit(X)
  PROVE  TableInv
  BY FS_EmptySet DEF TableInit, TableInv, TableTypeOK, Listing

LEMMA FewerRows ==
  ASSUME TableInv, table' \in SUBSET table, UNCHANGED <<lastId, alive, pending>>
  PROVE  TableInv'
<1>1. Listing(table)'
  BY SublistIsListing DEF TableInv, Listing
<1>2. TableTypeOK'
  BY DEF TableInv, TableTypeOK
<1>3. QED
  BY <1>1, <1>2 DEF TableInv

LEMMA InsertInv ==
  ASSUME TableInv, NEW x \in Exchanges, InsertLog(x)
  PROVE  TableInv'
<1> USE DEF TableInv, TableTypeOK
<1>1. CASE UNCHANGED <<table, lastId>>
  BY <1>1 DEF InsertLog, Listing
<1>2. CASE ~UNCHANGED <<table, lastId>>
  <2> DEFINE new == [id |-> lastId + 1, exchange |-> x, rule |-> RuleOf[x]]
  <2>1. /\ table' = table \cup {new} /\ lastId' = lastId + 1
        /\ UNCHANGED alive /\ pending' \subseteq pending
    BY <1>2 DEF InsertLog
  <2>2. RuleOf[x] \in Rules \cup {NoRule}
    BY LogListAssumption DEF LogListAssumption
  <2>3. \A r \in table : r.id \in 1..lastId
    OBVIOUS
  <2>4. IsFiniteSet(table')
    BY <2>1, FS_AddElement DEF Listing
  <2>5. table' \subseteq AnyRow
    BY <2>1, <2>2 DEF Listing, AnyRow
  <2>6. \A r, s \in table' : r.id = s.id => r = s
    BY <2>1, <2>3 DEF Listing
  <2>7. TableTypeOK'
    <3>1. \A r \in table' : r \in [id: 1..lastId', exchange: Exchanges, rule: Rules \cup {NoRule}]
      <4>1. ASSUME NEW r \in table
            PROVE  r \in [id: 1..lastId', exchange: Exchanges, rule: Rules \cup {NoRule}]
        BY <2>1
      <4>2. new \in [id: 1..lastId', exchange: Exchanges, rule: Rules \cup {NoRule}]
        BY <2>1, <2>2
      <4>3. QED
        BY <2>1, <4>1, <4>2
    <3>2. QED
      BY <2>1, <3>1
  <2>8. QED
    BY <2>4, <2>5, <2>6, <2>7 DEF Listing
<1>3. QED
  BY <1>1, <1>2

LEMMA DeleteRuleInv ==
  ASSUME TableInv, NEW rule \in alive, DeleteRule(rule)
  PROVE  TableInv'
<1> DEFINE Detached(r) == IF r.rule = rule THEN [r EXCEPT !.rule = NoRule] ELSE r
           detached == [r \in table |-> Detached(r)]
<1>1. /\ table' = {Detached(r) : r \in table}
      /\ alive' = alive \ {rule} /\ UNCHANGED <<lastId, pending>>
  BY DEF DeleteRule
<1>2. \A r \in table : /\ r \in [id: 1..lastId, exchange: Exchanges, rule: Rules \cup {NoRule}]
                       /\ r \in AnyRow
  BY DEF TableInv, TableTypeOK, Listing
<1>3. \A r \in table : /\ Detached(r).id = r.id
                       /\ Detached(r) \in [id: 1..lastId, exchange: Exchanges, rule: Rules \cup {NoRule}]
                       /\ Detached(r) \in AnyRow
  BY <1>2 DEF AnyRow
<1>4. IsFiniteSet(table')
  <2>1. detached \in Surjection(table, table')
    BY <1>1 DEF Surjection
  <2>2. QED
    BY <2>1, FS_Surjection DEF TableInv, Listing
<1> HIDE DEF Detached
<1>5. \A r, s \in table' : r.id = s.id => r = s
  BY <1>1, <1>3 DEF TableInv, Listing
<1>6. QED
  BY <1>1, <1>3, <1>4, <1>5 DEF TableInv, TableTypeOK, Listing

LEMMA TableNextInv ==
  ASSUME TableInv, TableNext
  PROVE  TableInv'
<1>1. CASE \E x \in Exchanges : InsertLog(x)
  BY <1>1, InsertInv
<1>2. CASE \E id \in RowIds(table) : DeleteLog(id)
  BY <1>2, FewerRows DEF DeleteLog
<1>3. CASE \E f \in Filters : DeleteLogs(f.from, f.rule)
  BY <1>3, FewerRows DEF DeleteLogs
<1>4. CASE \E rule \in alive : DeleteRule(rule)
  BY <1>4, DeleteRuleInv
<1>5. QED
  BY <1>1, <1>2, <1>3, <1>4 DEF TableNext

\* No step gives the id of a row to another exchange, or puts ids back.
IdsStay ==
    /\ \A r \in table, t \in table' : r.id = t.id => r.exchange = t.exchange
    /\ \A t \in table' : t.id \in RowIds(table) \/ t.id > lastId
    /\ lastId <= lastId'

LEMMA TableNextKeepsIds ==
  ASSUME TableInv, TableNext
  PROVE  IdsStay
<1> USE DEF TableInv, TableTypeOK
<1>1. ASSUME NEW x \in Exchanges, InsertLog(x) PROVE IdsStay
  <2>1. CASE UNCHANGED <<table, lastId>>
    BY <2>1 DEF IdsStay, Listing, RowIds
  <2>2. CASE ~UNCHANGED <<table, lastId>>
    <3>1. /\ table' = table \cup {[id |-> lastId + 1, exchange |-> x, rule |-> RuleOf[x]]}
          /\ lastId' = lastId + 1
      BY <1>1, <2>2 DEF InsertLog
    <3>2. \A r \in table : r.id \in 1..lastId
      OBVIOUS
    <3>3. QED
      BY <3>1, <3>2 DEF IdsStay, Listing, RowIds
  <2>3. QED
    BY <2>1, <2>2
<1>2. CASE \E id \in RowIds(table) : DeleteLog(id)
  BY <1>2 DEF DeleteLog, IdsStay, Listing, RowIds
<1>3. CASE \E f \in Filters : DeleteLogs(f.from, f.rule)
  BY <1>3 DEF DeleteLogs, IdsStay, Listing, RowIds
<1>4. ASSUME NEW rule \in alive, DeleteRule(rule) PROVE IdsStay
  <2>1. \A t \in table' : \E r \in table : r.id = t.id /\ r.exchange = t.exchange
    <3>1. \A r \in table : r \in AnyRow
      BY DEF Listing
    <3>2. \A r \in table : [r EXCEPT !.rule = NoRule].id = r.id
                           /\ [r EXCEPT !.rule = NoRule].exchange = r.exchange
      BY <3>1 DEF AnyRow
    <3>3. QED
      BY <1>4, <3>2 DEF DeleteRule
  <2>2. lastId' = lastId
    BY <1>4 DEF DeleteRule
  <2>3. QED
    BY <2>1, <2>2 DEF IdsStay, Listing, RowIds
<1>5. QED
  BY <1>1, <1>2, <1>3, <1>4 DEF TableNext

-----------------------------------------------------------------------------
(* The sign-in by itself, for any tokens and any number of requests *)

\* A request on its way whose answer will show the gate, or that is followed by
\* one with the token of then.
Pending(c) ==
    /\ c.answer # "none"
    /\ c.left = 0 => c.answer \in {"awaited", "refused"} /\ c.token # RequiredToken

ShutInv ==
    ~unheard /\ token # RequiredToken /\ ~gate => \E s \in CallSlots : Pending(calls[s])

\* Only the first request of a sign-in stands between a right token and the page.
OpenInv ==
    gate /\ token = RequiredToken /\ ~overtaken =>
        \E s \in CallSlots : calls[s].left = 4 /\ calls[s].answer # "none"

RefusalInv ==
    \A s \in CallSlots : calls[s].answer = "refused" => calls[s].token # RequiredToken

SessionInv == SessionTypeOK /\ ShutInv /\ OpenInv /\ RefusalInv

LEMMA CallType ==
  ASSUME NEW left \in 0..4, NEW t \in Tokens \cup {NoToken}
  PROVE  /\ Call(left, t) \in [left: 0..4, token: Tokens \cup {NoToken},
                              answer: {"none", "awaited", "ok", "refused", "lost"}]
         /\ Call(left, t).left = left /\ Call(left, t).token = t
         /\ Call(left, t).answer = "awaited"
  BY DEF Call

LEMMA SessionInitInv == SessionInit(Tokens \cup {NoToken}) => SessionInv
<1> SUFFICES ASSUME SessionInit(Tokens \cup {NoToken}) PROVE SessionInv
  OBVIOUS
<1>1. PICK first \in CallSlots :
        calls = [s \in CallSlots |-> IF s = first /\ token # NoToken THEN Call(3, token) ELSE NoCall]
  BY DEF SessionInit
<1>2. /\ token \in Tokens \cup {NoToken} /\ gate = (token = NoToken)
      /\ overtaken = FALSE /\ unheard = FALSE
  BY DEF SessionInit
<1>3. SessionTypeOK
  <2>1. gate \in BOOLEAN /\ overtaken \in BOOLEAN /\ unheard \in BOOLEAN
    BY <1>2
  <2>2. token # NoToken => Call(3, token) \in [left: 0..4, token: Tokens \cup {NoToken},
                              answer: {"none", "awaited", "ok", "refused", "lost"}]
    BY <1>2, CallType
  <2>3. calls \in [CallSlots -> [left: 0..4, token: Tokens \cup {NoToken},
                                answer: {"none", "awaited", "ok", "refused", "lost"}]]
    BY <1>1, <2>2 DEF NoCall
  <2>4. QED
    BY <1>2, <2>1, <2>3 DEF SessionTypeOK
<1>4. RefusalInv
  BY <1>1 DEF RefusalInv, Call, NoCall
<1>5. ShutInv
  <2>1. SUFFICES ASSUME ~gate PROVE Pending(calls[first])
    BY DEF ShutInv
  <2>2. token # NoToken
    BY <1>2, <2>1
  <2>3. calls[first] = Call(3, token)
    BY <1>1, <2>2
  <2>4. calls[first].answer = "awaited" /\ calls[first].left = 3
    BY <2>3 DEF Call
  <2>5. QED
    BY <2>4 DEF Pending
<1>6. OpenInv
  BY <1>2, SessionAssumption DEF OpenInv, SessionAssumption
<1>7. QED
  BY <1>3, <1>4, <1>5, <1>6 DEF SessionInv

LEMMA SessionNextTypes == SessionTypeOK /\ [SessionNext]_sessionVars => SessionTypeOK'
<1> SUFFICES ASSUME SessionTypeOK, [SessionNext]_sessionVars PROVE SessionTypeOK'
  OBVIOUS
<1> USE DEF SessionTypeOK
<1>1. CASE Logout
  BY <1>1 DEF Logout
<1>2. ASSUME NEW s \in CallSlots, Answer(s) \/ AnswerIsLost(s) PROVE SessionTypeOK'
  BY <1>2, ZenonT(60) DEF Answer, AnswerIsLost
<1>3. ASSUME NEW s \in CallSlots, AnswerArrives(s) PROVE SessionTypeOK'
  <2>1. calls[s].left # 0 => calls[s].left - 1 \in 0..4
    OBVIOUS
  <2>2. calls' \in [CallSlots -> [left: 0..4, token: Tokens \cup {NoToken},
                                 answer: {"none", "awaited", "ok", "refused", "lost"}]]
    BY <1>3, <2>1 DEF AnswerArrives, Continue, NoCall, Call
  <2>3. QED
    BY <1>3, <2>2 DEF AnswerArrives
<1>4. ASSUME NEW s \in CallSlots, LoadSomething(s) PROVE SessionTypeOK'
  BY <1>4 DEF LoadSomething, Call
<1>5. ASSUME NEW s \in CallSlots, NEW t \in Tokens, LoginWithToken(s, t) PROVE SessionTypeOK'
  <2>1. Call(4, t) \in [left: 0..4, token: Tokens \cup {NoToken},
                       answer: {"none", "awaited", "ok", "refused", "lost"}]
    BY CallType
  <2>2. QED
    BY <1>5, <2>1 DEF LoginWithToken
<1>6. CASE UNCHANGED sessionVars
  BY <1>6 DEF sessionVars
<1>7. QED
  BY <1>1, <1>2, <1>3, <1>4, <1>5, <1>6 DEF SessionNext

LEMMA SessionNextInv == SessionInv /\ [SessionNext]_sessionVars => SessionInv'
<1> SUFFICES ASSUME SessionInv, [SessionNext]_sessionVars PROVE SessionInv'
  OBVIOUS
<1>0. SessionTypeOK /\ SessionTypeOK'
  BY SessionNextTypes DEF SessionInv
<1>1. CASE Logout
  <2>1. gate' /\ token' = NoToken /\ calls' = calls
    BY <1>1 DEF Logout
  <2>2. QED
    BY <1>0, <2>1, SessionAssumption
    DEF SessionInv, ShutInv, OpenInv, RefusalInv, SessionAssumption
<1>2. ASSUME NEW s \in CallSlots, Answer(s) PROVE SessionInv'
  <2>1. /\ calls[s].answer = "awaited" /\ UNCHANGED <<token, gate, overtaken, unheard>>
        /\ calls' = [calls EXCEPT ![s].answer =
                        IF Admitted({calls[s].token}) THEN "ok" ELSE "refused"]
    BY <1>2 DEF Answer
  <2>2. /\ calls'[s].left = calls[s].left /\ calls'[s].token = calls[s].token
        /\ calls'[s].answer = IF Admitted({calls[s].token}) THEN "ok" ELSE "refused"
        /\ \A r \in CallSlots \ {s} : calls'[r] = calls[r]
    BY <1>0, <2>1 DEF SessionTypeOK
  <2>3. Admitted({calls[s].token}) <=> calls[s].token = RequiredToken
    BY SessionAssumption DEF Admitted, SessionAssumption
  <2>4. RefusalInv'
    BY <2>2, <2>3 DEF SessionInv, RefusalInv
  <2>5. \A r \in CallSlots : Pending(calls[r]) => Pending(calls'[r])
    BY <2>1, <2>2, <2>3 DEF Pending
  <2>6. ShutInv'
    BY <2>1, <2>5 DEF SessionInv, ShutInv, Pending
  <2>7. OpenInv'
    BY <2>1, <2>2 DEF SessionInv, OpenInv
  <2>8. QED
    BY <1>0, <2>4, <2>6, <2>7 DEF SessionInv
<1>3. ASSUME NEW s \in CallSlots, AnswerIsLost(s) PROVE SessionInv'
  <2>1. /\ unheard' /\ calls[s].answer = "awaited" /\ UNCHANGED <<token, gate, overtaken>>
        /\ calls' = [calls EXCEPT ![s].answer = "lost"]
    BY <1>3 DEF AnswerIsLost
  <2>2. /\ calls'[s].left = calls[s].left /\ calls'[s].answer = "lost"
        /\ \A r \in CallSlots \ {s} : calls'[r] = calls[r]
    BY <1>0, <2>1 DEF SessionTypeOK
  <2>3. RefusalInv' /\ OpenInv'
    BY <2>1, <2>2 DEF SessionInv, RefusalInv, OpenInv
  <2>4. QED
    BY <1>0, <2>1, <2>3 DEF SessionInv, ShutInv
<1>4. ASSUME NEW s \in CallSlots, AnswerArrives(s) PROVE SessionInv'
  <2>1. /\ calls[s].answer \in {"ok", "refused", "lost"} /\ UNCHANGED <<token, unheard>>
        /\ gate' = IF calls[s].left = 4 THEN FALSE ELSE gate \/ Refused(s)
        /\ overtaken' = IF calls[s].left = 4 THEN FALSE
                        ELSE overtaken \/ (Refused(s) /\ calls[s].token # token)
    BY <1>4 DEF AnswerArrives
  <2>2. /\ calls'[s] = IF calls[s].left = 0 THEN NoCall ELSE Call(calls[s].left - 1, token)
        /\ \A r \in CallSlots \ {s} : calls'[r] = calls[r]
    BY <1>0, <1>4 DEF AnswerArrives, Continue, SessionTypeOK
  <2>3. RefusalInv'
    BY <2>2 DEF SessionInv, RefusalInv, NoCall, Call
  <2>4. ShutInv'
    <3> SUFFICES ASSUME ~unheard', token' # RequiredToken, ~gate'
                 PROVE  \E r \in CallSlots : Pending(calls'[r])
      BY DEF ShutInv, Pending
    <3>1. CASE calls[s].left # 0
      <4>1. Pending(calls'[s])
        BY <2>1, <2>2, <3>1 DEF Pending, Call
      <4>2. QED
        BY <4>1
    <3>2. CASE calls[s].left = 0
      <4>0. gate' = (gate \/ Refused(s))
        BY <2>1, <3>2
      <4>1. ~gate /\ calls[s].answer # "refused"
        BY <4>0 DEF Refused
      <4>2. PICK r \in CallSlots : Pending(calls[r])
        BY <2>1, <4>1 DEF SessionInv, ShutInv
      <4>3. r # s
        BY <2>1, <3>2, <4>1, <4>2 DEF Pending
      <4>4. QED
        BY <2>2, <4>2, <4>3
    <3>3. QED
      BY <3>1, <3>2
  <2>5. OpenInv'
    <3> SUFFICES ASSUME gate', token' = RequiredToken, ~overtaken'
                 PROVE  \E r \in CallSlots : calls'[r].left = 4 /\ calls'[r].answer # "none"
      BY DEF OpenInv
    <3>1. calls[s].left # 4 /\ ~overtaken
      BY <2>1
    <3>2. ~Refused(s)
      BY <2>1, <3>1 DEF SessionInv, RefusalInv, Refused
    <3>3. gate
      BY <2>1, <3>1, <3>2
    <3>4. PICK r \in CallSlots : calls[r].left = 4 /\ calls[r].answer # "none"
      BY <2>1, <3>1, <3>3 DEF SessionInv, OpenInv
    <3>5. QED
      BY <2>2, <3>1, <3>4
  <2>6. QED
    BY <1>0, <2>3, <2>4, <2>5 DEF SessionInv
<1>5. ASSUME NEW s \in CallSlots, LoadSomething(s) PROVE SessionInv'
  <2>1. /\ calls[s] = NoCall /\ UNCHANGED <<token, gate, overtaken, unheard>>
        /\ calls'[s] = Call(0, token) /\ \A r \in CallSlots \ {s} : calls'[r] = calls[r]
    BY <1>0, <1>5 DEF LoadSomething, SessionTypeOK
  <2>2. RefusalInv'
    BY <2>1 DEF SessionInv, RefusalInv, Call
  <2>3. \A r \in CallSlots : Pending(calls[r]) => r # s
    BY <2>1 DEF Pending, NoCall
  <2>4. ShutInv'
    BY <2>1, <2>3 DEF SessionInv, ShutInv, Pending
  <2>5. OpenInv'
    BY <2>1 DEF SessionInv, OpenInv, NoCall
  <2>6. QED
    BY <1>0, <2>2, <2>4, <2>5 DEF SessionInv
<1>6. ASSUME NEW s \in CallSlots, NEW t \in Tokens, LoginWithToken(s, t) PROVE SessionInv'
  <2>1. calls'[s] = Call(4, t) /\ \A r \in CallSlots \ {s} : calls'[r] = calls[r]
    BY <1>0, <1>6 DEF LoginWithToken, SessionTypeOK
  <2>2. RefusalInv'
    BY <2>1 DEF SessionInv, RefusalInv, Call
  <2>3. Pending(calls'[s]) /\ calls'[s].left = 4 /\ calls'[s].answer # "none"
    BY <2>1 DEF Pending, Call
  <2>4. ShutInv' /\ OpenInv'
    BY <2>3 DEF ShutInv, OpenInv, Pending
  <2>5. QED
    BY <1>0, <2>2, <2>4 DEF SessionInv
<1>7. CASE UNCHANGED sessionVars
  BY <1>0, <1>7 DEF sessionVars, SessionInv, ShutInv, OpenInv, RefusalInv, Pending
<1>8. QED
  BY <1>1, <1>2, <1>3, <1>4, <1>5, <1>6, <1>7 DEF SessionNext

\* The two properties below are parts of one invariant: what may still be on its
\* way while the gate is not where it should be.
THEOREM SessionInvariance == SessionSpec => []SessionInv
  BY SessionInitInv, SessionNextInv, PTL DEF SessionSpec

\* A wrong token never leaves the page open for good (loginWithToken lifts the
\* gate before it has looked at any answer).
THEOREM WrongTokenStaysOut == SessionSpec => []WrongTokenIsShut
<1>1. SessionInv => WrongTokenIsShut
  BY DEF SessionInv, ShutInv, WrongTokenIsShut, Quiet, Pending, NoCall
<1>2. QED
  BY <1>1, SessionInvariance, PTL

\* Nothing but the late refusal of another token shuts out a right one.
THEOREM RightTokenGetsIn == SessionSpec => []RightTokenIsShutByOldAnswers
<1>1. SessionInv => RightTokenIsShutByOldAnswers
  BY DEF SessionInv, OpenInv, RightTokenIsShutByOldAnswers, Quiet, NoCall
<1>2. QED
  BY <1>1, SessionInvariance, PTL

-----------------------------------------------------------------------------
(* The sign-in within the composition *)

LEMMA SessionAlone == Spec => SessionSpec
<1>1. Init => SessionInit(Tokens \cup {NoToken})
  BY DEF Init, SessionInit
<1>2. [Next]_vars => [SessionNext]_sessionVars
  BY DEF Next, vars, ListStep, sessionVars
<1>3. QED
  BY <1>1, <1>2, PTL DEF Spec, SessionSpec

\* A wrong token ends before the gate, whatever else goes on.
THEOREM WrongTokenMeetsGate == Spec => []WrongTokenIsShut
  BY SessionAlone, WrongTokenStaysOut, PTL

\* A right token is shut out by answers to another token only.
THEOREM RightTokenPassesGate == Spec => []RightTokenIsShutByOldAnswers
  BY SessionAlone, RightTokenGetsIn, PTL

-----------------------------------------------------------------------------
(* Reading page by page: the inductive invariant *)

\* What the pages so far have to do with the places of the rows.
PagesInv ==
    readerPc \in {"count", "page"} =>
        /\ stay \subseteq RowIds(InList)
        /\ ~shrunk => \A r \in InList :
              r.id \in stay /\ Place(r, InList) < offset => r.id \in seen
        /\ ~grown => \A r \in InList : r.id \in seen => Place(r, InList) < offset

CountInv == readerPc = "page" /\ steady => total = Cardinality(RowIds(InList))

IdleInv ==
    /\ client # "reader" => readerPc = "idle"
    /\ readerPc = "idle" => offset = 0 /\ seen = {} /\ ~steady

ReaderInv ==
    /\ ReaderTypeOK /\ IdleInv /\ PagesInv /\ CountInv
    /\ PagingMissesNothing /\ PagingRepeatsNothing /\ TotalAgrees

ListInv == TableInv /\ ReaderInv

LEMMA LimitIsPositive ==
  ASSUME ReaderTypeOK
  PROVE  Limit \in Nat /\ Limit > 0
<1>1. request.limit \in Int
  <2>1. request.limit \in Limits \/ request.limit = 0
    BY DEF ReaderTypeOK
  <2>2. \A l \in Limits : l \in Int
    BY ReaderAssumption DEF ReaderAssumption
  <2>3. CASE request.limit \in Limits
    BY <2>2, <2>3
  <2>4. CASE request.limit = 0
    BY <2>4
  <2>5. QED
    BY <2>1, <2>3, <2>4
<1>2. DefaultLimit \in Nat /\ DefaultLimit > 0 /\ MaxLimit \in Nat /\ MaxLimit > 0
  BY LogListAssumption DEF LogListAssumption
<1>3. QED
  BY <1>1, <1>2 DEF Limit, PageLimit

LEMMA InListIsListing ==
  ASSUME TableInv
  PROVE  Listing(InList)
  BY SublistIsListing DEF TableInv, InList, Selected

LEMMA ListInitInv == Init => ListInv
<1> SUFFICES ASSUME Init PROVE ListInv
  OBVIOUS
<1>1. TableInv
  <2>1. TableInit(InFlight[client]) /\ InFlight[client] \in SUBSET Exchanges
    BY LogViewsAssumption DEF Init, LogViewsAssumption
  <2>2. QED
    BY <2>1, TableInitInv
<1>2. ReaderInv
  BY DEF Init, ReaderInit, ReaderInv, ReaderTypeOK, IdleInv, PagesInv, CountInv,
         PagingMissesNothing, PagingRepeatsNothing, TotalAgrees
<1>3. QED
  BY <1>1, <1>2 DEF ListInv

-----------------------------------------------------------------------------
(* Steps of the reader *)

LEMMA SameList ==
  ASSUME UNCHANGED <<tableVars, request>>
  PROVE  InList' = InList
  BY DEF tableVars, InList, Selected

LEMMA StartReadingInv ==
  ASSUME ListInv, client = "reader", UNCHANGED client,
         NEW f \in Filters, NEW limit \in Limits, StartReading(f, limit)
  PROVE  ReaderInv'
<1> USE DEF StartReading
<1>1. /\ readerPc = "idle" /\ readerPc' = "count" /\ offset = 0 /\ seen = {} /\ ~steady
      /\ request' = [filter |-> f, limit |-> limit]
      /\ stay' = RowIds(Selected(f))
      /\ UNCHANGED <<offset, total, page, seen, repeated, grown, shrunk, steady, tableVars>>
  BY DEF ListInv, ReaderInv, IdleInv
<1>2. InList' = Selected(f) /\ Listing(Selected(f))
  BY <1>1, SublistIsListing DEF InList, Selected, tableVars, ListInv, TableInv
<1>3. ReaderTypeOK'
  <2>1. \A r \in Selected(f) : r.id \in 1..lastId
    BY DEF Selected, ListInv, TableInv, TableTypeOK
  <2>2. stay' \subseteq 1..lastId'
    BY <1>1, <2>1 DEF RowIds, tableVars
  <2>3. QED
    BY <1>1, <2>2 DEF ListInv, ReaderInv, ReaderTypeOK, tableVars
<1>4. PagesInv'
  <2>1. \A r \in Selected(f) : Place(r, Selected(f)) \in Nat
    BY <1>2, PlaceIsIndex
  <2>2. \A r \in Selected(f) : ~(Place(r, Selected(f)) < 0)
    BY <2>1
  <2>3. QED
    BY <1>1, <1>2, <2>2 DEF PagesInv
<1>5. IdleInv' /\ CountInv' /\ PagingMissesNothing' /\ TotalAgrees'
  BY <1>1 DEF IdleInv, CountInv, PagingMissesNothing, TotalAgrees
<1>6. PagingRepeatsNothing'
  BY <1>1 DEF ListInv, ReaderInv, PagingRepeatsNothing
<1>7. QED
  BY <1>3, <1>4, <1>5, <1>6 DEF ReaderInv

LEMMA CountRowsInv ==
  ASSUME ListInv, client = "reader", UNCHANGED client, CountRows
  PROVE  ReaderInv'
<1>1. /\ readerPc = "count" /\ readerPc' = "page"
      /\ total' = Cardinality(InList) /\ steady' = TRUE
      /\ UNCHANGED <<request, offset, page, seen, stay, repeated, grown, shrunk, tableVars>>
  BY DEF CountRows
<1>2. InList' = InList /\ Listing(InList)
  BY <1>1, SameList, InListIsListing DEF ListInv
<1>3. Cardinality(InList) \in Nat /\ Cardinality(RowIds(InList)) = Cardinality(InList)
  BY <1>2, AsManyIds, PlacesAreTaken
<1>4. ReaderTypeOK'
  BY <1>1, <1>3 DEF ListInv, ReaderInv, ReaderTypeOK, tableVars
<1>5. PagesInv' /\ CountInv' /\ IdleInv'
  BY <1>1, <1>2, <1>3 DEF ListInv, ReaderInv, PagesInv, CountInv, IdleInv
<1>6. PagingMissesNothing' /\ PagingRepeatsNothing' /\ TotalAgrees'
  BY <1>1 DEF ListInv, ReaderInv, PagingMissesNothing, PagingRepeatsNothing, TotalAgrees
<1>7. QED
  BY <1>4, <1>5, <1>6 DEF ReaderInv

\* The page and the next offset, in numbers.
LEMMA PageByPlaces ==
  ASSUME ListInv
  PROVE  LET W == Window(request.filter, Limit, offset)
             n == Cardinality(InList)
             left == IF n > offset THEN n - offset ELSE 0
         IN /\ n \in Nat
            /\ Cardinality(W) = IF left < Limit THEN left ELSE Limit
            /\ Cardinality(RowIds(W)) = Cardinality(W)
            /\ \A r \in InList : /\ Place(r, InList) \in 0..(n - 1)
                                 /\ r \in W <=> /\ offset <= Place(r, InList)
                                                /\ Place(r, InList) < offset + Limit
            /\ W \subseteq InList
<1> DEFINE W == Window(request.filter, Limit, offset)
<1>1. Listing(InList) /\ Limit \in Nat /\ offset \in Nat
  BY InListIsListing, LimitIsPositive DEF ListInv, ReaderInv, ReaderTypeOK
<1>2. W = Piece(InList, Limit, offset)
  BY WindowIsPiece DEF InList
<1>3. W \subseteq InList /\ Listing(W)
  BY <1>1, <1>2, SublistIsListing DEF Piece
<1>4. \A r \in InList : /\ Place(r, InList) \in 0..(Cardinality(InList) - 1)
                        /\ r \in W <=> /\ offset <= Place(r, InList)
                                       /\ Place(r, InList) < offset + Limit
  BY <1>1, <1>2, PlaceIsIndex DEF Piece
<1>5. Cardinality(InList) \in Nat /\ Cardinality(RowIds(W)) = Cardinality(W)
  BY <1>1, <1>3, PlacesAreTaken, AsManyIds
<1>6. LET left == IF Cardinality(InList) > offset THEN Cardinality(InList) - offset ELSE 0
      IN Cardinality(W) = IF left < Limit THEN left ELSE Limit
  BY <1>1, <1>2, SizeOfPiece
<1>7. QED
  BY <1>3, <1>4, <1>5, <1>6

LEMMA SelectPageInv ==
  ASSUME ListInv, client = "reader", UNCHANGED client, SelectPage
  PROVE  ReaderInv'
<1> DEFINE W == Window(request.filter, Limit, offset)
           n == Cardinality(InList)
           size == Cardinality(W)
<1>1. /\ readerPc = "page" /\ readerPc' = IF size < Limit THEN "done" ELSE "count"
      /\ page' = RowIds(W) /\ offset' = offset + size /\ seen' = seen \cup RowIds(W)
      /\ repeated' = (repeated \/ seen \cap RowIds(W) # {})
      /\ UNCHANGED <<request, total, stay, grown, shrunk, steady, tableVars>>
  BY DEF SelectPage
<1>2. InList' = InList /\ Limit' = Limit
  BY <1>1, SameList DEF Limit
<1>3. /\ ReaderTypeOK /\ Limit \in Nat /\ Limit > 0 /\ offset \in Nat /\ Listing(InList)
      /\ PagesInv /\ CountInv /\ PagingRepeatsNothing
  BY LimitIsPositive, InListIsListing DEF ListInv, ReaderInv, ReaderTypeOK
<1>4. /\ n \in Nat
      /\ size = LET left == IF n > offset THEN n - offset ELSE 0
                IN IF left < Limit THEN left ELSE Limit
      /\ Cardinality(RowIds(W)) = size
      /\ W \subseteq InList
      /\ \A r \in InList : Place(r, InList) \in 0..(n - 1)
      /\ \A r \in InList : r \in W <=> /\ offset <= Place(r, InList)
                                       /\ Place(r, InList) < offset + Limit
  BY PageByPlaces
<1>5. size \in Nat
  BY <1>3, <1>4
<1>6. \A r, s \in InList : r.id = s.id => r = s
  BY <1>3 DEF Listing
<1>7. \A r \in InList : r.id \in RowIds(W) <=> r \in W
  BY <1>4, <1>6 DEF RowIds
<1> HIDE DEF n, size, W
<1>8. \A r \in InList : r \in W => Place(r, InList) < offset + size
  BY <1>3, <1>4
<1>9. \A r \in InList : Place(r, InList) < offset + size =>
                           Place(r, InList) < offset \/ r \in W
  BY <1>3, <1>4, <1>5
<1>10. PagesInv'
  <2>1. SUFFICES ASSUME readerPc' = "count"
                 PROVE  /\ stay \subseteq RowIds(InList)
                        /\ ~shrunk => \A r \in InList :
                              r.id \in stay /\ Place(r, InList) < offset + size => r.id \in seen'
                        /\ ~grown => \A r \in InList :
                              r.id \in seen' => Place(r, InList) < offset + size
    BY <1>1, <1>2 DEF PagesInv
  <2>2. ASSUME ~shrunk, NEW r \in InList, r.id \in stay, Place(r, InList) < offset + size
        PROVE  r.id \in seen'
    BY <1>1, <1>3, <1>7, <1>9, <2>2 DEF PagesInv
  <2>3. ASSUME ~grown, NEW r \in InList, r.id \in seen'
        PROVE  Place(r, InList) < offset + size
    <3>1. CASE r.id \in seen
      BY <1>1, <1>3, <1>4, <1>5, <2>3, <3>1 DEF PagesInv
    <3>2. CASE r.id \in RowIds(W)
      BY <1>7, <1>8, <3>2
    <3>3. QED
      BY <1>1, <2>3, <3>1, <3>2
  <2>4. QED
    BY <1>1, <1>3, <2>2, <2>3 DEF PagesInv
<1>11. PagingMissesNothing'
  <2>1. SUFFICES ASSUME size < Limit, ~shrunk, NEW i \in stay PROVE i \in seen'
    BY <1>1 DEF PagingMissesNothing
  <2>2. PICK r \in InList : r.id = i
    BY <1>1, <1>3 DEF PagesInv, RowIds
  <2>3. Place(r, InList) < offset \/ r \in W
    BY <1>3, <1>4, <2>1
  <2>4. QED
    BY <1>1, <1>3, <1>7, <2>1, <2>2, <2>3 DEF PagesInv
<1>12. PagingRepeatsNothing'
  <2>1. SUFFICES ASSUME seen \cap RowIds(W) # {} PROVE grown
    BY <1>1, <1>3 DEF PagingRepeatsNothing
  <2>2. PICK r \in W : r.id \in seen
    BY <2>1 DEF RowIds
  <2>3. r \in InList /\ offset <= Place(r, InList) /\ Place(r, InList) \in Nat
    BY <1>4
  <2>4. ~(Place(r, InList) < offset)
    BY <1>3, <2>3
  <2>5. QED
    BY <1>1, <1>3, <2>2, <2>3, <2>4 DEF PagesInv
<1>13. TotalAgrees'
  <2>1. SUFFICES ASSUME steady' PROVE TotalAgrees'
    BY DEF TotalAgrees
  <2>2. total' = n
    BY <1>1, <1>3, <2>1, AsManyIds DEF CountInv, n
  <2>3. Cardinality(page') = size /\ offset' - size = offset
    BY <1>1, <1>3, <1>4, <1>5
  <2>4. size = LET left == IF total' > offset' - Cardinality(page')
                           THEN total' - (offset' - Cardinality(page')) ELSE 0
               IN IF left < Limit' THEN left ELSE Limit'
    BY <1>2, <1>4, <2>2, <2>3
  <2>5. QED
    BY <2>3, <2>4 DEF TotalAgrees
<1>14. ReaderTypeOK'
  <2>1. RowIds(W) \subseteq 1..lastId
    BY <1>4 DEF RowIds, InList, Selected, ListInv, TableInv, TableTypeOK
  <2>2. offset + size \in Nat
    BY <1>3, <1>5
  <2>3. QED
    BY <1>1, <1>3, <2>1, <2>2 DEF ReaderTypeOK, tableVars
<1>15. IdleInv' /\ CountInv'
  BY <1>1 DEF IdleInv, CountInv, ListInv, ReaderInv
<1>16. QED
  BY <1>10, <1>11, <1>12, <1>13, <1>14, <1>15 DEF ReaderInv

-----------------------------------------------------------------------------
(* Steps of the table while the reader reads *)

\* A list whose ids are among those of another has its rows among the rows of it.
LEMMA ListsOverlap ==
  ASSUME IdsStay, NEW f
  PROVE  /\ RowIds(Selected(f)) \subseteq RowIds(Selected(f)') =>
               Within(Selected(f), Selected(f)')
         /\ RowIds(Selected(f)') \subseteq RowIds(Selected(f)) =>
               Within(Selected(f)', Selected(f))
<1>1. Selected(f) \subseteq table /\ Selected(f)' \subseteq table'
  BY DEF Selected
<1>2. \A r \in table, t \in table' : r.id = t.id => r.exchange = t.exchange
  BY DEF IdsStay
<1> DEFINE S == Selected(f)
           T == Selected(f)'
<1> HIDE DEF S, T
<1>3. S \subseteq table /\ T \subseteq table'
  BY <1>1 DEF S, T
<1>4. RowIds(S) \subseteq RowIds(T) => Within(S, T)
  BY <1>2, <1>3 DEF RowIds, Within
<1>5. RowIds(T) \subseteq RowIds(S) => Within(T, S)
  BY <1>2, <1>3 DEF RowIds, Within
<1>6. QED
  BY <1>4, <1>5 DEF S, T

LEMMA WatchInv ==
  ASSUME ListInv, TableInv', IdsStay, Watch, UNCHANGED client
  PROVE  ReaderInv'
<1>1. CASE readerPc \notin {"count", "page"}
  <2>1. UNCHANGED readerVars
    BY <1>1 DEF Watch
  <2>2. lastId <= lastId' /\ lastId \in Nat /\ lastId' \in Nat
    BY DEF IdsStay, ListInv, TableInv, TableTypeOK
  <2>3. ReaderTypeOK'
    BY <2>1, <2>2 DEF ListInv, ReaderInv, ReaderTypeOK, readerVars
  <2>4. Limit' = Limit
    BY <2>1 DEF Limit, readerVars
  <2>5. IdleInv' /\ PagesInv' /\ CountInv' /\ PagingMissesNothing' /\ PagingRepeatsNothing'
    BY <1>1, <2>1 DEF ListInv, ReaderInv, readerVars, IdleInv, PagesInv, CountInv,
                      PagingMissesNothing, PagingRepeatsNothing
  <2>6. TotalAgrees'
    BY <2>1, <2>4 DEF ListInv, ReaderInv, readerVars, TotalAgrees
  <2>7. QED
    BY <2>3, <2>5, <2>6 DEF ReaderInv
<1>2. CASE readerPc \in {"count", "page"}
  <2> DEFINE L == InList
             M == InList'
  <2>1. /\ UNCHANGED <<readerPc, request, offset, total, page, seen, repeated>>
        /\ stay' = stay \cap RowIds(M)
        /\ grown' = (grown \/ RowIds(M) \ RowIds(L) # {})
        /\ shrunk' = (shrunk \/ RowIds(L) \ RowIds(M) # {})
        /\ steady' = (steady /\ RowIds(M) = RowIds(L))
    BY <1>2 DEF Watch
  <2> PICK f : f = request.filter
    OBVIOUS
  <2>2. L = Selected(f) /\ M = Selected(f)'
    BY <2>1 DEF InList, Selected
  <2>3. Listing(L)
    BY InListIsListing DEF ListInv
  <2>4. Listing(M)
    <3>1. Listing(table') /\ M \subseteq table'
      BY <2>2 DEF TableInv, Selected
    <3>2. QED
      BY <3>1, SublistIsListing
  <2>5. /\ RowIds(L) \subseteq RowIds(M) => Within(L, M)
        /\ RowIds(M) \subseteq RowIds(L) => Within(M, L)
    BY <2>2, ListsOverlap
  <2>6. /\ ReaderTypeOK /\ PagesInv /\ CountInv /\ offset \in Nat
        /\ PagingMissesNothing /\ PagingRepeatsNothing /\ TotalAgrees
    BY DEF ListInv, ReaderInv, ReaderTypeOK
  <2>7. /\ stay \subseteq RowIds(L)
        /\ ~shrunk => \A r \in L : r.id \in stay /\ Place(r, L) < offset => r.id \in seen
        /\ ~grown => \A r \in L : r.id \in seen => Place(r, L) < offset
    BY <1>2, <2>6 DEF PagesInv
  <2> HIDE DEF L, M
  <2>8. ASSUME ~shrunk', NEW r \in M, r.id \in stay', Place(r, M) < offset
        PROVE  r.id \in seen
    <3>1. ~shrunk /\ RowIds(L) \subseteq RowIds(M) /\ r.id \in stay
      BY <2>1, <2>8
    <3>2. PICK s \in L : s.id = r.id
      BY <2>7, <3>1 DEF RowIds
    <3>3. Place(s, L) <= Place(r, M)
      BY <2>3, <2>4, <2>5, <3>1, <3>2, PlacesGrow
    <3>4. Place(s, L) \in Int /\ Place(r, M) \in Int
      BY <2>3, <2>4, PlaceIsIndex
    <3>5. Place(s, L) < offset
      BY <2>6, <2>8, <3>3, <3>4
    <3>6. QED
      BY <2>7, <3>1, <3>2, <3>5
  <2>9. ASSUME ~grown', NEW r \in M, r.id \in seen
        PROVE  Place(r, M) < offset
    <3>1. ~grown /\ RowIds(M) \subseteq RowIds(L)
      BY <2>1, <2>9
    <3>2. PICK s \in L : s.id = r.id
      BY <3>1 DEF RowIds
    <3>3. Place(r, M) <= Place(s, L)
      BY <2>3, <2>4, <2>5, <3>1, <3>2, PlacesGrow
    <3>4. Place(s, L) \in Int /\ Place(r, M) \in Int
      BY <2>3, <2>4, PlaceIsIndex
    <3>5. Place(s, L) < offset
      BY <2>7, <2>9, <3>1, <3>2
    <3>6. QED
      BY <2>6, <3>3, <3>4, <3>5
  <2>10. PagesInv'
    <3>1. stay' \subseteq RowIds(M)
      BY <2>1
    <3>2. QED
      BY <2>1, <2>8, <2>9, <3>1 DEF PagesInv, M
  <2>11. CountInv'
    <3>1. SUFFICES ASSUME readerPc = "page", steady' PROVE total = Cardinality(RowIds(M))
      BY <2>1 DEF CountInv, M
    <3>2. steady /\ RowIds(M) = RowIds(L)
      BY <2>1, <3>1
    <3>3. QED
      BY <2>6, <3>1, <3>2 DEF CountInv, L
  <2>12. ReaderTypeOK'
    <3>1. lastId <= lastId' /\ lastId \in Nat /\ lastId' \in Nat
      BY DEF IdsStay, ListInv, TableInv, TableTypeOK
    <3>2. 1..lastId \subseteq 1..lastId' /\ stay' \subseteq stay
      BY <2>1, <3>1
    <3>3. QED
      BY <2>1, <2>6, <3>2 DEF ReaderTypeOK
  <2>13. IdleInv' /\ PagingMissesNothing'
    BY <1>2, <2>1 DEF ListInv, ReaderInv, IdleInv, PagingMissesNothing
  <2>14. PagingRepeatsNothing'
    BY <2>1, <2>6 DEF PagingRepeatsNothing
  <2>15. TotalAgrees'
    <3>1. Limit' = Limit
      BY <2>1 DEF Limit
    <3>2. steady' => steady
      BY <2>1
    <3>3. QED
      BY <2>1, <2>6, <3>1, <3>2 DEF TotalAgrees
  <2>16. QED
    BY <2>10, <2>11, <2>12, <2>13, <2>14, <2>15 DEF ReaderInv
<1>3. QED
  BY <1>1, <1>2

-----------------------------------------------------------------------------
(* Steps that are not the reader's *)

LEMMA OthersKeepReaderInv ==
  ASSUME ListInv, UNCHANGED <<readerVars, client, lastId>>,
         UNCHANGED tableVars \/ client # "reader"
  PROVE  ReaderInv'
<1>1. ReaderTypeOK' /\ IdleInv'
  BY DEF ListInv, ReaderInv, ReaderTypeOK, IdleInv, readerVars
<1>2. PagesInv' /\ CountInv'
  <2>1. CASE UNCHANGED tableVars
    <3>1. InList' = InList
      BY <2>1, SameList DEF readerVars
    <3>2. QED
      BY <3>1 DEF ListInv, ReaderInv, PagesInv, CountInv, readerVars
  <2>2. CASE client # "reader"
    BY <2>2 DEF ListInv, ReaderInv, IdleInv, PagesInv, CountInv, readerVars
  <2>3. QED
    BY <2>1, <2>2
<1>3. PagingMissesNothing' /\ PagingRepeatsNothing'
  BY DEF ListInv, ReaderInv, PagingMissesNothing, PagingRepeatsNothing, readerVars
<1>4. TotalAgrees'
  <2>1. Limit' = Limit
    BY DEF Limit, readerVars
  <2>2. QED
    BY <2>1 DEF ListInv, ReaderInv, TotalAgrees, readerVars
<1>5. QED
  BY <1>1, <1>2, <1>3, <1>4 DEF ReaderInv

LEMMA SameTableInv ==
  ASSUME TableInv, UNCHANGED tableVars
  PROVE  TableInv'
  BY DEF TableInv, TableTypeOK, Listing, tableVars

LEMMA ListNextKeepsTable == ListNext => ClearLogs \/ UNCHANGED tableVars
<1>1. \A f : ChooseFilter(f) => UNCHANGED tableVars
  BY DEF ChooseFilter
<1>2. \A s : AutoLoad(s) \/ DueLoad(s) \/ CountFor(s) \/ PageFor(s) \/ ListArrives(s)
             \/ ListFails(s) => UNCHANGED tableVars
  BY DEF AutoLoad, DueLoad, CountFor, PageFor, ListArrives, ListFails
<1>3. ToggleAutoRefresh \/ RenderRuleOptions => UNCHANGED tableVars
  BY DEF ToggleAutoRefresh, RenderRuleOptions
<1>4. QED
  BY <1>1, <1>2, <1>3 DEF ListNext

LEMMA ListStepInv ==
  ASSUME ListInv, ListStep(ListNext)
  PROVE  ListInv'
<1>1. client = "list" /\ ListNext /\ UNCHANGED <<readerVars, sessionVars, client>>
  BY DEF ListStep
<1>2. CASE ClearLogs
  <2>1. table' \in SUBSET table /\ UNCHANGED <<lastId, alive, pending>>
    BY <1>2 DEF ClearLogs, DeleteLogs
  <2>2. TableInv'
    BY <2>1, FewerRows DEF ListInv
  <2>3. ReaderInv'
    BY <1>1, <2>1, OthersKeepReaderInv
  <2>4. QED
    BY <2>2, <2>3 DEF ListInv
<1>3. CASE UNCHANGED tableVars
  <2>1. UNCHANGED lastId
    BY <1>3 DEF tableVars
  <2>2. QED
    BY <1>1, <1>3, <2>1, SameTableInv, OthersKeepReaderInv DEF ListInv
<1>4. ClearLogs \/ UNCHANGED tableVars
  BY <1>1, ListNextKeepsTable
<1>5. QED
  BY <1>2, <1>3, <1>4

LEMMA DetailNextKeepsTable == DetailNext => UNCHANGED <<tableVars, listVars>>
<1>1. \A id : OpenLog(id) => UNCHANGED <<tableVars, listVars>>
  BY DEF OpenLog
<1>2. \A l : AnswerLookup(l) \/ RenderLogDetail(l) \/ LookupFails(l) =>
                UNCHANGED <<tableVars, listVars>>
  BY DEF AnswerLookup, RenderLogDetail, LookupFails
<1>3. \A k : ReloadBody(k) => UNCHANGED <<tableVars, listVars>>
  BY DEF ReloadBody
<1>4. \A b : AnswerBody(b) \/ BodyArrives(b) => UNCHANGED <<tableVars, listVars>>
  BY DEF AnswerBody, BodyArrives
<1>5. CloseDetail => UNCHANGED <<tableVars, listVars>>
  BY DEF CloseDetail
<1>6. QED
  BY <1>1, <1>2, <1>3, <1>4, <1>5 DEF DetailNext

LEMMA ReaderNextKeepsTable == ReaderNext => UNCHANGED tableVars
<1>1. \A f, limit : StartReading(f, limit) => UNCHANGED tableVars
  BY DEF StartReading
<1>2. CountRows \/ SelectPage => UNCHANGED tableVars
  BY DEF CountRows, SelectPage
<1>3. QED
  BY <1>1, <1>2 DEF ReaderNext

LEMMA ListNextInv == ListInv /\ [Next]_vars => ListInv'
<1> SUFFICES ASSUME ListInv, [Next]_vars PROVE ListInv'
  OBVIOUS
<1>1. CASE TableNext /\ Watch /\ UNCHANGED <<listVars, detailVars, sessionVars, client>>
  BY <1>1, TableNextInv, TableNextKeepsIds, WatchInv DEF ListInv
<1>2. CASE client = "reader" /\ ReaderNext /\ UNCHANGED <<listVars, detailVars, sessionVars, client>>
  <2>1. TableInv'
    BY <1>2, ReaderNextKeepsTable, SameTableInv DEF ListInv
  <2>2. ReaderInv'
    BY <1>2, StartReadingInv, CountRowsInv, SelectPageInv DEF ReaderNext
  <2>3. QED
    BY <2>1, <2>2 DEF ListInv
<1>3. CASE ListStep(ListNext)
  BY <1>3, ListStepInv
<1>4. CASE UNCHANGED <<tableVars, readerVars, client>>
  <2>1. UNCHANGED lastId
    BY <1>4 DEF tableVars
  <2>2. QED
    BY <1>4, <2>1, SameTableInv, OthersKeepReaderInv DEF ListInv
<1>5. CASE client = "details" /\ DetailNext /\ UNCHANGED <<readerVars, sessionVars, client>>
  BY <1>4, <1>5, DetailNextKeepsTable
<1>6. CASE client = "visitor" /\ SessionNext
           /\ UNCHANGED <<tableVars, readerVars, listVars, detailVars, client>>
  BY <1>4, <1>6
<1>7. CASE UNCHANGED vars
  BY <1>4, <1>7 DEF vars
<1>8. QED
  BY <1>1, <1>2, <1>3, <1>5, <1>6, <1>7 DEF Next

\* ListInv holds of every reachable state.
THEOREM ListInvariance == Spec => []ListInv
  BY ListInitInv, ListNextInv, PTL DEF Spec

-----------------------------------------------------------------------------
(* What lists and pages show *)

\* The first page of any list shows the newest exchanges, to the second.
THEOREM NewestComeFirst == Spec => []FirstPageIsNewest
<1>1. ListInv => FirstPageIsNewest
  BY NewestFirst DEF ListInv, TableInv
<1>2. QED
  BY <1>1, ListInvariance, PTL

\* Times compared as texts decide as the instants do, to the second.
THEOREM TimesAreTrusted == Spec => []TimesHoldToTheSecond
<1>1. ListInv => TimesHoldToTheSecond
  BY TimesHold DEF ListInv, TableInv
<1>2. QED
  BY <1>1, ListInvariance, PTL

\* However many rows are written meanwhile, reading by pages misses none of
\* those that stay.
THEOREM NothingIsMissed == Spec => []PagingMissesNothing
<1>1. ListInv => PagingMissesNothing
  BY DEF ListInv, ReaderInv
<1>2. QED
  BY <1>1, ListInvariance, PTL

\* However many rows are deleted meanwhile, reading by pages repeats none.
THEOREM NothingIsRepeated == Spec => []PagingRepeatsNothing
<1>1. ListInv => PagingRepeatsNothing
  BY DEF ListInv, ReaderInv
<1>2. QED
  BY <1>1, ListInvariance, PTL

\* Total and page of an answer agree unless the list changed between the two.
THEOREM TotalFitsPage == Spec => []TotalAgrees
<1>1. ListInv => TotalAgrees
  BY DEF ListInv, ReaderInv
<1>2. QED
  BY <1>1, ListInvariance, PTL

\* Every variable of the endpoints, the reader and the session keeps its type.
THEOREM TypesKept == Spec => []TypeOK
<1>1. ListInv /\ SessionInv => TypeOK
  BY DEF TypeOK, ListInv, TableInv, ReaderInv, SessionInv
<1>2. QED
  BY <1>1, ListInvariance, SessionAlone, SessionInvariance, PTL

-----------------------------------------------------------------------------
(* The panel of details: the inductive invariant *)

Answers == Exchanges \cup {Loading, Missing}

PanelTypeOK ==
    /\ opens \in Nat
    /\ lookups \subseteq [click: Nat, id: Nat, answer: Answers]
    /\ bodyLoads \subseteq [click: Nat, id: Nat, kind: Kinds, body: [of: Answers, kind: Kinds]]
    /\ bodyCache \subseteq [id: Nat, kind: Kinds, body: [of: Exchanges, kind: Kinds]]
    /\ panel \in [click: Nat, open: BOOLEAN, id: Nat, exchange: Exchanges \cup {Missing},
                  box: [Kinds -> [of: Answers, kind: Kinds]]]

\* The page holds that the row with this id is of exchange x.
Holds(id, x) ==
    \/ \E l \in lookups : l.id = id /\ l.answer = x
    \/ \E b \in bodyLoads : b.id = id /\ b.body.of = x
    \/ \E c \in bodyCache : c.id = id /\ c.body.of = x
    \/ panel.id = id /\ panel.exchange = x

Known(id, x) == Holds(id, x) \/ \E r \in table : r.id = id /\ r.exchange = x

\* An id has meant one exchange ever since it was handed out.
KnownInv ==
    \A id \in Nat, x \in Exchanges :
        Known(id, x) => id <= lastId /\ \A y \in Exchanges : Known(id, y) => x = y

\* A body goes where it was asked for.
KindInv ==
    /\ \A b \in bodyLoads : b.body.kind = b.kind
    /\ \A c \in bodyCache : c.body.kind = c.kind
    /\ \A k \in Kinds : panel.box[k].kind = k

\* What comes from one click is about one id.
ClickInv ==
    /\ panel.click <= opens
    /\ \A l \in lookups : l.click <= opens /\ l.click # panel.click
    /\ \A l, m \in lookups : l.click = m.click => l = m
    /\ \A b \in bodyLoads : /\ b.click <= opens
                            /\ b.click = panel.click => b.id = panel.id
                            /\ \A l \in lookups : l.click # b.click

BoxInv ==
    /\ panel.open => panel.exchange # Missing
    /\ \A k \in Kinds : panel.box[k].of \in {Loading, Missing, panel.exchange}

PanelInv == PanelTypeOK /\ KnownInv /\ KindInv /\ ClickInv /\ BoxInv

LEMMA PanelInitInv == Init => PanelInv
<1> SUFFICES ASSUME Init PROVE PanelInv
  OBVIOUS
<1>1. /\ opens = 0 /\ lookups = {} /\ bodyLoads = {} /\ bodyCache = {} /\ table = {}
      /\ panel = EmptyPanel
  BY DEF Init, ConsoleInit, TableInit
<1>2. /\ panel.click = 0 /\ panel.open = FALSE /\ panel.id = 0 /\ panel.exchange = Missing
      /\ panel.box = [k \in Kinds |-> Box(Missing, k)]
  BY <1>1 DEF EmptyPanel
<1>3. PanelTypeOK
  BY <1>1 DEF PanelTypeOK, EmptyPanel, Answers, Box
<1>4. KnownInv
  BY <1>1, <1>2, ConsoleAssumption DEF KnownInv, Known, Holds, ConsoleAssumption
<1>5. KindInv /\ BoxInv
  BY <1>1, <1>2 DEF KindInv, BoxInv, Box
<1>6. ClickInv
  BY <1>1, <1>2 DEF ClickInv
<1>7. QED
  BY <1>3, <1>4, <1>5, <1>6 DEF PanelInv

\* Steps of the table leave the page alone and hand out fresh ids only.
LEMMA TableKeepsPanelInv ==
  ASSUME PanelInv, TableInv, TableInv', IdsStay, UNCHANGED detailVars
  PROVE  PanelInv'
<1>1. lastId <= lastId' /\ lastId \in Nat /\ lastId' \in Nat
  BY DEF IdsStay, TableInv, TableTypeOK
<1>2. PanelTypeOK' /\ KindInv' /\ ClickInv' /\ BoxInv'
  BY DEF PanelInv, PanelTypeOK, KindInv, ClickInv, BoxInv, detailVars
<1>3. \A id, x : Holds(id, x)' <=> Holds(id, x)
  BY DEF Holds, detailVars
<1>4. \A r \in table' : r.id \in Nat /\ r.exchange \in Exchanges /\ r.id <= lastId'
  BY DEF TableInv, TableTypeOK
<1>5. \A r \in table' : Known(r.id, r.exchange) \/ r.id > lastId
  BY DEF IdsStay, RowIds, Known
<1>6. \A r, s \in table' : r.id = s.id => r = s
  BY DEF TableInv, Listing
<1>7. ASSUME NEW id \in Nat, NEW x \in Exchanges, Known(id, x)'
      PROVE  id <= lastId' /\ \A y \in Exchanges : Known(id, y)' => x = y
  <2>1. \A y \in Exchanges : Known(id, y)' =>
           \/ Known(id, y)
           \/ id > lastId /\ \E r \in table' : r.id = id /\ r.exchange = y
    BY <1>3, <1>5 DEF Known
  <2>2. \A y \in Exchanges : Known(id, y) => id <= lastId
    BY DEF PanelInv, KnownInv
  <2>3. CASE id <= lastId
    <3>1. \A y \in Exchanges : Known(id, y)' => Known(id, y)
      BY <1>1, <2>1, <2>3
    <3>2. QED
      BY <1>1, <1>7, <2>3, <3>1 DEF PanelInv, KnownInv
  <2>4. CASE id > lastId
    <3>1. \A y \in Exchanges : Known(id, y)' => \E r \in table' : r.id = id /\ r.exchange = y
      BY <1>1, <2>1, <2>2, <2>4
    <3>2. QED
      BY <1>4, <1>6, <1>7, <3>1
  <2>5. QED
    BY <1>1, <2>3, <2>4
<1>8. QED
  BY <1>2, <1>7 DEF PanelInv, KnownInv

\* A step of the page that asks and copies learns of no other exchange.
LEMMA NothingNewKnown ==
  ASSUME PanelInv, UNCHANGED tableVars,
         \A id \in Nat, x \in Exchanges : Holds(id, x)' => Known(id, x)
  PROVE  KnownInv'
<1>1. \A id \in Nat, x \in Exchanges : Known(id, x)' => Known(id, x)
  BY DEF Known, tableVars
<1>2. QED
  BY <1>1 DEF PanelInv, KnownInv, tableVars

-----------------------------------------------------------------------------
(* Steps of the panel *)

LEMMA BoxOfIsBox ==
  ASSUME PanelInv, NEW id \in Nat, NEW k \in Kinds
  PROVE  /\ BoxOf(id, k) \in [of: Answers, kind: Kinds]
         /\ BoxOf(id, k).kind = k
         /\ BoxOf(id, k).of = Loading \/ (Known(id, BoxOf(id, k).of) /\ BoxOf(id, k).of \in Exchanges)
<1>1. CASE Cached(id, k) = {}
  <2>1. BoxOf(id, k) = [of |-> Loading, kind |-> k]
    BY <1>1 DEF BoxOf, Box
  <2>2. [of |-> Loading, kind |-> k] \in [of: Answers, kind: Kinds]
    BY DEF Answers
  <2>3. BoxOf(id, k) \in [of: Answers, kind: Kinds]
    BY <2>1, <2>2
  <2>4. BoxOf(id, k).kind = k /\ BoxOf(id, k).of = Loading
    BY <2>1
  <2>5. QED
    BY <2>3, <2>4
<1>2. CASE Cached(id, k) # {}
  <2>1. PICK c \in Cached(id, k) : c = CHOOSE d \in Cached(id, k) : TRUE
    BY <1>2
  <2>2. c \in bodyCache /\ c.id = id /\ c.kind = k /\ BoxOf(id, k) = c.body
    BY <1>2, <2>1 DEF Cached, BoxOf
  <2>3. c.body \in [of: Exchanges, kind: Kinds] /\ c.body.kind = k
    BY <2>2 DEF PanelInv, PanelTypeOK, KindInv
  <2>4. Known(id, c.body.of)
    BY <2>2 DEF Known, Holds
  <2>5. QED
    BY <2>2, <2>3, <2>4 DEF Answers
<1>3. QED
  BY <1>1, <1>2

LEMMA FetchesAsk ==
  ASSUME NEW click \in Nat, NEW id \in Nat, NEW kinds \in SUBSET Kinds,
         NEW b \in Fetches(click, id, kinds)
  PROVE  /\ b \in [click: Nat, id: Nat, kind: Kinds, body: [of: Answers, kind: Kinds]]
         /\ b.click = click /\ b.id = id /\ b.body.of = Loading /\ b.body.kind = b.kind
  BY DEF Fetches, Box, Answers

LEMMA OpenLogInv ==
  ASSUME PanelInv, NEW id \in Nat, OpenLog(id)
  PROVE  PanelInv'
<1> DEFINE new == [click |-> opens + 1, id |-> id, answer |-> Loading]
<1>1. /\ opens' = opens + 1 /\ lookups' = lookups \cup {new}
      /\ UNCHANGED <<panel, bodyLoads, bodyCache, listVars, tableVars>>
  BY DEF OpenLog
<1>2. opens \in Nat /\ PanelTypeOK /\ ClickInv
  BY DEF PanelInv, PanelTypeOK
<1>3. PanelTypeOK'
  BY <1>1, <1>2 DEF PanelTypeOK, Answers
<1>4. KindInv' /\ BoxInv'
  BY <1>1 DEF PanelInv, KindInv, BoxInv
<1>5. ClickInv'
  <2>1. panel.click \in Nat /\ panel.click <= opens
    BY <1>2 DEF PanelTypeOK, ClickInv
  <2>2. \A l \in lookups : l.click \in Nat /\ l.click <= opens
    BY <1>2 DEF PanelTypeOK, ClickInv
  <2>3. \A b \in bodyLoads : b.click \in Nat /\ b.click <= opens
    BY <1>2 DEF PanelTypeOK, ClickInv
  <2>4. QED
    BY <1>1, <1>2, <2>1, <2>2, <2>3 DEF ClickInv
<1>6. KnownInv'
  <2>1. \A i \in Nat, x \in Exchanges : Holds(i, x)' => Known(i, x)
    BY <1>1, ConsoleAssumption DEF Holds, Known, ConsoleAssumption
  <2>2. QED
    BY <1>1, <2>1, NothingNewKnown
<1>7. QED
  BY <1>3, <1>4, <1>5, <1>6 DEF PanelInv

LEMMA AnswerLookupInv ==
  ASSUME PanelInv, TableInv, NEW l \in lookups, AnswerLookup(l)
  PROVE  PanelInv'
<1> DEFINE answer == IF Row(l.id) = {} THEN Missing
                     ELSE (CHOOSE r \in Row(l.id) : TRUE).exchange
           new == [l EXCEPT !.answer = answer]
<1>1. /\ lookups' = (lookups \ {l}) \cup {new}
      /\ UNCHANGED <<opens, panel, bodyLoads, bodyCache, listVars, tableVars>>
  BY DEF AnswerLookup
<1>2. answer = Missing \/ (answer \in Exchanges /\ Known(l.id, answer))
  <2>1. CASE Row(l.id) = {}
    <3>1. answer = Missing
      BY <2>1
    <3>2. QED
      BY <3>1
  <2>2. CASE Row(l.id) # {}
    <3>1. PICK r \in Row(l.id) : answer = r.exchange
      BY <2>2
    <3>2. r \in table /\ r.id = l.id
      BY DEF Row
    <3>3. QED
      BY <3>1, <3>2 DEF Known, TableInv, TableTypeOK
  <2>3. QED
    BY <2>1, <2>2
<1>3. l \in [click: Nat, id: Nat, answer: Answers]
  BY DEF PanelInv, PanelTypeOK
<1> HIDE DEF answer
<1>4. /\ new \in [click: Nat, id: Nat, answer: Answers]
      /\ new.click = l.click /\ new.id = l.id /\ new.answer = answer
  BY <1>2, <1>3 DEF Answers
<1> HIDE DEF new
<1>5. PanelTypeOK' /\ KindInv' /\ BoxInv'
  BY <1>1, <1>4 DEF PanelInv, PanelTypeOK, KindInv, BoxInv
<1>6. ClickInv'
  BY <1>1, <1>4 DEF PanelInv, ClickInv
<1>7. KnownInv'
  <2>1. \A i \in Nat, x \in Exchanges : Holds(i, x)' => Known(i, x)
    BY <1>1, <1>2, <1>4, ConsoleAssumption DEF Holds, Known, ConsoleAssumption
  <2>2. QED
    BY <1>1, <2>1, NothingNewKnown
<1>8. QED
  BY <1>5, <1>6, <1>7 DEF PanelInv

LEMMA RenderInv ==
  ASSUME PanelInv, NEW l \in lookups, RenderLogDetail(l)
  PROVE  PanelInv'
<1> DEFINE new == Fetches(l.click, l.id, Kinds)
           box == [k \in Kinds |-> BoxOf(l.id, k)]
<1>1. /\ l.answer \notin {Loading, Missing}
      /\ panel' = [click |-> l.click, open |-> TRUE, id |-> l.id, exchange |-> l.answer,
                   box |-> box]
      /\ bodyLoads' = bodyLoads \cup new
      /\ lookups' = lookups \ {l}
      /\ UNCHANGED <<opens, bodyCache, listVars, tableVars>>
  BY DEF RenderLogDetail
<1>2. /\ l \in [click: Nat, id: Nat, answer: Answers]
      /\ l.answer \in Exchanges /\ l.id \in Nat /\ l.click \in Nat
  BY <1>1 DEF PanelInv, PanelTypeOK, Answers
<1>3. \A k \in Kinds : /\ box[k] \in [of: Answers, kind: Kinds]
                       /\ box[k].kind = k
                       /\ box[k].of = Loading \/ (box[k].of \in Exchanges /\ Known(l.id, box[k].of))
  <2>1. ASSUME NEW k \in Kinds
        PROVE  /\ BoxOf(l.id, k) \in [of: Answers, kind: Kinds]
               /\ BoxOf(l.id, k).kind = k
               /\ \/ BoxOf(l.id, k).of = Loading
                  \/ (BoxOf(l.id, k).of \in Exchanges /\ Known(l.id, BoxOf(l.id, k).of))
    BY <1>2, BoxOfIsBox
  <2>2. \A k \in Kinds : box[k] = BoxOf(l.id, k)
    OBVIOUS
  <2>3. ASSUME NEW k \in Kinds
        PROVE  /\ box[k] \in [of: Answers, kind: Kinds]
               /\ box[k].kind = k
               /\ box[k].of = Loading \/ (box[k].of \in Exchanges /\ Known(l.id, box[k].of))
    <3>1. PICK b : b = BoxOf(l.id, k)
      OBVIOUS
    <3>2. box[k] = b
      BY <2>2, <3>1
    <3>3. QED
      BY <2>1, <3>1, <3>2
  <2>4. QED
    BY <2>3
<1>4. \A b \in new : /\ b \in [click: Nat, id: Nat, kind: Kinds, body: [of: Answers, kind: Kinds]]
                     /\ b.click = l.click /\ b.id = l.id /\ b.body.of = Loading
                     /\ b.body.kind = b.kind
  BY <1>2, FetchesAsk
<1>5. box \in [Kinds -> [of: Answers, kind: Kinds]]
  BY <1>3
<1> HIDE DEF new, box
<1>6. PanelTypeOK'
  BY <1>1, <1>2, <1>4, <1>5 DEF PanelInv, PanelTypeOK
<1>7. KindInv'
  BY <1>1, <1>3, <1>4 DEF PanelInv, KindInv
<1>8. ClickInv'
  <2>1. l.click <= opens /\ \A m \in lookups : m.click = l.click => m = l
    BY DEF PanelInv, ClickInv
  <2>2. \A b \in bodyLoads : b.click # l.click
    BY DEF PanelInv, ClickInv
  <2>3. QED
    BY <1>1, <1>4, <2>1, <2>2 DEF PanelInv, ClickInv
<1>9. Known(l.id, l.answer)
  BY DEF Known, Holds
<1>10. BoxInv'
  <2>1. \A k \in Kinds : box[k].of = Loading \/ box[k].of = l.answer
    BY <1>2, <1>3, <1>9 DEF PanelInv, KnownInv
  <2>2. l.answer # Missing
    BY <1>1
  <2>3. QED
    BY <1>1, <2>1, <2>2 DEF BoxInv
<1>11. KnownInv'
  <2>1. \A i \in Nat, x \in Exchanges : Holds(i, x)' => Known(i, x)
    BY <1>1, <1>4, <1>9, ConsoleAssumption DEF Holds, Known, ConsoleAssumption
  <2>2. QED
    BY <1>1, <2>1, NothingNewKnown
<1>12. QED
  BY <1>6, <1>7, <1>8, <1>10, <1>11 DEF PanelInv

LEMMA LookupFailsInv ==
  ASSUME PanelInv, NEW l \in lookups, LookupFails(l)
  PROVE  PanelInv'
<1>1. /\ lookups' = lookups \ {l}
      /\ UNCHANGED <<opens, panel, bodyLoads, bodyCache, listVars, tableVars>>
  BY DEF LookupFails
<1>2. PanelTypeOK' /\ KindInv' /\ ClickInv' /\ BoxInv'
  BY <1>1 DEF PanelInv, PanelTypeOK, KindInv, ClickInv, BoxInv
<1>3. \A i \in Nat, x \in Exchanges : Holds(i, x)' => Known(i, x)
  BY <1>1 DEF Holds, Known
<1>4. QED
  BY <1>1, <1>2, <1>3, NothingNewKnown DEF PanelInv

LEMMA ReloadBodyInv ==
  ASSUME PanelInv, NEW k \in Kinds, ReloadBody(k)
  PROVE  PanelInv'
<1> DEFINE new == Fetches(panel.click, panel.id, {k})
           box == BoxOf(panel.id, k)
<1>1. /\ panel.open
      /\ panel' = [panel EXCEPT !.box[k] = box]
      /\ bodyLoads' = bodyLoads \cup new
      /\ UNCHANGED <<opens, lookups, bodyCache, listVars, tableVars>>
  BY DEF ReloadBody
<1>2. /\ panel.click \in Nat /\ panel.id \in Nat /\ panel.exchange \in Exchanges
      /\ panel \in [click: Nat, open: BOOLEAN, id: Nat, exchange: Exchanges \cup {Missing},
                    box: [Kinds -> [of: Answers, kind: Kinds]]]
  BY <1>1 DEF PanelInv, PanelTypeOK, BoxInv
<1>3. /\ box \in [of: Answers, kind: Kinds] /\ box.kind = k
      /\ box.of = Loading \/ (Known(panel.id, box.of) /\ box.of \in Exchanges)
  BY <1>2, BoxOfIsBox
<1>4. \A b \in new : /\ b \in [click: Nat, id: Nat, kind: Kinds, body: [of: Answers, kind: Kinds]]
                     /\ b.click = panel.click /\ b.id = panel.id /\ b.body.of = Loading
                     /\ b.body.kind = b.kind
  BY <1>2, FetchesAsk
<1> HIDE DEF new, box
<1>5. /\ panel'.click = panel.click /\ panel'.open = panel.open /\ panel'.id = panel.id
      /\ panel'.exchange = panel.exchange
      /\ \A m \in Kinds : panel'.box[m] = IF m = k THEN box ELSE panel.box[m]
      /\ panel' \in [click: Nat, open: BOOLEAN, id: Nat, exchange: Exchanges \cup {Missing},
                     box: [Kinds -> [of: Answers, kind: Kinds]]]
  BY <1>1, <1>2, <1>3
<1>6. PanelTypeOK'
  BY <1>1, <1>4, <1>5 DEF PanelInv, PanelTypeOK
<1>7. KindInv'
  BY <1>1, <1>3, <1>4, <1>5 DEF PanelInv, KindInv
<1>8. ClickInv'
  <2>1. /\ panel.click <= opens
        /\ \A l \in lookups : l.click # panel.click
    BY DEF PanelInv, ClickInv
  <2>2. QED
    BY <1>1, <1>4, <1>5, <2>1 DEF PanelInv, ClickInv
<1>9. BoxInv'
  <2>1. Known(panel.id, panel.exchange)
    BY DEF Known, Holds
  <2>2. box.of = Loading \/ box.of = panel.exchange
    BY <1>2, <1>3, <2>1 DEF PanelInv, KnownInv
  <2>3. QED
    BY <1>5, <2>2 DEF PanelInv, BoxInv
<1>10. KnownInv'
  <2>1. \A i \in Nat, x \in Exchanges : Holds(i, x)' => Known(i, x)
    BY <1>1, <1>4, <1>5, ConsoleAssumption DEF Holds, Known, ConsoleAssumption
  <2>2. QED
    BY <1>1, <2>1, NothingNewKnown
<1>11. QED
  BY <1>6, <1>7, <1>8, <1>9, <1>10 DEF PanelInv

LEMMA AnswerBodyInv ==
  ASSUME PanelInv, TableInv, NEW b \in bodyLoads, AnswerBody(b)
  PROVE  PanelInv'
<1> DEFINE of == IF Row(b.id) = {} THEN Missing
                 ELSE (CHOOSE r \in Row(b.id) : TRUE).exchange
           new == [b EXCEPT !.body.of = of]
<1>1. /\ bodyLoads' = (bodyLoads \ {b}) \cup {new}
      /\ UNCHANGED <<opens, lookups, panel, bodyCache, listVars, tableVars>>
  BY DEF AnswerBody
<1>2. of = Missing \/ (of \in Exchanges /\ Known(b.id, of))
  <2>1. CASE Row(b.id) = {}
    BY <2>1
  <2>2. CASE Row(b.id) # {}
    <3>1. PICK r \in Row(b.id) : of = r.exchange
      BY <2>2
    <3>2. r \in table /\ r.id = b.id
      BY DEF Row
    <3>3. QED
      BY <3>1, <3>2 DEF Known, TableInv, TableTypeOK
  <2>3. QED
    BY <2>1, <2>2
<1>3. b \in [click: Nat, id: Nat, kind: Kinds, body: [of: Answers, kind: Kinds]]
  BY DEF PanelInv, PanelTypeOK
<1> HIDE DEF of
<1>4. /\ new \in [click: Nat, id: Nat, kind: Kinds, body: [of: Answers, kind: Kinds]]
      /\ new.click = b.click /\ new.id = b.id /\ new.kind = b.kind
      /\ new.body.of = of /\ new.body.kind = b.body.kind
  BY <1>2, <1>3 DEF Answers
<1> HIDE DEF new
<1>5. PanelTypeOK' /\ KindInv' /\ BoxInv'
  BY <1>1, <1>4 DEF PanelInv, PanelTypeOK, KindInv, BoxInv
<1>6. ClickInv'
  BY <1>1, <1>4 DEF PanelInv, ClickInv
<1>7. KnownInv'
  <2>1. \A i \in Nat, x \in Exchanges : Holds(i, x)' => Known(i, x)
    BY <1>1, <1>2, <1>4, ConsoleAssumption DEF Holds, Known, ConsoleAssumption
  <2>2. QED
    BY <1>1, <2>1, NothingNewKnown
<1>8. QED
  BY <1>5, <1>6, <1>7 DEF PanelInv

LEMMA BodyArrivesInv ==
  ASSUME PanelInv, NEW b \in bodyLoads, BodyArrives(b)
  PROVE  PanelInv'
<1> DEFINE entry == [id |-> b.id, kind |-> b.kind, body |-> b.body]
<1>1. /\ b.body.of # Loading
      /\ bodyLoads' = bodyLoads \ {b}
      /\ bodyCache' = bodyCache \cup (IF b.body.of = Missing THEN {} ELSE {entry})
      /\ panel' = IF InPanel(b) THEN [panel EXCEPT !.box[b.kind] = b.body] ELSE panel
      /\ UNCHANGED <<opens, lookups, listVars, tableVars>>
  BY DEF BodyArrives
<1>2. /\ b \in [click: Nat, id: Nat, kind: Kinds, body: [of: Answers, kind: Kinds]]
      /\ b.body.kind = b.kind
      /\ panel \in [click: Nat, open: BOOLEAN, id: Nat, exchange: Exchanges \cup {Missing},
                    box: [Kinds -> [of: Answers, kind: Kinds]]]
  BY DEF PanelInv, PanelTypeOK, KindInv
<1>3. Known(b.id, b.body.of) /\ Known(panel.id, panel.exchange)
  BY DEF Known, Holds
<1>4. b.body.of # Missing => b.body.of \in Exchanges
  BY <1>1, <1>2 DEF Answers
<1>5. b.body.of # Missing => entry \in [id: Nat, kind: Kinds, body: [of: Exchanges, kind: Kinds]]
  BY <1>2, <1>4
<1>6. /\ panel'.click = panel.click /\ panel'.open = panel.open /\ panel'.id = panel.id
      /\ panel'.exchange = panel.exchange
      /\ \A m \in Kinds : panel'.box[m] = IF InPanel(b) /\ m = b.kind THEN b.body ELSE panel.box[m]
      /\ panel' \in [click: Nat, open: BOOLEAN, id: Nat, exchange: Exchanges \cup {Missing},
                     box: [Kinds -> [of: Answers, kind: Kinds]]]
  BY <1>1, <1>2
<1>7. PanelTypeOK'
  BY <1>1, <1>5, <1>6 DEF PanelInv, PanelTypeOK
<1>8. KindInv'
  BY <1>1, <1>2, <1>6 DEF PanelInv, KindInv
<1>9. ClickInv'
  BY <1>1, <1>6 DEF PanelInv, ClickInv
<1>10. BoxInv'
  <2>1. ASSUME InPanel(b) PROVE b.body.of \in {Missing, panel.exchange}
    <3>1. panel.open /\ b.id = panel.id
      BY <2>1 DEF InPanel, PanelInv, ClickInv
    <3>2. panel.exchange \in Exchanges
      BY <1>2, <3>1 DEF PanelInv, BoxInv
    <3>3. CASE b.body.of = Missing
      BY <3>3
    <3>4. CASE b.body.of # Missing
      <4>1. b.body.of \in Exchanges /\ b.id \in Nat
        BY <1>2, <1>4, <3>4
      <4>2. b.body.of = panel.exchange
        BY <1>3, <3>1, <3>2, <4>1 DEF PanelInv, KnownInv
      <4>3. QED
        BY <4>2
    <3>5. QED
      BY <3>3, <3>4
  <2>2. QED
    BY <1>6, <2>1 DEF PanelInv, BoxInv
<1>11. KnownInv'
  <2>1. \A i \in Nat, x \in Exchanges : Holds(i, x)' => Known(i, x)
    BY <1>1, <1>6 DEF Holds, Known
  <2>2. QED
    BY <1>1, <2>1, NothingNewKnown
<1>12. QED
  BY <1>7, <1>8, <1>9, <1>10, <1>11 DEF PanelInv

LEMMA CloseDetailInv ==
  ASSUME PanelInv, CloseDetail
  PROVE  PanelInv'
<1>1. /\ panel' = [panel EXCEPT !.open = FALSE]
      /\ UNCHANGED <<opens, lookups, bodyLoads, bodyCache, listVars, tableVars>>
  BY DEF CloseDetail
<1>2. panel \in [click: Nat, open: BOOLEAN, id: Nat, exchange: Exchanges \cup {Missing},
                 box: [Kinds -> [of: Answers, kind: Kinds]]]
  BY DEF PanelInv, PanelTypeOK
<1>3. /\ panel'.click = panel.click /\ panel'.open = FALSE /\ panel'.id = panel.id
      /\ panel'.exchange = panel.exchange /\ panel'.box = panel.box
      /\ panel' \in [click: Nat, open: BOOLEAN, id: Nat, exchange: Exchanges \cup {Missing},
                     box: [Kinds -> [of: Answers, kind: Kinds]]]
  BY <1>1, <1>2
<1>4. PanelTypeOK' /\ KindInv' /\ ClickInv' /\ BoxInv'
  BY <1>1, <1>3 DEF PanelInv, PanelTypeOK, KindInv, ClickInv, BoxInv
<1>5. \A i \in Nat, x \in Exchanges : Holds(i, x)' => Known(i, x)
  BY <1>1, <1>3 DEF Holds, Known
<1>6. QED
  BY <1>1, <1>4, <1>5, NothingNewKnown DEF PanelInv

LEMMA SamePanelInv ==
  ASSUME PanelInv, UNCHANGED <<tableVars, detailVars>>
  PROVE  PanelInv'
<1>1. PanelTypeOK' /\ KindInv' /\ ClickInv' /\ BoxInv'
  BY DEF PanelInv, PanelTypeOK, KindInv, ClickInv, BoxInv, detailVars
<1>2. \A i \in Nat, x \in Exchanges : Holds(i, x)' => Known(i, x)
  BY DEF Holds, Known, detailVars
<1>3. QED
  BY <1>1, <1>2, NothingNewKnown DEF PanelInv

LEMMA DeletedRowsKeepIds ==
  ASSUME TableInv, table' \in SUBSET table, UNCHANGED lastId
  PROVE  IdsStay
  BY DEF TableInv, TableTypeOK, IdsStay, Listing, RowIds

LEMMA PanelNextInv == ListInv /\ ListInv' /\ PanelInv /\ [Next]_vars => PanelInv'
<1> SUFFICES ASSUME ListInv, ListInv', PanelInv, [Next]_vars PROVE PanelInv'
  OBVIOUS
<1>1. CASE TableNext /\ Watch /\ UNCHANGED <<listVars, detailVars, sessionVars, client>>
  BY <1>1, TableNextKeepsIds, TableKeepsPanelInv DEF ListInv
<1>2. CASE client = "reader" /\ ReaderNext /\ UNCHANGED <<listVars, detailVars, sessionVars, client>>
  BY <1>2, ReaderNextKeepsTable, SamePanelInv
<1>3. CASE ListStep(ListNext)
  <2>1. UNCHANGED detailVars
    <3>1. \A f : ChooseFilter(f) => UNCHANGED detailVars
      BY DEF ChooseFilter
    <3>2. \A s : AutoLoad(s) \/ DueLoad(s) \/ CountFor(s) \/ PageFor(s) \/ ListArrives(s)
                 \/ ListFails(s) => UNCHANGED detailVars
      BY DEF AutoLoad, DueLoad, CountFor, PageFor, ListArrives, ListFails
    <3>3. ToggleAutoRefresh \/ RenderRuleOptions \/ ClearLogs => UNCHANGED detailVars
      BY DEF ToggleAutoRefresh, RenderRuleOptions, ClearLogs
    <3>4. QED
      BY <1>3, <3>1, <3>2, <3>3 DEF ListStep, ListNext
  <2>2. IdsStay
    <3>1. table' \in SUBSET table /\ UNCHANGED lastId
      <4>1. CASE ClearLogs
        BY <4>1 DEF ClearLogs, DeleteLogs
      <4>2. CASE UNCHANGED tableVars
        BY <4>2 DEF tableVars
      <4>3. QED
        BY <1>3, <4>1, <4>2, ListNextKeepsTable DEF ListStep
    <3>2. QED
      BY <3>1, DeletedRowsKeepIds DEF ListInv
  <2>3. QED
    BY <2>1, <2>2, TableKeepsPanelInv DEF ListInv
<1>4. CASE client = "details" /\ DetailNext /\ UNCHANGED <<readerVars, sessionVars, client>>
  <2>1. \A id \in 1..lastId : id \in Nat
    BY DEF ListInv, TableInv, TableTypeOK
  <2>2. QED
    BY <1>4, <2>1, OpenLogInv, AnswerLookupInv, RenderInv, LookupFailsInv, ReloadBodyInv,
       AnswerBodyInv, BodyArrivesInv, CloseDetailInv DEF DetailNext, ListInv
<1>5. CASE client = "visitor" /\ SessionNext
           /\ UNCHANGED <<tableVars, readerVars, listVars, detailVars, client>>
  BY <1>5, SamePanelInv
<1>6. CASE UNCHANGED vars
  BY <1>6, SamePanelInv DEF vars
<1>7. QED
  BY <1>1, <1>2, <1>3, <1>4, <1>5, <1>6 DEF Next

\* Whatever is clicked, deleted and answered in whatever order, the bodies on
\* the panel are those of the exchange it describes.
THEOREM BodiesStayWithTheirLog == Spec => []ShownBodyIsOfShownLog
<1>1. PanelInv => ShownBodyIsOfShownLog
  <2> SUFFICES ASSUME PanelInv, NEW k \in Kinds
               PROVE  \/ panel.box[k].of \in {Loading, Missing}
                      \/ panel.box[k] = Box(panel.exchange, k)
    BY DEF ShownBodyIsOfShownLog
  <2>1. panel.box[k] \in [of: Answers, kind: Kinds] /\ panel.box[k].kind = k
    BY DEF PanelInv, PanelTypeOK, KindInv
  <2>2. panel.box[k].of \in {Loading, Missing, panel.exchange}
    BY DEF PanelInv, BoxInv
  <2>3. QED
    BY <2>1, <2>2 DEF Box
<1>2. QED
  BY <1>1, PanelInitInv, PanelNextInv, ListInvariance, PTL DEF Spec

=============================================================================
