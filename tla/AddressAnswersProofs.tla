------------------------ MODULE AddressAnswersProofs ------------------------
(* Proofs about what the API answers, for any registers, requests and        *)
(* replacements of the tables.                                               *)
(*                                                                           *)
(* First what the operators on rows and sequences return, the fold of the    *)
(* batch endpoint among them; then that whatever the API has shown is a row  *)
(* of some import; then the four properties.                                 *)
EXTENDS AddressAnswers, FiniteSetTheorems, TLAPS

Sources == {"cz", "hr"}

-----------------------------------------------------------------------------
(* Sequences *)

\* SetToSeq lists a set, every element once.
LEMMA SetToSeqFacts ==
    ASSUME NEW S, IsFiniteSet(S)
    PROVE  /\ Cardinality(S) \in Nat
           /\ SetToSeq(S) \in Seq(S)
           /\ Len(SetToSeq(S)) = Cardinality(S)
           /\ IsInjective(SetToSeq(S))
           /\ Range(SetToSeq(S)) = S
<1> DEFINE n == Cardinality(S)
           s == SetToSeq(S)
<1>1. n \in Nat /\ ExistsBijection(1..n, S)
  BY FS_CardinalityType
<1>2. \E f \in [1..n -> S] : IsInjective(f)
  BY <1>1 DEF ExistsBijection, Bijection, Injection
<1>3. s \in [1..n -> S] /\ IsInjective(s)
  BY <1>2 DEF SetToSeq
<1>4. s \in Seq(S) /\ Len(s) = n
  BY <1>1, <1>3
<1>5. s \in Injection(1..n, S)
  BY <1>3 DEF Injection
<1>6. IsFiniteSet(1..n) /\ Cardinality(1..n) = n
  BY <1>1, FS_Interval
<1>7. s \in Surjection(1..n, S)
  BY <1>5, <1>6, FS_Injection
<1>8. Range(s) = S
  BY <1>3, <1>7 DEF Surjection, Range
<1> QED
  BY <1>1, <1>3, <1>4, <1>8

\* Append adds one element at the end, and no repetition if it is new.
LEMMA AppendFacts ==
    ASSUME NEW S, NEW s \in Seq(S), NEW e \in S
    PROVE  /\ Append(s, e) \in Seq(S)
           /\ Append(s, e) # <<>>
           /\ Range(Append(s, e)) = Range(s) \cup {e}
           /\ IsInjective(s) /\ e \notin Range(s) => IsInjective(Append(s, e))
<1> DEFINE t == Append(s, e)
<1>1. t \in Seq(S) /\ Len(s) \in Nat /\ Len(t) = Len(s) + 1 /\ t # <<>>
  OBVIOUS
<1>2. DOMAIN s = 1..Len(s) /\ DOMAIN t = 1..Len(s) + 1
  BY <1>1
<1>3. t[Len(s) + 1] = e /\ \A i \in 1..Len(s) : t[i] = s[i]
  OBVIOUS
<1> HIDE DEF t
<1>4. Range(t) = Range(s) \cup {e}
  BY <1>1, <1>2, <1>3 DEF Range
<1>5. IsInjective(s) /\ e \notin Range(s) => IsInjective(t)
  BY <1>1, <1>2, <1>3 DEF Range, IsInjective
<1> QED
  BY <1>1, <1>4, <1>5 DEF t

\* Every non-empty set of numbers has a least one.
LEMMA Least ==
    ASSUME NEW T \in SUBSET Nat, T # {}
    PROVE  \E m \in T : \A n \in T : m <= n
<1>1. PICK m \in T : \A n \in T : ~(<<n, m>> \in OpToRel(<, Nat))
  BY NatLessThanWellFounded, WFMin, T \subseteq Nat
<1>2. \A n \in T : ~(n < m)
  BY <1>1 DEF OpToRel
<1> QED
  BY <1>2

\* Induction on the naturals, over the set of those that are as they should be.
LEMMA Inductive ==
    ASSUME NEW S, 0 \in S, \A n \in Nat : n \in S => n + 1 \in S
    PROVE  Nat \subseteq S
<1> SUFFICES ASSUME Nat \ S # {} PROVE FALSE
  OBVIOUS
<1>1. PICK m \in Nat \ S : \A n \in Nat \ S : m <= n
  BY Least
<1>2. m - 1 \in Nat /\ m = (m - 1) + 1 /\ ~(m <= m - 1)
  BY <1>1
<1> QED
  BY <1>1, <1>2

-----------------------------------------------------------------------------
(* The fold of addresses_batch *)

\* One turn of its loop.
Turn(found, missing, item) ==
    IF item \in Range(missing) \/ item.registry_id \in found[item.source]
      THEN missing ELSE Append(missing, item)

\* The loop over any of the items, in their order.
IsLoop(loop, items, found, n) ==
    loop = [s \in SUBSET (1..n) |->
              IF s = {} THEN <<>>
              ELSE Turn(found, loop[s \ {Max(s)}], items[Max(s)])]

LEMMA MaxIs ==
    ASSUME NEW n \in Nat, NEW s \in SUBSET (1..n), n \in s
    PROVE  Max(s) = n
<1>1. \A x \in s : n >= x
  OBVIOUS
<1>2. \A x \in s : (\A y \in s : x >= y) => x = n
  OBVIOUS
<1> QED
  BY <1>1, <1>2 DEF Max

LEMMA LoopExists ==
    ASSUME NEW items, NEW found, NEW n \in Nat
    PROVE  \E loop : IsLoop(loop, items, found, n)
<1> DEFINE S == {k \in Nat : \E loop : IsLoop(loop, items, found, k)}
<1>1. 0 \in S
  <2>1. IsLoop([s \in SUBSET (1..0) |-> <<>>], items, found, 0)
    <3>1. 1..0 = {}
      OBVIOUS
    <3> QED
      BY <3>1 DEF IsLoop
  <2> QED
    BY <2>1
<1>2. ASSUME NEW k \in Nat, k \in S PROVE k + 1 \in S
  <2>1. PICK loop : IsLoop(loop, items, found, k)
    BY <1>2
  <2> DEFINE more == [s \in SUBSET (1..k + 1) |->
                        IF k + 1 \in s THEN Turn(found, loop[s \ {k + 1}], items[k + 1])
                        ELSE loop[s]]
             turn(s) == IF s = {} THEN <<>>
                        ELSE Turn(found, more[s \ {Max(s)}], items[Max(s)])
  <2>2. ASSUME NEW s \in SUBSET (1..k + 1) PROVE more[s] = turn(s)
    <3>1. CASE k + 1 \in s
      <4>1. Max(s) = k + 1
        BY <3>1, MaxIs
      <4>2. s \ {k + 1} \in SUBSET (1..k)
        OBVIOUS
      <4>3. more[s \ {k + 1}] = loop[s \ {k + 1}]
        BY <4>2
      <4> QED
        BY <3>1, <4>1, <4>3
    <3>2. CASE k + 1 \notin s
      <4>1. s \in SUBSET (1..k) /\ s \ {Max(s)} \in SUBSET (1..k)
        <5>1. \A x \in s : x \in 1..k
          BY <3>2
        <5> QED
          BY <5>1
      <4>2. more[s] = loop[s] /\ more[s \ {Max(s)}] = loop[s \ {Max(s)}]
        BY <3>2, <4>1
      <4>3. loop[s] = IF s = {} THEN <<>>
                      ELSE Turn(found, loop[s \ {Max(s)}], items[Max(s)])
        BY <2>1, <4>1 DEF IsLoop
      <4> HIDE DEF more
      <4> QED
        BY <4>2, <4>3
    <3> QED
      BY <3>1, <3>2
  <2>3. more = [s \in SUBSET (1..k + 1) |-> more[s]]
    OBVIOUS
  <2>4. more = [s \in SUBSET (1..k + 1) |-> turn(s)]
    <3> HIDE DEF more
    <3> QED
      BY <2>2, <2>3
  <2>5. IsLoop(more, items, found, k + 1)
    <3> HIDE DEF more
    <3> QED
      BY <2>4 DEF IsLoop
  <2> HIDE DEF more
  <2> QED
    BY <2>5
<1> HIDE DEF S
<1>3. n \in S
  BY <1>1, <1>2, Inductive
<1> QED
  BY <1>3 DEF S

\* addresses_batch reports, once each, the items whose id was not found.
LEMMA NotFoundFacts ==
    ASSUME NEW S, NEW items \in Seq(S), NEW found
    PROVE  /\ NotFound(items, found) \in Seq(S)
           /\ IsInjective(NotFound(items, found))
           /\ Range(NotFound(items, found)) =
                {item \in Range(items) : item.registry_id \notin found[item.source]}
<1> DEFINE n == Len(items)
           loop == CHOOSE g : IsLoop(g, items, found, n)
           new(k) == {item \in {items[i] : i \in 1..k} : item.registry_id \notin found[item.source]}
           Good(k) == /\ loop[1..k] \in Seq(S)
                      /\ IsInjective(loop[1..k])
                      /\ Range(loop[1..k]) = new(k)
<1>1. n \in Nat /\ DOMAIN items = 1..n
  OBVIOUS
<1>2. NotFound(items, found) = loop[1..n]
  BY <1>1 DEF NotFound, FoldLeft, MapThenFoldSet, Turn, IsLoop
<1>3. IsLoop(loop, items, found, n)
  BY <1>1, LoopExists
<1> HIDE DEF loop
<1>4. Good(0)
  <2>1. 1..0 = {} /\ loop[{}] = <<>>
    BY <1>3 DEF IsLoop
  <2>2. loop[1..0] = <<>>
    BY <2>1
  <2>3. new(0) = {} /\ Range(<<>>) = {} /\ IsInjective(<<>>)
    BY <2>1 DEF Range, IsInjective
  <2> QED
    BY <2>2, <2>3
<1>5. ASSUME NEW k \in Nat, k < n, Good(k) PROVE Good(k + 1)
  <2> DEFINE before == loop[1..k]
             item == items[k + 1]
  <2>1. loop[1..k + 1] = Turn(found, before, item)
    <3>1. Max(1..k + 1) = k + 1
      BY MaxIs
    <3>2. (1..k + 1) \ {k + 1} = 1..k /\ 1..k + 1 # {}
      OBVIOUS
    <3>3. 1..k + 1 \in SUBSET (1..n)
      BY <1>1, <1>5
    <3> QED
      BY <1>3, <3>1, <3>2, <3>3 DEF IsLoop
  <2>2. item \in S
    BY <1>1, <1>5
  <2>3. {items[i] : i \in 1..k + 1} = {items[i] : i \in 1..k} \cup {item}
    OBVIOUS
  <2> HIDE DEF before, item
  <2>4. before \in Seq(S) /\ IsInjective(before) /\ Range(before) = new(k)
    BY <1>5 DEF before
  <2>5. CASE item \in Range(before) \/ item.registry_id \in found[item.source]
    <3>1. loop[1..k + 1] = before
      BY <2>1, <2>5 DEF Turn
    <3>2. new(k + 1) = new(k)
      BY <2>3, <2>4, <2>5
    <3> QED
      BY <2>4, <3>1, <3>2
  <2>6. CASE item \notin Range(before) /\ item.registry_id \notin found[item.source]
    <3>1. loop[1..k + 1] = Append(before, item)
      BY <2>1, <2>6 DEF Turn
    <3>2. new(k + 1) = new(k) \cup {item}
      BY <2>3, <2>6
    <3>3. /\ Append(before, item) \in Seq(S)
          /\ Range(Append(before, item)) = Range(before) \cup {item}
          /\ IsInjective(Append(before, item))
      BY <2>2, <2>4, <2>6, AppendFacts
    <3> QED
      BY <2>4, <3>1, <3>2, <3>3
  <2> QED
    BY <2>5, <2>6
<1> HIDE DEF Good
<1> DEFINE All == {k \in Nat : k <= n => Good(k)}
<1>6. 0 \in All
  BY <1>4
<1>7. ASSUME NEW k \in Nat, k \in All PROVE k + 1 \in All
  <2>1. k + 1 <= n => k < n /\ k <= n
    BY <1>1
  <2> QED
    BY <1>5, <1>7, <2>1
<1> HIDE DEF All
<1>8. n \in All
  BY <1>1, <1>6, <1>7, Inductive
<1>9. Good(n)
  BY <1>1, <1>8 DEF All
<1> QED
  BY <1>1, <1>2, <1>9 DEF Good, Range

-----------------------------------------------------------------------------
(* Rows and what is shown of them *)

LEMMA RowTypes ==
    /\ \A row \in CzRows : row.kod_adm \in Nat /\ row.psc \in {Null} \cup Nat
    /\ \A row \in HrRows : /\ row.inspire_id \in {Null} \cup Text
                          /\ row.postanski_broj \in {Null} \cup Nat
BY AnswersAssumption

\* A row that can be shown has an id.
LEMMA ShowableHasId ==
    ASSUME NEW source \in Sources, NEW row \in Rows(source), Showable(source, row)
    PROVE  Id(source, row) # Null
BY RowTypes, AnswersAssumption DEF Sources, Rows, Showable, Id

\* A match names its source and, in the canonical spelling, the row's id.
LEMMA MatchNames ==
    ASSUME NEW source \in Sources, NEW row \in Rows(source)
    PROVE  /\ RowToMatch(source, row).source = source
           /\ RowToMatch(source, row).registry_ref =
                IF source = "cz" THEN Str(row.kod_adm) ELSE row.inspire_id
           /\ Id(source, row) = IF source = "cz" THEN row.kod_adm ELSE row.inspire_id
BY DEF Sources, RowToMatch, CzRowToMatch, HrRowToMatch, Id

\* Asked for by its reference, an address is looked for under its id.
LEMMA RefIsId ==
    ASSUME NEW source \in Sources, NEW row \in Rows(source)
    PROVE  LET item == ItemOf(RowToMatch(source, row)) IN
           /\ item.source = source
           /\ item.registry_id = RowToMatch(source, row).registry_ref
           /\ Numeric(item)
           /\ Wanted(item) = Id(source, row)
<1> DEFINE match == RowToMatch(source, row)
           item == ItemOf(match)
<1>1. item.source = match.source /\ item.registry_id = match.registry_ref
  BY DEF ItemOf
<1>2. /\ match.source = source
      /\ match.registry_ref = IF source = "cz" THEN Str(row.kod_adm) ELSE row.inspire_id
      /\ Id(source, row) = IF source = "cz" THEN row.kod_adm ELSE row.inspire_id
  BY MatchNames
<1> HIDE DEF match, item
<1>3. Numeric(item) /\ Wanted(item) = Id(source, row)
  BY <1>1, <1>2 DEF Sources, Numeric, Wanted, IsInt, ToInt, Str
<1> QED
  BY <1>1, <1>2, <1>3 DEF match, item

\* Rows have the same reference if they have the same id.
LEMMA SameRef ==
    ASSUME NEW source \in Sources, NEW row \in Rows(source), NEW other \in Rows(source)
    PROVE  RowToMatch(source, row).registry_ref = RowToMatch(source, other).registry_ref
             <=> Id(source, row) = Id(source, other)
<1>1. Str(row.kod_adm) = Str(other.kod_adm) => row.kod_adm = other.kod_adm
  BY DEF Str
<1> QED
  BY <1>1, MatchNames

\* And then, if it is one, they are one address.
LEMMA SameAddress ==
    ASSUME NEW source \in Sources, NEW row \in Rows(source), NEW other \in Rows(source),
           Id(source, row) = Id(source, other), Id(source, row) # Null
    PROVE  RowToMatch(source, row) = RowToMatch(source, other)
<1>1. CASE source = "cz"
  BY <1>1, RegistersAssumption DEF Rows, Id
<1>2. CASE source = "hr"
  BY <1>2, RegistersAssumption DEF Rows, Id, RowToMatch, HrRowToMatch
<1> QED
  BY <1>1, <1>2 DEF Sources

LEMMA PublishedFacts ==
    ASSUME NEW source \in Sources, NEW table \in Published(source), NEW rows \in SUBSET table
    PROVE  /\ rows \in Published(source)
           /\ rows \subseteq Rows(source)
           /\ IsFiniteSet(rows)
<1>1. table \subseteq Rows(source) /\ rows \in Published(source)
  BY DEF Published
<1>2. IsFiniteSet(Rows(source))
  BY AnswersAssumption DEF Rows
<1> QED
  BY <1>1, <1>2, FS_Subset

ShownOf(source, rows) == {RowToMatch(source, row) : row \in rows}

\* The matches of rows that can be shown are as many as the rows, each of them once.
LEMMA MatchesFacts ==
    ASSUME NEW source \in Sources, NEW table \in Published(source), NEW rows \in SUBSET table,
           AllShowable(source, rows)
    PROVE  /\ Matches(source, rows) \in Seq(ShownOf(source, rows))
           /\ Range(Matches(source, rows)) = ShownOf(source, rows)
           /\ IsInjective(Matches(source, rows))
           /\ Cardinality(rows) \in Nat
           /\ Len(Matches(source, rows)) = Cardinality(rows)
           /\ Cardinality(rows) = 0 <=> rows = {}
<1> DEFINE shown == {RowToMatch(source, row) : row \in rows}
           show == [row \in rows |-> RowToMatch(source, row)]
<1>1. rows \in Published(source) /\ rows \subseteq Rows(source) /\ IsFiniteSet(rows)
  BY PublishedFacts
<1>2. \A row, other \in rows : Id(source, row) = Id(source, other) => row = other
  BY <1>1, ShowableHasId DEF Published, AllShowable
<1>3. \A row, other \in rows : RowToMatch(source, row) = RowToMatch(source, other) => row = other
  BY <1>1, <1>2, SameRef
<1>4. show \in Bijection(rows, shown)
  BY <1>3 DEF Bijection, Injection, Surjection, IsInjective
<1>5. IsFiniteSet(shown) /\ Cardinality(shown) = Cardinality(rows)
  BY <1>1, <1>4, FS_Bijection DEF ExistsBijection
<1> HIDE DEF shown
<1>6. /\ Cardinality(shown) \in Nat /\ SetToSeq(shown) \in Seq(shown)
      /\ Len(SetToSeq(shown)) = Cardinality(shown) /\ IsInjective(SetToSeq(shown))
      /\ Range(SetToSeq(shown)) = shown
  BY <1>5, SetToSeqFacts
<1>7. Matches(source, rows) = SetToSeq(shown)
  BY DEF Matches, shown
<1>8. Cardinality(rows) = 0 <=> rows = {}
  BY <1>1, FS_EmptySet
<1> QED
  BY <1>5, <1>6, <1>7, <1>8 DEF shown, ShownOf

\* "a step of the ladder exactly if there are matches".
LEMMA LadderFacts ==
    ASSUME NEW p
    PROVE  LET found == CzLookup(p) IN
           /\ found.rows \in SUBSET live["cz"]
           /\ found.step \in {Null} \cup 0..4
           /\ found.step = Null <=> found.rows = {}
           /\ \A row \in live["cz"] : \A step \in StepsOf(row, p) :
                /\ found.rows # {}
                /\ found.step <= step
                /\ found.step = step => row \in found.rows
<1> DEFINE steps == UNION {StepsOf(row, p) : row \in live["cz"]}
           first == CHOOSE s \in steps : \A t \in steps : s <= t
           step == IF steps = {} THEN Null ELSE first
           rows == {row \in live["cz"] : step \in StepsOf(row, p)}
<1>1. \A row : StepsOf(row, p) \subseteq 0..4
  <2>1. ASSUME NEW row PROVE DOMAIN CzVariants(row, p) = 1..5
    BY DEF CzVariants
  <2>2. ASSUME NEW row, NEW i \in DOMAIN CzVariants(row, p) PROVE i - 1 \in 0..4
    BY <2>1
  <2> QED
    BY <2>2 DEF StepsOf
<1>2. CzLookup(p) = [rows |-> rows, step |-> step]
  BY DEF CzLookup
<1>3. steps \in SUBSET (0..4)
  BY <1>1
<1>4. \A row \in live["cz"] : StepsOf(row, p) \subseteq steps
  OBVIOUS
<1>5. \A s \in steps : \E row \in live["cz"] : s \in StepsOf(row, p)
  OBVIOUS
<1> HIDE DEF steps
<1>6. CASE steps = {}
  <2>1. step = Null /\ rows = {}
    BY <1>4, <1>6, <1>1, AnswersAssumption
  <2> QED
    BY <1>2, <1>4, <1>6, <2>1
<1>7. CASE steps # {}
  <2>1. \E s \in steps : \A t \in steps : s <= t
    BY <1>3, <1>7, Least
  <2>2. first \in steps /\ \A t \in steps : first <= t
    BY <2>1
  <2> HIDE DEF first
  <2>3. step = first /\ step \in 0..4 /\ step # Null
    BY <1>3, <1>7, <2>2, AnswersAssumption
  <2>4. rows # {}
    BY <1>5, <2>2, <2>3
  <2>5. \A row \in live["cz"] : step \in StepsOf(row, p) => row \in rows
    OBVIOUS
  <2>6. rows \in SUBSET live["cz"]
    OBVIOUS
  <2> HIDE DEF step, rows
  <2>7. CzLookup(p).rows = rows /\ CzLookup(p).step = step
    BY <1>2
  <2>8. \A row \in live["cz"] : \A s \in StepsOf(row, p) : step <= s /\ (step = s => row \in rows)
    BY <1>4, <2>2, <2>3, <2>5
  <2> QED
    BY <2>3, <2>4, <2>6, <2>7, <2>8
<1> QED
  BY <1>6, <1>7

\* House numbers are read as they are written, with or without their parts.
LEMMA NumberRoundTrip ==
    ASSUME NEW row \in CzRows
    PROVE  ParseCzNumber(CzHouseNumber(row)) =
             [house |-> row.cislo_domovni, orient |-> row.cislo_orientacni,
              letter |-> row.cislo_orientacni_znak]
<1> DEFINE house == row.cislo_domovni
           orient == row.cislo_orientacni
           letter == row.cislo_orientacni_znak
           raw == CzHouseNumber(row)
<1>1. /\ house \in {Null} \cup Nat /\ orient \in {Null} \cup Nat
      /\ letter \in {Null} \cup STRING
      /\ orient # Null => house # Null
      /\ letter # Null => orient # Null
      /\ Null \notin Seq(Nat \cup STRING)
  BY AnswersAssumption
<1> DEFINE part(i) == IF raw # Null /\ Len(raw) >= i THEN raw[i] ELSE Null
<1>2. ParseCzNumber(raw) = [house |-> part(1), orient |-> part(2), letter |-> part(3)]
  BY DEF ParseCzNumber
<1>3. part(1) = house /\ part(2) = orient /\ part(3) = letter
  <2>1. CASE house = Null
    BY <1>1, <2>1 DEF CzHouseNumber
  <2>2. CASE house # Null /\ orient = Null
    <3>1. raw = <<house>>
      BY <2>2 DEF CzHouseNumber
    <3> HIDE DEF raw
    <3>2. raw \in Seq(Nat \cup STRING) /\ Len(raw) = 1 /\ raw[1] = house
      BY <1>1, <2>2, <3>1
    <3> QED
      BY <1>1, <2>2, <3>2
  <2>3. CASE orient # Null /\ letter = Null
    <3>1. raw = <<house, orient>>
      BY <1>1, <2>3 DEF CzHouseNumber
    <3> HIDE DEF raw
    <3>2. raw \in Seq(Nat \cup STRING) /\ Len(raw) = 2 /\ raw[1] = house /\ raw[2] = orient
      BY <1>1, <2>3, <3>1
    <3> QED
      BY <1>1, <2>3, <3>2
  <2>4. CASE orient # Null /\ letter # Null
    <3>1. raw = <<house, orient, letter>>
      BY <1>1, <2>4 DEF CzHouseNumber
    <3> HIDE DEF raw
    <3>2. /\ raw \in Seq(Nat \cup STRING) /\ Len(raw) = 3
          /\ raw[1] = house /\ raw[2] = orient /\ raw[3] = letter
      BY <1>1, <2>4, <3>1
    <3> QED
      BY <1>1, <2>4, <3>2
  <2> QED
    BY <1>1, <2>1, <2>2, <2>3, <2>4
<1> QED
  BY <1>2, <1>3

\* Postal codes too.
LEMMA PostalRoundTrip ==
    ASSUME NEW n \in {Null} \cup Nat
    PROVE  IntOrNone(StrOrNone(n)) = n
<1>1. n # Null => Str(n) \in Text
  BY DEF Str, Text
<1> QED
  BY <1>1, AnswersAssumption DEF IntOrNone, StrOrNone, ToInt, Str

\* What the parameters of a Czech lookup are when it describes a row.
LEMMA CzDescribed ==
    ASSUME NEW row \in CzRows, CzNumberType(row.typ_so) # Null
    PROVE  LET p == CzParams(RequestOf(RowToMatch("cz", row))) IN
           /\ CzBaseFilter(row, p)
           /\ p.street = IF row.ulice # Null \/ row.cast_obce = row.obec
                         THEN row.ulice ELSE row.cast_obce
           /\ p.city = Or(row.mop, row.obec)
<1> DEFINE match == RowToMatch("cz", row)
           req == RequestOf(match)
<1>1. match = CzRowToMatch(row)
  BY DEF RowToMatch
<1>2. /\ match.street = IF row.ulice # Null \/ row.cast_obce = row.obec
                        THEN row.ulice ELSE row.cast_obce
      /\ match.house_number = CzHouseNumber(row) /\ match.number_type = CzNumberType(row.typ_so)
      /\ match.city = Or(row.mop, row.obec) /\ match.postal_code = StrOrNone(row.psc)
  BY <1>1 DEF CzRowToMatch
<1> HIDE DEF match
<1>3. /\ req.street = match.street /\ req.number = match.house_number
      /\ req.house_number = Null /\ req.orientation_number = Null
      /\ req.orientation_letter = Null /\ req.number_type = Or(match.number_type, "house")
      /\ req.city = match.city /\ req.postal_code = match.postal_code
  BY DEF RequestOf
<1> HIDE DEF req
<1>4. ParseCzNumber(req.number) =
        [house |-> row.cislo_domovni, orient |-> row.cislo_orientacni,
         letter |-> row.cislo_orientacni_znak]
  BY <1>2, <1>3, NumberRoundTrip
<1>5. IntOrNone(req.postal_code) = row.psc
  BY <1>2, <1>3, PostalRoundTrip, RowTypes
<1>5a. CzTypSo(req.number_type) = row.typ_so
  BY <1>2, <1>3 DEF Or, CzTypSo, CzNumberType
<1>6. CzParams(req) = [street |-> match.street, city |-> match.city, psc |-> row.psc,
                       typ_so |-> row.typ_so, house |-> row.cislo_domovni,
                       orient |-> row.cislo_orientacni, letter |-> row.cislo_orientacni_znak]
  BY <1>2, <1>3, <1>4, <1>5, <1>5a DEF CzParams, Or
<1>7. CzBaseFilter(row, CzParams(req))
  BY <1>6 DEF CzBaseFilter
<1> QED
  BY <1>2, <1>6, <1>7 DEF req, match

\* Some rung of the ladder finds a row by that description: the first for most;
\* the second for the districts of Prague; the last where there is no street.
LEMMA SomeRung ==
    ASSUME NEW row \in CzRows, ~NotByDescription(row)
    PROVE  StepsOf(row, CzParams(RequestOf(RowToMatch("cz", row)))) # {}
<1> DEFINE p == CzParams(RequestOf(RowToMatch("cz", row)))
<1>1. /\ CzBaseFilter(row, p)
      /\ p.street = IF row.ulice # Null \/ row.cast_obce = row.obec
                    THEN row.ulice ELSE row.cast_obce
      /\ p.city = Or(row.mop, row.obec)
  BY CzDescribed DEF NotByDescription
<1> HIDE DEF p
<1>2. /\ DOMAIN CzVariants(row, p) = 1..5
      /\ CzVariants(row, p)[1] = (row.ulice = p.street /\ row.obec = p.city)
      /\ CzVariants(row, p)[2] = (row.ulice = p.street /\ row.mop = p.city)
      /\ CzVariants(row, p)[5] =
           (row.ulice = Null /\ row.cast_obce = p.street /\ row.obec = p.city)
  BY DEF CzVariants
<1>3. \E i \in {1, 2, 5} : CzVariants(row, p)[i]
  <2>1. CASE row.ulice # Null \/ row.cast_obce = row.obec
    BY <1>1, <1>2, <2>1 DEF Or
  <2>2. CASE ~(row.ulice # Null \/ row.cast_obce = row.obec)
    BY <1>1, <1>2, <2>2 DEF Or, NotByDescription
  <2> QED
    BY <2>1, <2>2
<1>4. \E i \in DOMAIN CzVariants(row, p) : CzVariants(row, p)[i]
  BY <1>2, <1>3
<1> QED
  BY <1>1, <1>4 DEF StepsOf, p

-----------------------------------------------------------------------------
(* Responses *)

LEMMA NullIsNoStep == Null \notin 0..4
BY AnswersAssumption

LEMMA HrLookupFacts ==
    ASSUME NEW req
    PROVE  LET found == HrLookup(req) IN
           /\ found.rows \in SUBSET live["hr"]
           /\ found.step \in {Null} \cup 0..4
           /\ found.step = Null <=> found.rows = {}
BY NullIsNoStep DEF HrLookup

\* What a lookup answers, if it does, is well-formed, and every row it found is shown.
LEMMA ResponseFacts ==
    ASSUME \A source \in Sources : live[source] \in Published(source), NEW req, ~Raises(req)
    PROVE  LET source == IF req.country = "cz" THEN "cz" ELSE "hr"
               found == LookedUp(req)
               response == LookupResponse(req)
           IN /\ ResponseOK(response)
              /\ response.fallback_step = found.step
              /\ Range(response.matches) = {RowToMatch(source, row) : row \in found.rows}
              /\ \A match \in Range(response.matches) : Real(match)
              /\ response.matches = <<>> <=> found.rows = {}
<1> DEFINE source == IF req.country = "cz" THEN "cz" ELSE "hr"
           found == LookedUp(req)
           response == LookupResponse(req)
           rows == found.rows
           shown == ShownOf(source, rows)
           list == Matches(source, rows)
<1>1. source \in Sources /\ live[source] \in Published(source)
  BY DEF Sources
<1>2. /\ rows \in SUBSET live[source]
      /\ found.step \in {Null} \cup 0..4
      /\ found.step = Null <=> rows = {}
  BY LadderFacts, HrLookupFacts DEF LookedUp
<1>2a. AllShowable(source, rows)
  BY DEF Raises, AllShowable, Showable
<1>3. \A row : RowToMatch(req.country, row) = RowToMatch(source, row)
  BY DEF RowToMatch
<1>4. Matches(req.country, rows) = list
  BY <1>3 DEF Matches
<1>5. response = [matches |-> list, fallback_step |-> found.step,
                  ambiguous |-> Cardinality(rows) > 1]
  BY <1>4 DEF LookupResponse
<1> HIDE DEF source, rows, response, found
<1>6. /\ list \in Seq(shown) /\ Range(list) = shown
      /\ Cardinality(rows) \in Nat /\ Len(list) = Cardinality(rows)
      /\ Cardinality(rows) = 0 <=> rows = {}
  BY <1>1, <1>2, <1>2a, MatchesFacts
<1>7. rows \subseteq Rows(source)
  BY <1>1, <1>2, PublishedFacts
<1>8. \A match \in shown : Real(match)
  BY <1>1, <1>2a, <1>7 DEF Real, Sources, ShownOf, AllShowable
<1> HIDE DEF list, shown
<1>9. list = <<>> <=> rows = {}
  BY <1>6
<1>10. /\ response.matches = list /\ response.fallback_step = found.step
       /\ response.ambiguous = (Cardinality(rows) > 1)
  BY <1>5
<1>11. ResponseOK(response)
  BY <1>2, <1>6, <1>9, <1>10 DEF ResponseOK
<1> QED
  BY <1>6, <1>8, <1>9, <1>10, <1>11 DEF source, rows, response, found, shown, ShownOf

\* Looked up as the API describes it, an address is found, or an earlier rung is,
\* or else one of the rows it finds cannot be shown.
LEMMA TypesFoundAgain == TypeOK => FoundAgain
<1> SUFFICES ASSUME TypeOK, NEW source \in Sources, NEW row \in live[source],
                    Showable(source, row), ~(source = "cz" /\ NotByDescription(row))
             PROVE  LET match == RowToMatch(source, row)
                        req == RequestOf(match)
                        response == LookupResponse(req)
                    IN \/ Raises(req) /\ \E other \in LookedUp(req).rows : ~Showable(source, other)
                       \/ ~Raises(req) /\ match \in Range(response.matches)
                       \/ /\ ~Raises(req) /\ source = "cz" /\ response.matches # <<>>
                          /\ \E step \in StepsOf(row, CzParams(req)) : response.fallback_step < step
  BY DEF FoundAgain, Sources
<1> DEFINE match == RowToMatch(source, row)
           req == RequestOf(match)
           response == LookupResponse(req)
<1>1. \A s \in Sources : live[s] \in Published(s)
  BY DEF TypeOK, Sources
<1>2. row \in Rows(source)
  BY <1>1, PublishedFacts
<1>3. req.country = source
  BY <1>2, MatchNames DEF RequestOf
<1>3a. CASE Raises(req)
  <2>1. req.postal_code = Null \/ IsInt(req.postal_code)
    BY <1>2 DEF RequestOf, RowToMatch, CzRowToMatch, HrRowToMatch, StrOrNone, Str, IsInt
  <2> HIDE DEF req
  <2>2. \E other \in LookedUp(req).rows : ~Showable(source, other)
    BY <1>3, <1>3a, <2>1 DEF Raises, AllShowable
  <2> QED
    BY <1>3a, <2>2 DEF req
<1>4. CASE ~Raises(req) /\ source = "cz"
  <2> DEFINE p == CzParams(req)
             found == CzLookup(p)
  <2>1. row \in CzRows /\ row \in live["cz"]
    BY <1>2, <1>4 DEF Rows
  <2>2. StepsOf(row, p) # {}
    BY <1>4, <2>1, SomeRung
  <2>3. /\ response.fallback_step = found.step
        /\ Range(response.matches) = {RowToMatch("cz", r) : r \in found.rows}
        /\ response.matches = <<>> <=> found.rows = {}
    BY <1>1, <1>3, <1>4, ResponseFacts DEF LookedUp
  <2> HIDE DEF p
  <2>4. \A step \in StepsOf(row, p) :
          /\ found.rows # {}
          /\ found.step <= step
          /\ found.step = step => row \in found.rows
    BY <2>1, LadderFacts
  <2>5. found.step \in {Null} \cup 0..4 /\ (found.step = Null <=> found.rows = {})
    BY LadderFacts
  <2>6. StepsOf(row, p) \subseteq Int
    BY DEF StepsOf, CzVariants
  <2> HIDE DEF found, response, match
  <2>7. CASE \E step \in StepsOf(row, p) : found.step = step
    <3>1. row \in found.rows
      BY <2>4, <2>7
    <3>2. match \in Range(response.matches)
      BY <1>4, <2>3, <3>1 DEF match
    <3> QED
      BY <1>4, <3>2 DEF match, response
  <2>8. CASE \A step \in StepsOf(row, p) : found.step # step
    <3>1. response.matches # <<>>
      BY <2>2, <2>3, <2>4
    <3>2. \E step \in StepsOf(row, p) : found.step < step
      BY <2>2, <2>4, <2>5, <2>6, <2>8
    <3> QED
      BY <1>4, <2>3, <3>1, <3>2 DEF match, response, p
  <2> QED
    BY <2>7, <2>8
<1>5. CASE ~Raises(req) /\ source = "hr"
  <2>1. row \in HrRows /\ row \in live["hr"]
    BY <1>2, <1>5 DEF Rows
  <2>2. match = HrRowToMatch(row)
    BY <1>5 DEF RowToMatch
  <2>3. /\ req.street = row.ulica /\ req.number = row.kucni_broj /\ req.city = row.naselje
        /\ req.postal_code = StrOrNone(row.postanski_broj)
    BY <2>2 DEF RequestOf, HrRowToMatch
  <2>4. IntOrNone(req.postal_code) = row.postanski_broj
    BY <2>1, <2>3, PostalRoundTrip, RowTypes
  <2>5. Range(response.matches) = {RowToMatch("hr", r) : r \in HrLookup(req).rows}
    BY <1>1, <1>3, <1>5, ResponseFacts DEF LookedUp
  <2> HIDE DEF req
  <2>6. row \in HrLookup(req).rows
    BY <2>1, <2>3, <2>4 DEF HrLookup
  <2>7. match \in Range(response.matches)
    BY <1>5, <2>5, <2>6
  <2> QED
    BY <1>5, <2>7 DEF req
<1> QED
  BY <1>3a, <1>4, <1>5 DEF Sources

-----------------------------------------------------------------------------
(* More about sequences *)

LEMMA ConcatFacts ==
    ASSUME NEW S, NEW s \in Seq(S), NEW T, NEW t \in Seq(T)
    PROVE  /\ Range(s \o t) = Range(s) \cup Range(t)
           /\ IsInjective(s) /\ IsInjective(t) /\ Range(s) \cap Range(t) = {}
                => IsInjective(s \o t)
<1> DEFINE u == s \o t
           m == Len(s)
           n == Len(t)
<1>1. m \in Nat /\ n \in Nat /\ DOMAIN s = 1..m /\ DOMAIN t = 1..n /\ DOMAIN u = 1..m + n
  OBVIOUS
<1>2. \A i \in 1..m : u[i] = s[i]
  OBVIOUS
<1>3. \A i \in 1..n : u[m + i] = t[i]
  OBVIOUS
<1> HIDE DEF u, m, n
<1>4. \A i \in 1..m + n : i \in 1..m \/ (i - m \in 1..n /\ i = m + (i - m))
  BY <1>1
<1>5. \A i \in 1..n : m + i \in 1..m + n
  BY <1>1
<1>6. 1..m \subseteq 1..m + n
  BY <1>1
<1>7. Range(u) = Range(s) \cup Range(t)
  <2>1. Range(u) = {u[i] : i \in 1..m + n}
    BY <1>1 DEF Range
  <2>2. Range(s) = {s[i] : i \in 1..m} /\ Range(t) = {t[i] : i \in 1..n}
    BY <1>1 DEF Range
  <2>3. \A i \in 1..m + n : u[i] \in Range(s) \cup Range(t)
    <3>1. ASSUME NEW i \in 1..m + n, i \in 1..m PROVE u[i] \in Range(s)
      BY <1>2, <2>2, <3>1
    <3>2. ASSUME NEW i \in 1..m + n, i - m \in 1..n, i = m + (i - m) PROVE u[i] \in Range(t)
      BY <1>3, <2>2, <3>2
    <3> QED
      BY <1>4, <3>1, <3>2
  <2>4. \A i \in 1..m : s[i] \in Range(u)
    BY <1>2, <1>6, <2>1
  <2>5. \A i \in 1..n : t[i] \in Range(u)
    BY <1>3, <1>5, <2>1
  <2> QED
    BY <2>1, <2>2, <2>3, <2>4, <2>5
<1>8. ASSUME IsInjective(s), IsInjective(t), Range(s) \cap Range(t) = {} PROVE IsInjective(u)
  <2>1. \A i \in 1..m : \A j \in 1..n : s[i] # t[j]
    BY <1>1, <1>8 DEF Range
  <2>2. /\ \A i, j \in 1..m : s[i] = s[j] => i = j
        /\ \A i, j \in 1..n : t[i] = t[j] => i = j
    BY <1>1, <1>8 DEF IsInjective
  <2>3. \A i \in 1..m + n : i \notin 1..m => i - m \in 1..n /\ u[i] = t[i - m]
    BY <1>3, <1>4
  <2>4. \A i, j \in 1..m + n : i - m = j - m => i = j
    BY <1>1
  <2>5. ASSUME NEW i \in 1..m + n, NEW j \in 1..m + n, u[i] = u[j] PROVE i = j
    <3>1. CASE i \in 1..m /\ j \in 1..m
      BY <1>2, <2>2, <2>5, <3>1
    <3>2. CASE i \in 1..m /\ j \notin 1..m
      BY <1>2, <2>1, <2>3, <2>5, <3>2
    <3>3. CASE i \notin 1..m /\ j \in 1..m
      BY <1>2, <2>1, <2>3, <2>5, <3>3
    <3>4. CASE i \notin 1..m /\ j \notin 1..m
      BY <2>2, <2>3, <2>4, <2>5, <3>4
    <3> QED
      BY <3>1, <3>2, <3>3, <3>4
  <2> QED
    BY <1>1, <2>5 DEF IsInjective
<1> QED
  BY <1>7, <1>8 DEF u

LEMMA OwnRange ==
    ASSUME NEW S, NEW s \in Seq(S)
    PROVE  s \in Seq(Range(s))
<1>1. DOMAIN s = 1..Len(s) /\ Len(s) \in Nat /\ s = [i \in 1..Len(s) |-> s[i]]
  OBVIOUS
<1>2. \A i \in 1..Len(s) : s[i] \in Range(s)
  BY <1>1 DEF Range
<1>3. s \in [1..Len(s) -> Range(s)]
  BY <1>1, <1>2
<1> QED
  BY <1>1, <1>3

LEMMA TailFacts ==
    ASSUME NEW S, NEW s \in Seq(S), s # <<>>
    PROVE  /\ Tail(s) \in Seq(S)
           /\ Len(s) \in Nat \ {0}
           /\ Len(Tail(s)) = Len(s) - 1
           /\ \A i \in 1..Len(s) - 1 : Tail(s)[i] = s[i + 1]
           /\ Len(s) = 1 => Tail(s) = <<>>
OBVIOUS

LEMMA SuffixIs ==
    ASSUME NEW S, NEW s \in Seq(S), NEW T, NEW t \in Seq(T)
    PROVE  IsSuffix(s, t) <=>
             /\ Len(s) <= Len(t)
             /\ \A i \in 1..Len(s) : s[Len(s) - i + 1] = t[Len(t) - i + 1]
<1> DEFINE m == Len(s)
           n == Len(t)
           a == Reverse(s)
           b == Reverse(t)
<1>1. m \in Nat /\ n \in Nat
  OBVIOUS
<1>2. \A i \in 1..m : m - i + 1 \in 1..m
  BY <1>1
<1>3. a = [i \in 1..m |-> s[m - i + 1]] /\ b = [i \in 1..n |-> t[n - i + 1]]
  BY DEF Reverse
<1>4. a \in Seq(S) /\ Len(a) = m
  BY <1>1, <1>2, <1>3
<1>5. b \in Seq(T) /\ Len(b) = n
  BY <1>1, <1>3
<1>6. \A i \in 1..m : a[i] = s[m - i + 1]
  BY <1>3
<1>7. \A i \in 1..n : b[i] = t[n - i + 1]
  BY <1>3
<1>8. SubSeq(a, 1, m) = [i \in 1..m |-> a[i]]
  BY <1>1, <1>4
<1>9. m <= n => SubSeq(b, 1, m) = [i \in 1..m |-> b[i]]
  BY <1>1, <1>5
<1>10. m <= n => 1..m \subseteq 1..n
  BY <1>1
<1> HIDE DEF a, b, m, n
<1>11. IsSuffix(s, t) <=> m <= n /\ SubSeq(a, 1, m) = SubSeq(b, 1, m)
  BY <1>4, <1>5 DEF IsSuffix, IsPrefix, a, b
<1>12. IsSuffix(s, t) <=> m <= n /\ \A i \in 1..m : a[i] = b[i]
  BY <1>8, <1>9, <1>11
<1> QED
  BY <1>6, <1>7, <1>10, <1>12 DEF m, n

\* What is left of a request is a suffix of it.
LEMMA SuffixTail ==
    ASSUME NEW S, NEW s \in Seq(S), NEW T, NEW t \in Seq(T), IsSuffix(s, t), s # <<>>
    PROVE  IsSuffix(Tail(s), t)
<1> DEFINE u == Tail(s)
<1>1. /\ u \in Seq(S) /\ Len(s) \in Nat \ {0} /\ Len(u) = Len(s) - 1
      /\ \A i \in 1..Len(s) - 1 : u[i] = s[i + 1]
  BY TailFacts
<1>2. Len(s) <= Len(t) /\ \A i \in 1..Len(s) : s[Len(s) - i + 1] = t[Len(t) - i + 1]
  BY SuffixIs
<1>3. Len(t) \in Nat
  OBVIOUS
<1> HIDE DEF u
<1>4. ASSUME NEW i \in 1..Len(u) PROVE u[Len(u) - i + 1] = t[Len(t) - i + 1]
  <2>1. /\ Len(u) - i + 1 \in 1..Len(s) - 1
        /\ (Len(u) - i + 1) + 1 = Len(s) - i + 1
        /\ i \in 1..Len(s)
    BY <1>1
  <2>2. u[Len(u) - i + 1] = s[Len(s) - i + 1]
    BY <1>1, <2>1
  <2> QED
    BY <1>2, <2>1, <2>2
<1>5. Len(u) <= Len(t)
  BY <1>1, <1>2, <1>3
<1>6. IsSuffix(u, t)
  BY <1>1, <1>4, <1>5, SuffixIs
<1> QED
  BY <1>6 DEF u

LEMMA SuffixSelf ==
    ASSUME NEW S, NEW s \in Seq(S)
    PROVE  IsSuffix(s, s)
BY SuffixIs

-----------------------------------------------------------------------------
(* The inductive invariant *)

TablesOK ==
    /\ \A source \in Sources : live[source] \in Published(source)
    /\ live \in [Sources -> SUBSET (CzRows \cup HrRows)]

WorkOK ==
    /\ \E items \in Lookups \cup {<<>>} : IsSuffix(work, items) \/ Len(work) = 1
    /\ work \in Seq(Range(work))
    /\ work # <<>> => answer = NoAnswer

AllReal(matches) == \A match \in Range(matches) : Real(match)

ResultsOK ==
    /\ results \in Seq(Range(results))
    /\ \A i \in DOMAIN results : ResponseOK(results[i]) /\ AllReal(results[i].matches)

AnswerOK ==
    /\ answer.to \in {"nothing", "id", "ids", "lookups"}
    /\ answer.to # "nothing" => answer.status \in {200, 404, 422, 500}
    /\ answer.to = "lookups" /\ answer.status = 200 =>
         \A i \in DOMAIN answer.results : ResponseOK(answer.results[i])
    /\ \A match \in Shown : Real(match)

LEMMA Parts ==
    /\ AnswersInv <=> TablesOK /\ WorkOK /\ ResultsOK /\ AnswerOK
    /\ AnswersInv' <=> (TablesOK /\ WorkOK /\ ResultsOK /\ AnswerOK)'
<1>1. AnswersInv => TablesOK /\ WorkOK /\ ResultsOK /\ AnswerOK
  <2> SUFFICES ASSUME AnswersInv PROVE TablesOK /\ WorkOK /\ ResultsOK /\ AnswerOK
    OBVIOUS
  <2>1. TablesOK
    BY DEF AnswersInv, TypeOK, Sources, TablesOK
  <2>2. WorkOK
    BY DEF AnswersInv, TypeOK, WorkOK
  <2>3. ResultsOK
    BY DEF AnswersInv, TypeOK, ResultsOK, AllReal
  <2>4. AnswerOK
    BY DEF AnswersInv, TypeOK, AnswerOK
  <2> QED
    BY <2>1, <2>2, <2>3, <2>4
<1>2. TablesOK /\ WorkOK /\ ResultsOK /\ AnswerOK => AnswersInv
  <2> SUFFICES ASSUME TablesOK, WorkOK, ResultsOK, AnswerOK PROVE AnswersInv
    OBVIOUS
  <2>1. TypeOK
    BY DEF TypeOK, Sources, TablesOK, WorkOK, ResultsOK, AnswerOK
  <2> QED
    BY <2>1 DEF AnswersInv, Sources, TablesOK, WorkOK, ResultsOK, AllReal, AnswerOK
<1>3. AnswersInv' => TablesOK' /\ WorkOK' /\ ResultsOK' /\ AnswerOK'
  <2> SUFFICES ASSUME AnswersInv' PROVE TablesOK' /\ WorkOK' /\ ResultsOK' /\ AnswerOK'
    OBVIOUS
  <2>1. TablesOK'
    BY DEF AnswersInv, TypeOK, Sources, TablesOK
  <2>2. WorkOK'
    BY DEF AnswersInv, TypeOK, WorkOK
  <2>3. ResultsOK'
    BY DEF AnswersInv, TypeOK, ResultsOK, AllReal
  <2>4. AnswerOK'
    BY DEF AnswersInv, TypeOK, AnswerOK
  <2> QED
    BY <2>1, <2>2, <2>3, <2>4
<1>4. TablesOK' /\ WorkOK' /\ ResultsOK' /\ AnswerOK' => AnswersInv'
  <2> SUFFICES ASSUME TablesOK', WorkOK', ResultsOK', AnswerOK' PROVE AnswersInv'
    OBVIOUS
  <2>1. TypeOK'
    BY DEF TypeOK, Sources, TablesOK, WorkOK, ResultsOK, AnswerOK
  <2> QED
    BY <2>1 DEF AnswersInv, Sources, TablesOK, WorkOK, ResultsOK, AllReal, AnswerOK
<1> QED
  BY <1>1, <1>2, <1>3, <1>4

LEMMA EmptyIsDone == \E items \in Lookups \cup {<<>>} : IsSuffix(<<>>, items)
<1>1. <<>> \in Seq({})
  OBVIOUS
<1>2. IsSuffix(<<>>, <<>>)
  BY <1>1, SuffixSelf
<1> QED
  BY <1>2

LEMMA InitAnswers == Init => AnswersInv
<1> SUFFICES ASSUME Init PROVE AnswersInv
  OBVIOUS
<1>1. TablesOK
  <2>1. PICK cz \in Published("cz"), hr \in Published("hr") :
          live = [source \in {"cz", "hr"} |-> IF source = "cz" THEN cz ELSE hr]
    BY DEF Init
  <2>2. cz \in SUBSET CzRows /\ hr \in SUBSET HrRows
    BY DEF Published, Rows
  <2> QED
    BY <2>1, <2>2 DEF TablesOK, Sources
<1>2. WorkOK
  BY EmptyIsDone DEF Init, WorkOK
<1>3. ResultsOK
  BY DEF Init, ResultsOK
<1>4. AnswerOK
  BY DEF Init, AnswerOK, NoAnswer, Shown
<1> QED
  BY <1>1, <1>2, <1>3, <1>4, Parts

\* A refusal shows nothing.
LEMMA RefusalOK ==
    ASSUME NEW asked, answer' = Refusal("id", asked, 422) \/ answer' = Refusal("id", asked, 404)
                      \/ answer' = Refusal("ids", asked, 422)
                      \/ \E to \in {"id", "ids", "lookups"} : answer' = Refusal(to, asked, 500)
    PROVE  AnswerOK'
BY DEF Refusal, AnswerOK, Shown

LEMMA RowsByIdFacts ==
    ASSUME TablesOK, NEW source \in Sources, NEW items
    PROVE  /\ RowsById(source, items) \in SUBSET live[source]
           /\ live[source] \in Published(source)
           /\ RowsById(source, items) \subseteq Rows(source)
<1>1. RowsById(source, items) \in SUBSET live[source] /\ live[source] \in Published(source)
  BY DEF RowsById, TablesOK
<1> QED
  BY <1>1, PublishedFacts

LEMMA RealMatch ==
    ASSUME NEW source \in Sources, NEW row \in Rows(source), Showable(source, row)
    PROVE  Real(RowToMatch(source, row))
BY DEF Real, Sources

\* What clients can ask by id names a source.
LEMMA AskedSource ==
    ASSUME AnswerOK, NEW item \in Items \cup {ItemOf(match) : match \in Shown}
    PROVE  item.source \in Sources
<1>1. CASE item \in Items
  BY <1>1, AnswersAssumption DEF Sources
<1>2. CASE item \in {ItemOf(match) : match \in Shown}
  <2>1. PICK match \in Shown : item = ItemOf(match)
    BY <1>2
  <2>2. PICK source \in Sources : \E row \in Rows(source) : match = RowToMatch(source, row)
    BY <2>1 DEF AnswerOK, Real, Sources
  <2> QED
    BY <2>1, <2>2, RefIsId
<1> QED
  BY <1>1, <1>2

LEMMA ByIdAnswers ==
    ASSUME AnswersInv, NEW item \in Items \cup {ItemOf(match) : match \in Shown},
           AddressById(item)
    PROVE  AnswersInv'
<1>1. TablesOK /\ WorkOK /\ ResultsOK /\ AnswerOK
  BY Parts
<1>2. /\ work = <<>> /\ work' = work /\ results' = results /\ live' = live
      /\ \/ answer' = Refusal("id", item, 422)
         \/ answer' = Refusal("id", item, 404)
         \/ answer' = Refusal("id", item, 500)
         \/ \E row \in RowsById(item.source, <<item>>) :
              Showable(item.source, row) /\ answer' = Match(item, row)
  BY DEF AddressById, Answers
<1>3. AnswerOK'
  <2>1. CASE \E status \in {422, 404, 500} : answer' = Refusal("id", item, status)
    BY <2>1, RefusalOK
  <2>2. ASSUME NEW row \in RowsById(item.source, <<item>>),
               Showable(item.source, row), answer' = Match(item, row)
        PROVE  AnswerOK'
    <3>1. Real(RowToMatch(item.source, row))
      BY <1>1, <2>2, AskedSource, RowsByIdFacts, RealMatch
    <3>2. Range(<<RowToMatch(item.source, row)>>) = {RowToMatch(item.source, row)}
      BY DEF Range
    <3>3. /\ answer'.to = "id" /\ answer'.status = 200
          /\ answer'.matches = <<RowToMatch(item.source, row)>>
      BY <2>2 DEF Match
    <3> QED
      BY <3>1, <3>2, <3>3 DEF AnswerOK, Shown
  <2> QED
    BY <1>2, <2>1, <2>2
<1>4. TablesOK' /\ WorkOK' /\ ResultsOK'
  BY <1>1, <1>2 DEF TablesOK, WorkOK, ResultsOK
<1> QED
  BY <1>3, <1>4, Parts

\* Every row a batch by id finds can be shown.
AllShown(items) == \A source \in Sources : AllShowable(source, RowsById(source, items))

\* What it answers then.
Batch(items) ==
    LET rows == [s \in {"cz", "hr"} |-> RowsById(s, items)] IN
    [to |-> "ids", asked |-> items, status |-> 200,
     matches |-> Matches("cz", rows["cz"]) \o Matches("hr", rows["hr"]),
     not_found |-> NotFound(items, [s \in {"cz", "hr"} |-> Found(s, rows[s])])]

\* Its matches are the rows of either table with an id of the batch, once each.
LEMMA BatchMatches ==
    ASSUME TablesOK, NEW items, AllShown(items)
    PROVE  /\ \A m : m \in Range(Batch(items).matches) <=>
                \E source \in Sources : \E row \in RowsById(source, items) :
                  m = RowToMatch(source, row)
           /\ IsInjective(Batch(items).matches)
<1> DEFINE cz == Matches("cz", RowsById("cz", items))
           hr == Matches("hr", RowsById("hr", items))
           shown(s) == ShownOf(s, RowsById(s, items))
<1>1. Batch(items).matches = cz \o hr
  BY DEF Batch
<1>2. \A s \in Sources : RowsById(s, items) \in SUBSET live[s] /\ live[s] \in Published(s)
                         /\ RowsById(s, items) \subseteq Rows(s)
  BY RowsByIdFacts
<1>3. cz \in Seq(shown("cz")) /\ Range(cz) = shown("cz") /\ IsInjective(cz)
  BY <1>2, MatchesFacts DEF Sources, AllShown
<1>4. hr \in Seq(shown("hr")) /\ Range(hr) = shown("hr") /\ IsInjective(hr)
  BY <1>2, MatchesFacts DEF Sources, AllShown
<1>5. \A s \in Sources : \A m \in shown(s) : m.source = s
  BY <1>2, MatchNames DEF ShownOf
<1> HIDE DEF cz, hr
<1>6. shown("cz") \cap shown("hr") = {}
  <2> HIDE DEF shown
  <2> QED
    BY <1>5 DEF Sources
<1>7. Range(cz \o hr) = shown("cz") \cup shown("hr") /\ IsInjective(cz \o hr)
  <2> HIDE DEF shown
  <2> QED
    BY <1>3, <1>4, <1>6, ConcatFacts
<1> QED
  BY <1>1, <1>7 DEF ShownOf, Sources

LEMMA BatchAnswers ==
    ASSUME AnswersInv, NEW items, AddressesBatch(items)
    PROVE  AnswersInv'
<1>1. TablesOK /\ WorkOK /\ ResultsOK /\ AnswerOK
  BY Parts
<1>2. /\ work = <<>> /\ work' = work /\ results' = results /\ live' = live
      /\ \/ answer' = Refusal("ids", items, 422)
         \/ answer' = Refusal("ids", items, 500)
         \/ AllShown(items) /\ answer' = Batch(items)
  BY DEF AddressesBatch, Answers, Batch, AllShown, Sources
<1>3. AnswerOK'
  <2>1. CASE \E status \in {422, 500} : answer' = Refusal("ids", items, status)
    BY <2>1, RefusalOK
  <2>2. CASE AllShown(items) /\ answer' = Batch(items)
    <3>1. ASSUME NEW m \in Range(Batch(items).matches) PROVE Real(m)
      <4>1. PICK source \in Sources : \E row \in RowsById(source, items) : m = RowToMatch(source, row)
        BY <1>1, <2>2, BatchMatches
      <4>2. PICK row \in RowsById(source, items) : m = RowToMatch(source, row)
        BY <4>1
      <4>3. row \in Rows(source) /\ Showable(source, row)
        BY <1>1, <2>2, RowsByIdFacts DEF AllShown, AllShowable
      <4> QED
        BY <4>2, <4>3, RealMatch
    <3>2. answer'.to = "ids" /\ answer'.status = 200
      BY <2>2 DEF Batch
    <3> QED
      BY <2>2, <3>1, <3>2 DEF AnswerOK, Shown
  <2> QED
    BY <1>2, <2>1, <2>2
<1>4. TablesOK' /\ WorkOK' /\ ResultsOK'
  BY <1>1, <1>2 DEF TablesOK, WorkOK, ResultsOK
<1> QED
  BY <1>3, <1>4, Parts

LEMMA LookupBatchAnswers ==
    ASSUME AnswersInv, NEW items \in Lookups \cup {<<RequestOf(match)>> : match \in Shown},
           LookupBatch(items)
    PROVE  AnswersInv'
<1>1. TablesOK /\ WorkOK /\ ResultsOK /\ AnswerOK
  BY Parts
<1>2. work' = items /\ results' = <<>> /\ answer' = NoAnswer /\ live' = live
  BY DEF LookupBatch, Answers
<1>3. WorkOK'
  <2>1. CASE items \in Lookups
    <3>1. items \in Seq(Range(items))
      BY <2>1, AnswersAssumption
    <3>2. IsSuffix(items, items)
      BY <3>1, SuffixSelf
    <3> QED
      BY <1>2, <2>1, <3>1, <3>2 DEF WorkOK
  <2>2. ASSUME NEW match, items = <<RequestOf(match)>> PROVE WorkOK'
    <3>1. Len(items) = 1 /\ items \in Seq({RequestOf(match)})
      BY <2>2
    <3>2. items \in Seq(Range(items))
      BY <3>1, OwnRange
    <3> QED
      BY <1>2, <3>1, <3>2 DEF WorkOK
  <2> QED
    BY <2>1, <2>2
<1>4. TablesOK' /\ ResultsOK' /\ AnswerOK'
  BY <1>1, <1>2 DEF TablesOK, ResultsOK, AnswerOK, NoAnswer, Shown
<1> QED
  BY <1>3, <1>4, Parts

\* The results with one more are as good.
LEMMA MoreResults ==
    ASSUME TablesOK, ResultsOK, NEW req, ~Raises(req)
    PROVE  LET more == Append(results, LookupResponse(req)) IN
           /\ more \in Seq(Range(more))
           /\ \A i \in DOMAIN more : ResponseOK(more[i]) /\ AllReal(more[i].matches)
<1> DEFINE r == LookupResponse(req)
           more == Append(results, r)
           S == Range(results) \cup {r}
<1>1. ResponseOK(r) /\ AllReal(r.matches)
  BY ResponseFacts DEF TablesOK, AllReal
<1> HIDE DEF r
<1>2. results \in Seq(S)
  <2>1. results \in Seq(Range(results))
    BY DEF ResultsOK
  <2> QED
    BY <2>1
<1>3. more \in Seq(S)
  BY <1>2, AppendFacts
<1>4. more \in Seq(Range(more))
  BY <1>3, OwnRange
<1>5. \A i \in DOMAIN more : more[i] = r \/ (i \in DOMAIN results /\ more[i] = results[i])
  BY <1>2
<1> HIDE DEF more
<1>6. \A i \in DOMAIN more : ResponseOK(more[i]) /\ AllReal(more[i].matches)
  BY <1>1, <1>5 DEF ResultsOK
<1> QED
  BY <1>4, <1>6 DEF more, r

LEMMA LookupOneAnswers ==
    ASSUME AnswersInv, LookupOne
    PROVE  AnswersInv'
<1>1. TablesOK /\ WorkOK /\ ResultsOK /\ AnswerOK
  BY Parts
<1>2. TablesOK'
  BY <1>1 DEF LookupOne, Answers, TablesOK
<1>3. CASE Raises(Head(work))
  <2>1. /\ answer' = Refusal("lookups", Head(work), 500)
        /\ work' = <<>> /\ results' = <<>>
    BY <1>3 DEF LookupOne, Answers
  <2>2. AnswerOK'
    BY <2>1, RefusalOK
  <2>3. WorkOK' /\ ResultsOK'
    BY <2>1, EmptyIsDone DEF WorkOK, ResultsOK
  <2> QED
    BY <1>2, <2>2, <2>3, Parts
<1>4. CASE ~Raises(Head(work))
  <2> DEFINE more == Append(results, LookupResponse(Head(work)))
  <2>1. /\ more \in Seq(Range(more))
        /\ \A i \in DOMAIN more : ResponseOK(more[i]) /\ AllReal(more[i].matches)
    BY <1>1, <1>4, MoreResults
  <2>2. /\ work # <<>> /\ work' = Tail(work)
        /\ \/ /\ work' = <<>> /\ results' = <<>>
              /\ answer' = [to |-> "lookups", status |-> 200, results |-> more]
           \/ work' # <<>> /\ results' = more /\ answer' = answer
    BY <1>4 DEF LookupOne, Answers
  <2> HIDE DEF more
  <2>3. /\ \E items \in Lookups \cup {<<>>} : IsSuffix(work', items)
        /\ work' \in Seq(Range(work'))
    <3>1. work \in Seq(Range(work))
      BY <1>1 DEF WorkOK
    <3>2. Tail(work) \in Seq(Range(work)) /\ (Len(work) = 1 => Tail(work) = <<>>)
      BY <2>2, <3>1, TailFacts
    <3>3. ASSUME NEW items \in Lookups \cup {<<>>}, IsSuffix(work, items)
          PROVE  IsSuffix(Tail(work), items)
      <4>1. items \in Seq(Range(items))
        <5>1. <<>> \in Seq(Range(<<>>))
          OBVIOUS
        <5> QED
          BY <5>1, AnswersAssumption
      <4> QED
        BY <2>2, <3>1, <3>3, <4>1, SuffixTail
    <3> QED
      BY <1>1, <2>2, <3>2, <3>3, EmptyIsDone, OwnRange DEF WorkOK
  <2>4. WorkOK'
    BY <1>1, <2>2, <2>3 DEF WorkOK
  <2>5. ResultsOK'
    <3>1. CASE results' = <<>>
      BY <3>1 DEF ResultsOK
    <3>2. CASE results' = more
      BY <2>1, <3>2 DEF ResultsOK
    <3> QED
      BY <2>2, <3>1, <3>2
  <2>6. AnswerOK'
    <3>1. CASE answer' = answer
      BY <1>1, <3>1 DEF AnswerOK, Shown
    <3>2. CASE answer' = [to |-> "lookups", status |-> 200, results |-> more]
      <4>1. answer'.to = "lookups" /\ answer'.status = 200 /\ answer'.results = more
        BY <3>2
      <4>2. Shown' = UNION {Range(more[i].matches) : i \in DOMAIN more}
        BY <4>1 DEF Shown
      <4> QED
        BY <2>1, <4>1, <4>2 DEF AnswerOK, AllReal
    <3> QED
      BY <2>2, <3>1, <3>2
  <2> QED
    BY <1>2, <2>4, <2>5, <2>6, Parts
<1> QED
  BY <1>3, <1>4

LEMMA SwapAnswers ==
    ASSUME AnswersInv, NEW source \in Sources, Swap(source)
    PROVE  AnswersInv'
<1>1. TablesOK /\ WorkOK /\ ResultsOK /\ AnswerOK
  BY Parts
<1>2. PICK rows \in Published(source) : live' = [live EXCEPT ![source] = rows]
  BY DEF Swap, Imports, Sources
<1>3. rows \in SUBSET (CzRows \cup HrRows)
  BY <1>2 DEF Published, Rows
<1>4. TablesOK'
  BY <1>1, <1>2, <1>3 DEF TablesOK, Published
<1>5. WorkOK' /\ ResultsOK' /\ AnswerOK'
  BY <1>1 DEF Swap, WorkOK, ResultsOK, AnswerOK, Shown
<1> QED
  BY <1>4, <1>5, Parts

LEMMA NextAnswers == AnswersInv /\ [Next]_vars => AnswersInv'
<1> SUFFICES ASSUME AnswersInv, [Next]_vars PROVE AnswersInv'
  OBVIOUS
<1>1. CASE Client
  BY <1>1, ByIdAnswers, BatchAnswers, LookupBatchAnswers DEF Client
<1>2. CASE LookupOne
  BY <1>2, LookupOneAnswers
<1>3. ASSUME NEW source \in Sources, Swap(source) PROVE AnswersInv'
  BY <1>3, SwapAnswers
<1>4. CASE UNCHANGED vars
  BY <1>4, Parts DEF vars, TablesOK, WorkOK, ResultsOK, AnswerOK, Shown
<1> QED
  BY <1>1, <1>2, <1>3, <1>4 DEF Next, Sources

-----------------------------------------------------------------------------
(* Theorems *)

\* Every table is one an import published, every lookup under way is the rest of
\* a request, and a response has a step exactly if it has matches, and says it is
\* ambiguous exactly if it has more than one.
THEOREM AnswersTypes == Spec => []TypeOK
<1>1. AnswersInv => TypeOK
  BY DEF AnswersInv
<1> QED
  BY <1>1, InitAnswers, NextAnswers, PTL DEF Spec

\* Described as the API describes it, an address that can be shown is found by lookup
\* unless an earlier rung of the ladder has other rows, or a row that is found along
\* with it lacks its identifier or its position.  Not found are the Czech addresses of
\* NotByDescription: in Prague without a street, or of neither kind of number.
THEOREM AnswersFoundAgain == Spec => []FoundAgain
BY AnswersTypes, TypesFoundAgain, PTL

\* The items of a batch by id, all numeric, are answered or reported.
LEMMA BatchAccounted ==
    ASSUME TablesOK, NEW items \in Seq(Items), AllShown(items), answer' = Batch(items),
           \A i \in DOMAIN items : Numeric(items[i])
    PROVE  Accounted'
<1> DEFINE matches == Batch(items).matches
           missing == Batch(items).not_found
           found == [s \in {"cz", "hr"} |-> Found(s, RowsById(s, items))]
           names(item, m) ==
             /\ m.source = item.source
             /\ m.registry_ref = IF item.source = "cz" THEN Str(ToInt(item.registry_id))
                                                      ELSE item.registry_id
           matched(item) == \E m \in Range(matches) : names(item, m)
<1>1. /\ answer'.to = "ids" /\ answer'.status = 200 /\ answer'.asked = items
      /\ answer'.matches = matches /\ answer'.not_found = missing
  BY DEF Batch
<1>2. missing = NotFound(items, found)
  <2>1. [s \in {"cz", "hr"} |-> Found(s, [r \in {"cz", "hr"} |-> RowsById(r, items)][s])] = found
    OBVIOUS
  <2> QED
    BY <2>1 DEF Batch
<1>3. \A s \in Sources : found[s] = Found(s, RowsById(s, items))
  BY DEF Sources
<1>4. \A s \in Sources : RowsById(s, items) \subseteq Rows(s)
  BY RowsByIdFacts
<1>5. /\ \A m : m \in Range(matches) <=>
           \E s \in Sources : \E row \in RowsById(s, items) : m = RowToMatch(s, row)
      /\ IsInjective(matches)
  BY BatchMatches
<1>6. /\ IsInjective(missing)
      /\ Range(missing) = {item \in Range(items) : item.registry_id \notin found[item.source]}
  <2> HIDE DEF found, missing
  <2> QED
    BY <1>2, NotFoundFacts
<1>7. ASSUME NEW item \in Range(items)
      PROVE  /\ item.source \in Sources /\ item.registry_id \in Text /\ Numeric(item)
             /\ \E i \in DOMAIN items : item = items[i]
  <2>1. \E i \in DOMAIN items : item = items[i]
    BY DEF Range
  <2>2. item \in Items
    BY <2>1
  <2> QED
    BY <2>1, <2>2, AnswersAssumption DEF Sources
<1> HIDE DEF matches, missing, found
<1>8. ASSUME NEW item \in Range(items) PROVE matched(item) \/ item \in Range(missing)
  <2>1. SUFFICES ASSUME item.registry_id \in found[item.source] PROVE matched(item)
    BY <1>6
  <2>2. PICK row \in RowsById(item.source, items) :
          item.registry_id = IF item.source = "cz" THEN Str(row.kod_adm) ELSE row.inspire_id
    BY <1>3, <1>7, <2>1 DEF Found
  <2> DEFINE m == RowToMatch(item.source, row)
  <2>3. m \in Range(matches)
    BY <1>5, <1>7
  <2>4. m.source = item.source /\ m.registry_ref = item.registry_id
    BY <1>4, <1>7, <2>2, MatchNames
  <2>5. item.source = "cz" => Str(ToInt(item.registry_id)) = item.registry_id
    BY <2>2 DEF Str, ToInt
  <2> HIDE DEF m
  <2> QED
    BY <2>3, <2>4, <2>5
<1>9. ASSUME NEW item \in Range(items), matched(item), item \in Range(missing)
      PROVE  item.registry_id.form = "padded"
  <2>1. PICK m \in Range(matches) : names(item, m)
    BY <1>9
  <2>2a. PICK s \in Sources : \E row \in RowsById(s, items) : m = RowToMatch(s, row)
    BY <1>5
  <2>2. PICK row \in RowsById(s, items) : m = RowToMatch(s, row)
    BY <2>2a
  <2>3. s = item.source /\ row \in Rows(s)
        /\ m.registry_ref = IF s = "cz" THEN Str(row.kod_adm) ELSE row.inspire_id
    BY <1>4, <2>1, <2>2, MatchNames
  <2>4. m.registry_ref \in found[item.source]
    BY <1>3, <1>7, <2>2, <2>3 DEF Found
  <2>5. m.registry_ref # item.registry_id
    BY <1>6, <1>9, <2>4
  <2>6. item.source = "cz"
    BY <2>1, <2>5
  <2>7. item.registry_id # Str(ToInt(item.registry_id)) /\ IsInt(item.registry_id)
    BY <1>7, <2>1, <2>5, <2>6 DEF Numeric
  <2> QED
    BY <1>7, <2>7 DEF Str, ToInt, IsInt, Text
<1>10. ASSUME NEW m \in Range(matches) PROVE \E item \in Range(items) : names(item, m)
  <2>1a. PICK s \in Sources : \E row \in RowsById(s, items) : m = RowToMatch(s, row)
    BY <1>5
  <2>1. PICK row \in RowsById(s, items) : m = RowToMatch(s, row)
    BY <2>1a
  <2>2. PICK i \in DOMAIN items : items[i].source = s /\ Id(s, row) = Wanted(items[i])
    BY <2>1 DEF RowsById
  <2>3. items[i] \in Range(items)
    BY DEF Range
  <2>4. m.source = s /\ m.registry_ref = (IF s = "cz" THEN Str(row.kod_adm) ELSE row.inspire_id)
        /\ Id(s, row) = (IF s = "cz" THEN row.kod_adm ELSE row.inspire_id)
    BY <1>4, <2>1, MatchNames
  <2>5. names(items[i], m)
    BY <2>2, <2>4 DEF Wanted
  <2> QED
    BY <2>3, <2>5
<1>11. Range(missing) \subseteq Range(items)
  BY <1>6
<1> QED
  BY <1>1, <1>5, <1>6, <1>8, <1>9, <1>10, <1>11 DEF Accounted

LEMMA StepAccounted == AnswersInv /\ Accounted /\ [Next]_vars => Accounted'
<1> SUFFICES ASSUME AnswersInv, Accounted, [Next]_vars PROVE Accounted'
  OBVIOUS
<1>1. CASE answer' = answer
  BY <1>1 DEF Accounted
<1>2. CASE answer'.to # "ids" \/ answer'.status # 200
  BY <1>2 DEF Accounted
<1>3. ASSUME NEW n \in 1..MaxItems, NEW items \in [1..n -> Items], AddressesBatch(items)
      PROVE  Accounted'
  <2>1. items \in Seq(Items)
    BY AnswersAssumption
  <2>2. \/ \E status \in {422, 500} : answer' = Refusal("ids", items, status)
        \/ /\ AllShown(items) /\ answer' = Batch(items)
           /\ \A i \in DOMAIN items : Numeric(items[i])
    BY <1>3 DEF AddressesBatch, Answers, Batch, AllShown, Sources
  <2>3. CASE \E status \in {422, 500} : answer' = Refusal("ids", items, status)
    BY <1>2, <2>3 DEF Refusal
  <2> QED
    BY <2>1, <2>2, <2>3, BatchAccounted, Parts
<1>4. ASSUME NEW item, AddressById(item) PROVE Accounted'
  BY <1>2, <1>4 DEF AddressById, Answers, Match, Refusal
<1>5. ASSUME NEW items, LookupBatch(items) PROVE Accounted'
  BY <1>2, <1>5 DEF LookupBatch, Answers, NoAnswer
<1>6. CASE LookupOne
  BY <1>1, <1>2, <1>6 DEF LookupOne, Answers, Refusal
<1>7. ASSUME NEW source, Swap(source) PROVE Accounted'
  BY <1>1, <1>7 DEF Swap
<1>8. CASE UNCHANGED vars
  BY <1>1, <1>8 DEF vars
<1> QED
  BY <1>3, <1>4, <1>5, <1>6, <1>7, <1>8 DEF Next, Client

\* However large the batch and however often an item is repeated, every item of a
\* batch by id is matched or reported as not found.
THEOREM AnswersAccounted == Spec => []Accounted
<1>1. Init => Accounted
  BY DEF Init, NoAnswer, Accounted
<1> QED
  BY <1>1, InitAnswers, NextAnswers, StepAccounted, PTL DEF Spec

\* The step of the property: only AddressById answers by id.
LEMMA ByRefAnswers ==
    ASSUME AnswersInv, NEW match \in Shown, AddressById(ItemOf(match))
    PROVE  AnsweredByRef(match)
<1> DEFINE item == ItemOf(match)
<1>1. TablesOK /\ AnswerOK
  BY Parts
<1>2a. PICK source \in Sources :
         \E row \in Rows(source) : Showable(source, row) /\ match = RowToMatch(source, row)
  BY <1>1 DEF AnswerOK, Real, Sources
<1>2. PICK row \in Rows(source) : Showable(source, row) /\ match = RowToMatch(source, row)
  BY <1>2a
<1>3. /\ item.source = source /\ item.registry_id = match.registry_ref
      /\ Numeric(item) /\ Wanted(item) = Id(source, row)
      /\ match.source = source
  BY <1>2, RefIsId, MatchNames
<1> DEFINE rows == RowsById(source, <<item>>)
<1>4. rows = {other \in live[source] : Id(source, other) = Id(source, row)}
  <2> DEFINE ids == {Wanted(<<item>>[i]) : i \in {j \in DOMAIN <<item>> : <<item>>[j].source = source}}
  <2> HIDE DEF item
  <2>1. DOMAIN <<item>> = {1} /\ <<item>>[1] = item
    OBVIOUS
  <2>2. ids = {Id(source, row)}
    BY <1>3, <2>1
  <2>3. rows = {other \in live[source] : Id(source, other) \in ids}
    BY DEF RowsById
  <2> QED
    BY <2>2, <2>3
<1>5. live[source] \subseteq Rows(source)
  BY <1>1, PublishedFacts DEF TablesOK
<1>6. \A other \in live[source] : RowToMatch(source, other).registry_ref = match.registry_ref
                                    <=> other \in rows
  BY <1>2, <1>4, <1>5, SameRef
<1>7. \A other \in rows : RowToMatch(source, other) = match
  BY <1>2, <1>4, <1>5, SameAddress, ShowableHasId
<1>7a. rows = {other \in live[match.source] :
                 RowToMatch(match.source, other).registry_ref = match.registry_ref}
  BY <1>3, <1>4, <1>6
<1>7b. \A other, another \in rows : other = another
  <2>1. \A other, another \in live[source] :
          Id(source, other) = Id(source, another) /\ Id(source, other) # Null => other = another
    BY <1>1 DEF TablesOK, Published
  <2>2. Id(source, row) # Null
    BY <1>2, ShowableHasId
  <2> QED
    BY <1>4, <2>1, <2>2
<1>8. \/ rows = {} /\ answer' = Refusal("id", item, 404)
      \/ \E other \in rows : answer' = IF Showable(source, other) THEN Match(item, other)
                                                               ELSE Refusal("id", item, 500)
  BY <1>3 DEF AddressById, Answers
<1> HIDE DEF rows, item
<1>9. CASE rows = {} /\ answer' = Refusal("id", item, 404)
  <2>1. answer'.status = 404
    BY <1>9 DEF Refusal
  <2> QED
    BY <1>7a, <1>9, <2>1 DEF AnsweredByRef
<1>10. ASSUME NEW other \in rows, Showable(source, other), answer' = Match(item, other)
       PROVE  AnsweredByRef(match)
  <2>1. answer'.status = 200 /\ answer'.matches[1] = match
    BY <1>3, <1>7, <1>10 DEF Match
  <2>2. rows # {} /\ AllShowable(source, rows)
    BY <1>7b, <1>10 DEF AllShowable
  <2> QED
    BY <1>3, <1>7a, <2>1, <2>2 DEF AnsweredByRef, SameHouse
<1>11. ASSUME NEW other \in rows, ~Showable(source, other), answer' = Refusal("id", item, 500)
       PROVE  AnsweredByRef(match)
  <2>1. answer'.status = 500
    BY <1>11 DEF Refusal
  <2>2. rows # {} /\ ~AllShowable(source, rows)
    BY <1>11 DEF AllShowable
  <2> QED
    BY <1>3, <1>7a, <2>1, <2>2 DEF AnsweredByRef
<1> QED
  BY <1>8, <1>9, <1>10, <1>11

\* However often the tables are replaced, a reference the API has shown finds that
\* address again while the table has it and its position, is answered 404 once the
\* table does not have it, and with an error only while it has no position.
THEOREM AnswersRoundTrip == Spec => RoundTrip
<1>1. AnswersInv /\ [Next]_vars => [\A match \in Shown : AnsweredByRef(match)]_vars
  <2> SUFFICES ASSUME AnswersInv, Next, vars' # vars, NEW match \in Shown
               PROVE  AnsweredByRef(match)
    OBVIOUS
  <2>1. CASE ~(live' = live /\ answer'.to = "id" /\ answer'.asked = ItemOf(match))
    BY <2>1 DEF AnsweredByRef
  <2>2. ASSUME NEW item, AddressById(item) PROVE AnsweredByRef(match)
    <3>1. answer'.asked = item
      BY <2>2 DEF AddressById, Answers, Match, Refusal
    <3> QED
      BY <2>1, <2>2, <3>1, ByRefAnswers
  <2>3. ASSUME NEW items, AddressesBatch(items) PROVE AnsweredByRef(match)
    BY <2>1, <2>3 DEF AddressesBatch, Answers, Refusal
  <2>4. ASSUME NEW items, LookupBatch(items) PROVE AnsweredByRef(match)
    BY <2>1, <2>4 DEF LookupBatch, Answers, NoAnswer
  <2>5. CASE LookupOne
    <3>1. answer'.to = "lookups" \/ answer' = NoAnswer
      BY <2>5, Parts DEF LookupOne, Answers, Refusal, WorkOK
    <3> QED
      BY <2>1, <3>1 DEF NoAnswer
  <2>6. ASSUME NEW source, Swap(source) PROVE AnsweredByRef(match)
    BY <2>1, <2>6 DEF Swap, vars
  <2> QED
    BY <2>2, <2>3, <2>4, <2>5, <2>6 DEF Next, Client
<1> QED
  BY <1>1, InitAnswers, NextAnswers, PTL DEF Spec, RoundTrip

=============================================================================
