--------------------------- MODULE AddressAnswers ---------------------------
(***************************************************************************)
(* What the API answers (api/routes.py, api/queries.py): addresses by id,  *)
(* batches of ids, and structured lookups, one or many, with the ladder of *)
(* conditions of the Czech ones.  How requests get connections and locks   *)
(* is ApiRequests; its Snapshot is why one connection's worth of work is   *)
(* one step here, between which the importers may swap either table.       *)
(*                                                                         *)
(* Data.  Names are strings, Null is None and NULL (COPY makes NULL of an  *)
(* empty cell).  A house number as text, "2186/1b", is the sequence of its *)
(* parts.  Other texts are what int() makes of them and whether str()      *)
(* would write them so: "7" is plain, "007" is padded, and for "160 00" or *)
(* "HR.DGU.RPJ:KB.7" int() raises ValueError.  RUIAN's two kinds of number *)
(* are "c.p." and "c.ev.".  A Croatian row may lack its identifier or its  *)
(* position, as the package may; AddressMatch has to have both.            *)
(***************************************************************************)
EXTENDS Naturals, Sequences, FiniteSets, SequencesExt

CONSTANTS
    Null,
    CzRows, HrRows,     \* addresses an imported table may have
    Items,              \* what clients ask by id, (source, registry_id)
    Lookups,            \* what they look up, sequences of LookupRequests
    MaxItems            \* bound: items of a batch by id

Text == [num : Nat, form : {"plain", "padded", "other"}]

\* The tables are finite, identifiers and postal codes are numbers or texts, an
\* orientation number comes with a house number and a letter with an orientation
\* number, requests are not empty, and None is none of these.
ASSUME AnswersAssumption ==
    /\ IsFiniteSet(CzRows) /\ IsFiniteSet(HrRows)
    /\ \A row \in CzRows :
         /\ row.kod_adm \in Nat
         /\ row.psc \in {Null} \cup Nat
         /\ {row.cislo_domovni, row.cislo_orientacni} \subseteq {Null} \cup Nat
         /\ row.cislo_orientacni_znak \in {Null} \cup STRING
         /\ row.cislo_orientacni # Null => row.cislo_domovni # Null
         /\ row.cislo_orientacni_znak # Null => row.cislo_orientacni # Null
    /\ \A row \in HrRows :
         /\ row.inspire_id \in {Null} \cup Text
         /\ row.postanski_broj \in {Null} \cup Nat
    /\ Items \subseteq [source : {"cz", "hr"}, registry_id : Text]
    /\ \A items \in Lookups : items \in Seq(Range(items)) /\ items # <<>>
    /\ Null \notin Nat /\ Null \notin Text /\ Null \notin Seq(Nat \cup STRING)
    /\ MaxItems \in Nat \ {0}

\* kod_adm, and inspire_id, "the stable DGU identifier anchored in the source data":
\* whichever import it comes from, an id stands for one address, though not always
\* for one position.
ASSUME RegistersAssumption ==
    /\ \A row, other \in CzRows : row.kod_adm = other.kod_adm => row = other
    /\ \A row, other \in HrRows : row.inspire_id = other.inspire_id /\ row.inspire_id # Null =>
         /\ row.ulica = other.ulica /\ row.kucni_broj = other.kucni_broj
         /\ row.naselje = other.naselje /\ row.postanski_broj = other.postanski_broj

VARIABLES
    live,       \* the rows of each live table
    work,       \* items of the lookup that are not done, and what they are of
    results,    \* the responses to those that are
    answer      \* the last response, and what it answers

vars == <<live, work, results, answer>>

-----------------------------------------------------------------------------
(* Texts *)

Str(n) == [num |-> n, form |-> "plain"]

IsInt(t) == t.form # "other"

ToInt(t) == t.num

StrOrNone(n) == IF n = Null THEN Null ELSE Str(n)

IntOrNone(t) == IF t = Null THEN Null ELSE ToInt(t)

\* "2186/1b" -> (2186, 1, "b"); a text that is no number has no parts.
ParseCzNumber(raw) ==
    LET part(i) == IF raw # Null /\ Len(raw) >= i THEN raw[i] ELSE Null IN
    [house |-> part(1), orient |-> part(2), letter |-> part(3)]

\* And back.
CzHouseNumber(row) ==
    IF row.cislo_domovni = Null THEN Null
    ELSE IF row.cislo_orientacni = Null THEN <<row.cislo_domovni>>
    ELSE IF row.cislo_orientacni_znak = Null
      THEN <<row.cislo_domovni, row.cislo_orientacni>>
      ELSE <<row.cislo_domovni, row.cislo_orientacni, row.cislo_orientacni_znak>>

-----------------------------------------------------------------------------
(* Rows as the API shows them *)

Or(a, b) == IF a # Null THEN a ELSE b

\* typ_so as the API's number_type, None for any other text, and back.
CzNumberType(typ_so) ==
    IF typ_so = "c.ev." THEN "registration" ELSE IF typ_so = "c.p." THEN "house" ELSE Null

CzTypSo(number_type) == IF number_type = "registration" THEN "c.ev." ELSE "c.p."

\* Line 1 is the street or, where there is none, the part of the municipality;
\* the city is Prague's district or the municipality.
CzRowToMatch(row) ==
    [source |-> "cz", registry_ref |-> Str(row.kod_adm),
     street |-> IF row.ulice # Null \/ row.cast_obce = row.obec
                  THEN row.ulice ELSE row.cast_obce,
     house_number |-> CzHouseNumber(row), number_type |-> CzNumberType(row.typ_so),
     city |-> Or(row.mop, row.obec), postal_code |-> StrOrNone(row.psc)]

\* Mutant: the row's number in this import instead of its INSPIRE id.
HrRowToMatchByFid(row) ==
    [source |-> "hr", registry_ref |-> Str(row.ogc_fid),
     street |-> row.ulica, house_number |-> row.kucni_broj, number_type |-> "house",
     city |-> row.naselje, postal_code |-> StrOrNone(row.postanski_broj)]

HrRowToMatch(row) ==
    [source |-> "hr", registry_ref |-> row.inspire_id,
     street |-> row.ulica, house_number |-> row.kucni_broj, number_type |-> "house",
     city |-> row.naselje, postal_code |-> StrOrNone(row.postanski_broj)]

RowToMatch(source, row) ==
    IF source = "cz" THEN CzRowToMatch(row) ELSE HrRowToMatch(row)

\* Of other rows AddressMatch raises a ValidationError: registry_ref and the two
\* coordinates may not be None.  The Czech importer leaves rows without position out.
Showable(source, row) == source # "cz" => row.inspire_id # Null /\ row.geometry # Null

AllShowable(source, rows) == \A row \in rows : Showable(source, row)

Matches(source, rows) == SetToSeq({RowToMatch(source, row) : row \in rows})

-----------------------------------------------------------------------------
(* Lookup *)

\* Parts that are given win over the composite number.
CzParams(req) ==
    LET parse == req.house_number = Null /\ req.orientation_number = Null
        raw == ParseCzNumber(req.number)
    IN [street |-> req.street, city |-> req.city,
        psc |-> IntOrNone(req.postal_code), typ_so |-> CzTypSo(req.number_type),
        house |-> IF parse THEN raw.house ELSE req.house_number,
        orient |-> IF parse THEN raw.orient ELSE req.orientation_number,
        letter |-> IF parse THEN Or(req.orientation_letter, raw.letter)
                            ELSE req.orientation_letter]

CzBaseFilter(row, p) ==
    /\ row.typ_so = p.typ_so
    /\ row.cislo_domovni = p.house
    /\ row.cislo_orientacni = p.orient
    /\ row.cislo_orientacni_znak = p.letter
    /\ row.psc = p.psc

\* Mutant: no rung for the addresses that have no street.
CzVariantsOfStreets(row, p) ==
    << row.ulice = p.street /\ row.obec = p.city,
       row.ulice = p.street /\ row.mop = p.city,
       row.ulice = p.street /\ row.momc = p.city,
       row.ulice = p.street /\ row.cast_obce = p.city >>

\* Strict; the city as MOP, as MOMC, as part of a municipality; the street as a
\* part of a municipality.
CzVariants(row, p) ==
    << row.ulice = p.street /\ row.obec = p.city,
       row.ulice = p.street /\ row.mop = p.city,
       row.ulice = p.street /\ row.momc = p.city,
       row.ulice = p.street /\ row.cast_obce = p.city,
       row.ulice = Null /\ row.cast_obce = p.street /\ row.obec = p.city >>

\* Mutant: steps counted from 1.
StepsFromOne(row, p) ==
    {i \in DOMAIN CzVariants(row, p) : CzBaseFilter(row, p) /\ CzVariants(row, p)[i]}

\* The steps, from 0, by which a row is what the parameters say.
StepsOf(row, p) ==
    {i - 1 : i \in {j \in DOMAIN CzVariants(row, p) :
                      CzBaseFilter(row, p) /\ CzVariants(row, p)[j]}}

\* The ladder: the rows of the first step that has any.
CzLookup(p) ==
    LET steps == UNION {StepsOf(row, p) : row \in live["cz"]}
        step == IF steps = {} THEN Null
                ELSE CHOOSE s \in steps : \A t \in steps : s <= t
    IN [rows |-> {row \in live["cz"] : step \in StepsOf(row, p)}, step |-> step]

\* The server reads the postal code as the integer it is compared with.
HrLookup(req) ==
    LET rows == {row \in live["hr"] :
                   /\ row.ulica = req.street
                   /\ row.kucni_broj = req.number
                   /\ row.naselje = req.city
                   /\ row.postanski_broj = IntOrNone(req.postal_code)}
    IN [rows |-> rows, step |-> IF rows = {} THEN Null ELSE 0]

LookedUp(req) == IF req.country = "cz" THEN CzLookup(CzParams(req)) ELSE HrLookup(req)

\* A postal code that is no integer raises, in _cz_params or in the server, and so
\* does a row that was found and cannot be shown.
Raises(req) ==
    \/ req.postal_code # Null /\ ~IsInt(req.postal_code)
    \/ ~AllShowable(req.country, LookedUp(req).rows)

LookupResponse(req) ==
    LET found == LookedUp(req) IN
    [matches |-> Matches(req.country, found.rows), fallback_step |-> found.step,
     ambiguous |-> Cardinality(found.rows) > 1]

-----------------------------------------------------------------------------
(* By id *)

Rows(source) == IF source = "cz" THEN CzRows ELSE HrRows

\* The column a registry id is compared with; no id is equal to NULL.
Id(source, row) == IF source = "cz" THEN row.kod_adm ELSE row.inspire_id

Wanted(item) == IF item.source = "cz" THEN ToInt(item.registry_id) ELSE item.registry_id

Numeric(item) == item.source = "cz" => IsInt(item.registry_id)

\* cz_by_ids, hr_by_ids: = ANY(the ids of a source).
RowsById(source, items) ==
    LET ids == {Wanted(items[i]) : i \in {j \in DOMAIN items : items[j].source = source}}
    IN {row \in live[source] : Id(source, row) \in ids}

\* The ids that were found, as the response writes them.
Found(source, rows) ==
    {IF source = "cz" THEN Str(row.kod_adm) ELSE row.inspire_id : row \in rows}

\* Mutant: duplicates told by their id alone.
NotFoundById(items, found) ==
    FoldLeft(LAMBDA missing, item :
               IF \/ \E other \in Range(missing) : other.registry_id = item.registry_id
                  \/ item.registry_id \in found[item.source]
                 THEN missing ELSE Append(missing, item),
             <<>>, items)

\* In the order of the request, an item that is repeated once.
NotFound(items, found) ==
    FoldLeft(LAMBDA missing, item :
               IF item \in Range(missing) \/ item.registry_id \in found[item.source]
                 THEN missing ELSE Append(missing, item),
             <<>>, items)

-----------------------------------------------------------------------------
(* Endpoints *)

NoAnswer == [to |-> "nothing"]

Match(item, row) ==
    [to |-> "id", asked |-> item, status |-> 200, matches |-> <<RowToMatch(item.source, row)>>]

Refusal(endpoint, asked, status) == [to |-> endpoint, asked |-> asked, status |-> status]

Answers(response) ==
    /\ answer' = response
    /\ UNCHANGED live

AddressById(item) ==
    /\ work = <<>>
    /\ \/ /\ ~Numeric(item)
          /\ Answers(Refusal("id", item, 422))
       \/ /\ Numeric(item)
          /\ RowsById(item.source, <<item>>) = {}
          /\ Answers(Refusal("id", item, 404))
       \/ /\ Numeric(item)
          /\ \E row \in RowsById(item.source, <<item>>) :
               Answers(IF Showable(item.source, row) THEN Match(item, row)
                                                     ELSE Refusal("id", item, 500))
    /\ UNCHANGED <<work, results>>

\* Both sources in one transaction; one row that cannot be shown fails all of it.
AddressesBatch(items) ==
    /\ work = <<>>
    /\ \/ /\ \E i \in DOMAIN items : ~Numeric(items[i])
          /\ Answers(Refusal("ids", items, 422))
       \/ /\ \A i \in DOMAIN items : Numeric(items[i])
          /\ \E source \in {"cz", "hr"} : ~AllShowable(source, RowsById(source, items))
          /\ Answers(Refusal("ids", items, 500))
       \/ /\ \A i \in DOMAIN items : Numeric(items[i])
          /\ \A source \in {"cz", "hr"} : AllShowable(source, RowsById(source, items))
          /\ LET rows == [s \in {"cz", "hr"} |-> RowsById(s, items)] IN
             Answers([to |-> "ids", asked |-> items, status |-> 200,
                      matches |-> Matches("cz", rows["cz"]) \o Matches("hr", rows["hr"]),
                      not_found |-> NotFound(items, [s \in {"cz", "hr"} |-> Found(s, rows[s])])])
    /\ UNCHANGED <<work, results>>

\* /lookup is a batch of one.
LookupBatch(items) ==
    /\ work = <<>>
    /\ work' = items
    /\ results' = <<>>
    /\ Answers(NoAnswer)

\* One item, on a connection of its own.  An exception fails the whole request.
LookupOne ==
    /\ work # <<>>
    /\ IF Raises(Head(work))
         THEN /\ Answers(Refusal("lookups", Head(work), 500))
              /\ work' = <<>>
              /\ results' = <<>>
         ELSE /\ work' = Tail(work)
              /\ IF work' = <<>>
                   THEN /\ Answers([to |-> "lookups", status |-> 200,
                                    results |-> Append(results, LookupResponse(Head(work)))])
                        /\ results' = <<>>
                   ELSE /\ results' = Append(results, LookupResponse(Head(work)))
                        /\ UNCHANGED <<live, answer>>

-----------------------------------------------------------------------------
(* Clients and importers *)

\* The tables the importers publish: no identifier is repeated (LiveUnique of
\* HrImport and CzImport), NULL being none.
Published(source) ==
    {rows \in SUBSET Rows(source) :
       \A row, other \in rows :
         Id(source, row) = Id(source, other) /\ Id(source, row) # Null => row = other}

\* One of them is brought by every import.
Imports == [source \in {"cz", "hr"} |-> Published(source)]

Swap(source) ==
    /\ \E rows \in Imports[source] : live' = [live EXCEPT ![source] = rows]
    /\ UNCHANGED <<work, results, answer>>

\* The addresses in the last answer: a client may ask for them again, by the id
\* or by the description it was given.
Shown ==
    IF answer.to = "nothing" \/ answer.status # 200 THEN {}
    ELSE IF answer.to = "lookups"
      THEN UNION {Range(answer.results[i].matches) : i \in DOMAIN answer.results}
      ELSE Range(answer.matches)

ItemOf(match) == [source |-> match.source, registry_id |-> match.registry_ref]

\* number_type has a default and may not be None.
RequestOf(match) ==
    [country |-> match.source, street |-> match.street, number |-> match.house_number,
     house_number |-> Null, orientation_number |-> Null, orientation_letter |-> Null,
     number_type |-> Or(match.number_type, "house"), city |-> match.city,
     postal_code |-> match.postal_code]

Init ==
    /\ \E cz \in Published("cz"), hr \in Published("hr") :
         live = [source \in {"cz", "hr"} |-> IF source = "cz" THEN cz ELSE hr]
    /\ work = <<>>
    /\ results = <<>>
    /\ answer = NoAnswer

Client ==
    \/ \E item \in Items \cup {ItemOf(match) : match \in Shown} : AddressById(item)
    \/ \E n \in 1..MaxItems : \E items \in [1..n -> Items] : AddressesBatch(items)
    \/ \E items \in Lookups \cup {<<RequestOf(match)>> : match \in Shown} : LookupBatch(items)

Next == Client \/ LookupOne \/ \E source \in {"cz", "hr"} : Swap(source)

Spec == Init /\ [][Next]_vars

-----------------------------------------------------------------------------
(* Properties *)

\* Responses that are OK have what the models in api/models.py say: a step of
\* the ladder exactly if there are matches, and "ambiguous" if there are more.
ResponseOK(r) ==
    /\ r.fallback_step \in {Null} \cup 0..4
    /\ r.fallback_step = Null <=> r.matches = <<>>
    /\ r.ambiguous <=> Len(r.matches) > 1

TypeOK ==
    /\ \A source \in {"cz", "hr"} : live[source] \in Published(source)
    /\ \E items \in Lookups \cup {<<>>} : IsSuffix(work, items) \/ Len(work) = 1
    /\ \A i \in DOMAIN results : ResponseOK(results[i])
    /\ answer.to \in {"nothing", "id", "ids", "lookups"}
    /\ answer.to # "nothing" => answer.status \in {200, 404, 422, 500}
    /\ answer.to = "lookups" /\ answer.status = 200 =>
         \A i \in DOMAIN answer.results : ResponseOK(answer.results[i])

\* Every item of a batch by id is matched or reported as not found, neither of
\* them twice, and nothing else is answered.  An item that is matched is not
\* reported as well unless its id is not written as the API writes it.
Accounted ==
    answer.to = "ids" /\ answer.status = 200 =>
      LET names(item, m) ==
            /\ m.source = item.source
            /\ m.registry_ref = IF item.source = "cz" THEN Str(ToInt(item.registry_id))
                                                     ELSE item.registry_id
          matched(item) == \E m \in Range(answer.matches) : names(item, m)
          missing(item) == item \in Range(answer.not_found)
      IN /\ \A item \in Range(answer.asked) :
              /\ matched(item) \/ missing(item)
              /\ matched(item) /\ missing(item) => item.registry_id.form = "padded"
         /\ \A m \in Range(answer.matches) : \E item \in Range(answer.asked) : names(item, m)
         /\ Range(answer.not_found) \subseteq Range(answer.asked)
         /\ IsInjective(answer.matches) /\ IsInjective(answer.not_found)

SameHouse(m, n) == [m EXCEPT !.registry_ref = Null] = [n EXCEPT !.registry_ref = Null]

\* Asked for by the reference of the match, it is found if the table has it and it
\* can still be shown.
AnsweredByRef(match) ==
    LET now == {row \in live[match.source] :
                  RowToMatch(match.source, row).registry_ref = match.registry_ref}
    IN live' = live /\ answer'.to = "id" /\ answer'.asked = ItemOf(match) =>
         IF now = {} THEN answer'.status = 404
         ELSE IF AllShowable(match.source, now)
           THEN answer'.status = 200 /\ SameHouse(match, answer'.matches[1])
           ELSE answer'.status = 500

\* The reference of an address the API has shown finds that address for as long
\* as the table has it, however often the table is replaced, and 404 after; only
\* while the package gives it no position is the answer an error.
RoundTrip == [][\A match \in Shown : AnsweredByRef(match)]_vars

\* The addresses that no rung can find as they are described: without a street, in
\* a part of Prague, where the city is the district but the last rung looks for the
\* municipality; and those whose number is of neither kind.
NotByDescription(row) ==
    \/ row.ulice = Null /\ row.mop # Null /\ row.cast_obce # row.obec
    \/ CzNumberType(row.typ_so) = Null

\* An address that is described as the API describes it is found by lookup, or
\* else an earlier rung has other rows.  The lookup fails if one of the rows it finds
\* cannot be shown, and for no other reason.
FoundAgain ==
    \A source \in {"cz", "hr"} : \A row \in live[source] :
      LET match == RowToMatch(source, row)
          req == RequestOf(match)
          response == LookupResponse(req)
      IN \/ ~Showable(source, row)
         \/ source = "cz" /\ NotByDescription(row)
         \/ Raises(req) /\ \E other \in LookedUp(req).rows : ~Showable(source, other)
         \/ ~Raises(req) /\ match \in Range(response.matches)
         \/ /\ ~Raises(req) /\ source = "cz" /\ response.matches # <<>>
            /\ \E step \in StepsOf(row, CzParams(req)) : response.fallback_step < step

-----------------------------------------------------------------------------
(* Inductive invariant *)

\* The match is an address of some import.
Real(match) ==
    \E source \in {"cz", "hr"} : \E row \in Rows(source) :
      Showable(source, row) /\ match = RowToMatch(source, row)

\* Nothing is shown, or about to be, that was not in some import; while a lookup
\* is under way there is no answer.
AnswersInv ==
    /\ TypeOK
    /\ live \in [{"cz", "hr"} -> SUBSET (CzRows \cup HrRows)]
    /\ work \in Seq(Range(work)) /\ results \in Seq(Range(results))
    /\ work # <<>> => answer = NoAnswer
    /\ \A i \in DOMAIN results : \A match \in Range(results[i].matches) : Real(match)
    /\ \A match \in Shown : Real(match)

=============================================================================
