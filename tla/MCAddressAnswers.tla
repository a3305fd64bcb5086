-------------------------- MODULE MCAddressAnswers --------------------------
(* A small registry for TLC: a street in a district of Prague, a village     *)
(* with and without streets whose names coincide, an address without a       *)
(* street in Prague, a number of neither kind; and Croatian rows as imports  *)
(* number them, one that loses its position and one without identifier.      *)
EXTENDS AddressAnswers

Cz(kod, ulice, obec, mop, momc, cast, typ, numbers, psc) ==
    [kod_adm |-> kod, ulice |-> ulice, obec |-> obec, mop |-> mop, momc |-> momc,
     cast_obce |-> cast, typ_so |-> typ, cislo_domovni |-> numbers[1],
     cislo_orientacni |-> numbers[2], cislo_orientacni_znak |-> numbers[3], psc |-> psc]

MCCzRows ==
    { Cz(1, "Dlouha", "Praha", "Praha 6", "Praha-Suchdol", "Sedlec", "c.p.", <<1, 2, "a">>, 10),
      Cz(2, Null, "Ves", Null, Null, "Lhota", "c.p.", <<1, Null, Null>>, 20),
      Cz(3, "Lhota", "Ves", Null, Null, "Ves", "c.p.", <<1, Null, Null>>, 20),
      Cz(4, Null, "Ves", Null, Null, "Ves", "c.p.", <<1, Null, Null>>, 20),
      Cz(5, Null, "Praha", "Praha 6", Null, "Sedlec", "c.ev.", <<1, Null, Null>>, 10),
      Cz(6, "Dlouha", "Praha", "Praha 6", Null, "Sedlec", Null, <<1, 2, Null>>, 10) }

Plain(n) == Str(n)
Padded(n) == [num |-> n, form |-> "padded"]
Other(n) == [num |-> n, form |-> "other"]

Hr(id, fid, geometry) ==
    [inspire_id |-> id, ogc_fid |-> fid, ulica |-> "Ilica", kucni_broj |-> <<1>>,
     naselje |-> "Split", postanski_broj |-> 100, geometry |-> geometry]

MCHrRows ==
    { Hr(Other(1), 1, "point"), Hr(Other(1), 2, "point"), Hr(Other(1), 3, Null),
      Hr(Null, 1, "point") }

Item(source, id) == [source |-> source, registry_id |-> id]

MCItems ==
    { Item("cz", Plain(1)), Item("cz", Padded(1)), Item("cz", Other(1)),
      Item("hr", Plain(1)), Item("hr", Other(1)) }

Address(country, street, number, city, psc) ==
    [country |-> country, street |-> street, number |-> number, house_number |-> Null,
     orientation_number |-> Null, orientation_letter |-> Null, number_type |-> "house",
     city |-> city, postal_code |-> psc]

\* The parts given beside a number that contradicts them.
InParts ==
    [Address("cz", "Dlouha", <<9>>, "Praha", Plain(10)) EXCEPT
       !.house_number = 1, !.orientation_number = 2, !.orientation_letter = "a"]

\* The other names the city goes by; a postal code written with a space.
MCLookups ==
    { <<Address("cz", "Dlouha", <<1, 2, "a">>, "Praha-Suchdol", Padded(10)), InParts>>,
      <<Address("cz", "Dlouha", <<1, 2, "a">>, "Sedlec", Plain(10)),
        Address("cz", "Lhota", <<1>>, "Ves", Other(20))>>,
      <<Address("hr", "Ilica", <<1>>, "Split", Null),
        Address("cz", Null, <<1>>, "Ves", Plain(20))>> }

=============================================================================
