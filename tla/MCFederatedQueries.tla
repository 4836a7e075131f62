--------------------------- MODULE MCFederatedQueries ---------------------------
(* Example queries over a consumer schema with two providers, P (persons)   *)
(* and V (vehicles), and a third, T (taxes), that has no provider           *)
(* configured.                                                              *)
EXTENDS QueryPlan

Def(type, list, nonNull, elemNonNull, source, args) ==
    [type |-> type, list |-> list, nonNull |-> nonNull, elemNonNull |-> elemNonNull,
     source |-> source, args |-> args]
From(schema, path) == [schema |-> schema, path |-> path]
Text(source)       == Def("String", FALSE, FALSE, FALSE, source, <<>>)

MCSchema ==
    [Query |-> [
        person   |-> Def("Person", FALSE, FALSE, FALSE, Absent, [nic |-> Absent, since |-> "any"]),
        subject  |-> Def("Subject", FALSE, FALSE, FALSE, Absent, <<>>),
        __schema |-> Def("__Schema", FALSE, TRUE, FALSE, Absent, <<>>)],
     __Schema |-> [description |-> Text(Absent)],
     Person |-> [
        name     |-> Def("String", FALSE, TRUE, FALSE, From("P", <<"person", "name">>), <<>>),
        phone    |-> Text(From("P", <<"person", "contact", "phone">>)),
        home     |-> Def("Home", FALSE, FALSE, FALSE, Absent, <<>>),
        vehicles |-> Def("Vehicle", TRUE, FALSE, FALSE, From("V", <<"owner", "cars">>), <<>>),
        plates   |-> Def("String", TRUE, FALSE, FALSE, From("V", <<"owner", "cars", "plate">>), <<>>),
        friends  |-> Def("Person", TRUE, FALSE, FALSE, Absent, <<>>),
        tax      |-> Text(From("T", <<"taxes", "code">>))],
     Home |-> [
        city     |-> Def("String", FALSE, TRUE, FALSE, From("P", <<"person", "home", "city">>), <<>>),
        code     |-> Text(From("T", <<"taxes", "code">>))],
     Vehicle |-> [
        plate    |-> Def("String", FALSE, TRUE, FALSE, From("V", <<"owner", "cars", "plate">>), <<>>),
        make     |-> Text(From("V", <<"models", "make">>)),
        checks   |-> Def("Check", TRUE, FALSE, TRUE, From("V", <<"owner", "cars", "checks">>), <<>>)],
     Check |-> [
        day      |-> Text(From("V", <<"owner", "cars", "checks", "day">>))]]

MCPossible == [Query |-> {"Query"}, Person |-> {"Person"}, Home |-> {"Home"},
               Subject |-> {"Person"}, Vehicle |-> {"Vehicle"}, Check |-> {"Check"}]

Mapping(schema, arg, target, name) ==
    [schema |-> schema, source |-> <<"person">>, arg |-> arg, target |-> target, name |-> name]
MCMappings == <<Mapping("P", "nic", <<"person">>, "nic"),
                Mapping("V", "nic", <<"owner">>, "nic"),
                Mapping("V", "since", <<"owner", "cars">>, "since"),
                Mapping("V", "nic", <<"owner", "cars">>, "since"),
                Mapping("T", "nic", <<"taxes">>, "nic")>>

----------------------------------------------------------------------------
(* The queries.                                                            *)

Lit(v) == [var |-> "", lit |-> v]
Var(x) == [var |-> x, lit |-> ""]

Field(key, name, args, skip, include, sub) ==
    [kind |-> "field", key |-> key, name |-> name, args |-> args, skip |-> skip,
     include |-> include, on |-> "", sub |-> sub]
F(name)            == Field(name, name, <<>>, Absent, Absent, <<>>)
O(name, sub)       == Field(name, name, <<>>, Absent, Absent, sub)
Person(key, nic, sub) == Field(key, "person", [nic |-> nic], Absent, Absent, sub)
On(type, sub)      == [kind |-> "inline", key |-> "", name |-> "", args |-> <<>>, skip |-> Absent,
                       include |-> Absent, on |-> type, sub |-> sub]
Spread(name)       == [kind |-> "spread", key |-> "", name |-> name, args |-> <<>>, skip |-> Absent,
                       include |-> Absent, on |-> "", sub |-> <<>>]

Doc(kind, set, fragments, variables) ==
    [operations |-> <<[name |-> "q", kind |-> kind, set |-> set]>>, operationName |-> "",
     fragments |-> fragments, vars |-> variables]
Query(set) == Doc("query", set, <<>>, <<>>)

MCDocument ==
    [name    |-> Query(<<Person("person", Lit("o1"), <<F("name")>>)>>),
     phone   |-> Query(<<Person("person", Lit("o1"), <<F("phone")>>)>>),
     both    |-> Query(<<Person("person", Lit("o1"), <<F("phone"), F("plates")>>)>>),
     \* aliases of one owner, with other arguments: two fetches of V
     aliases |-> Query(<<
        Person("old", Lit("o1"), <<F("plates"), Field("n", "name", <<>>, Absent, Absent, <<>>)>>),
        Field("new", "person", [nic |-> Lit("o1"), since |-> Lit("new")], Absent, Absent,
              <<O("vehicles", <<F("plate"), F("make")>>)>>)>>),
     \* fragments, merged selections, directives, variables
     merged  |-> Doc("query", <<
        Person("person", Var("nic"), <<O("home", <<F("city")>>), Spread("f"), Spread("f"),
               On("Subject", <<F("__typename")>>)>>),
        Person("person", Var("nic"), <<
               Field("phone", "phone", <<>>, Absent, Var("no"), <<>>),
               Field("plates", "plates", <<>>, Lit(TRUE), Absent, <<>>),
               O("home", <<Field("town", "city", <<>>, Absent, Absent, <<>>)>>)>>)>>,
        [f |-> [on |-> "Person", sub |-> <<F("name")>>]], [nic |-> "o1", no |-> FALSE]),
     \* lists in lists, nulls in them, a field declared outside its list
     lists   |-> Query(<<Person("person", Lit("o1"),
        <<O("vehicles", <<F("plate"), F("make"), O("checks", <<F("day"), F("__typename")>>)>>)>>)>>),
     \* a schema without a provider, after, before and between others
     taxes   |-> Query(<<Person("person", Lit("o1"), <<F("name"), F("tax"), F("plates")>>)>>),
     duty    |-> Query(<<Person("person", Lit("o1"), <<F("name"), F("tax")>>)>>),
     homes   |-> Query(<<Person("person", Lit("o1"), <<O("home", <<F("code"), F("city")>>)>>)>>),
     \* an empty identifier beside a real one
     blank   |-> Query(<<Person("nobody", Lit(""), <<F("plates")>>),
                         Person("person", Lit("o1"), <<F("name")>>)>>),
     \* nothing is read of the list but its type
     types   |-> Query(<<Person("person", Lit("o1"), <<F("name"), O("vehicles", <<F("__typename")>>)>>)>>),
     hollow  |-> Query(<<Person("person", Lit("o1"), <<O("vehicles", <<F("__typename")>>)>>)>>),
     other   |-> Query(<<Person("person", Lit("o2"), <<F("phone")>>)>>),
     \* refused
     two     |-> Query(<<Person("a", Lit("o1"), <<F("name")>>), Person("b", Lit("o2"), <<F("name")>>)>>),
     nobody  |-> Query(<<F("__typename")>>),
     friends |-> Query(<<Person("person", Lit("o1"), <<O("friends", <<F("name")>>)>>)>>),
     meta    |-> Query(<<Person("person", Lit("o1"), <<F("name")>>), O("__schema", <<F("__typename")>>)>>),
     union   |-> Query(<<Person("person", Lit("o1"), <<F("name")>>), O("subject", <<F("__typename")>>)>>),
     change  |-> Doc("mutation", <<Person("person", Lit("o1"), <<F("name")>>)>>, <<>>, <<>>)]

MCQueries == DOMAIN MCDocument
=============================================================================
