-------------------------- MODULE MCFederatedResponse --------------------------
EXTENDS FederatedResponse, MCFederatedQueries

(* What the providers hold: a leaf is its provider field, whose it is and a *)
(* distinguishing mark.                                                     *)

ArgOf(args, name) ==
    IF \E a \in args : a.name = name THEN (CHOOSE a \in args : a.name = name).value ELSE ""

L(schema, path, about, mark) == Leaf([key |-> <<schema, path>>, about |-> about, mark |-> mark])

PersonData(nic) ==
    Object([person |-> IF nic = "" THEN Null ELSE Object(
        [name    |-> L("P", <<"person", "name">>, nic, ""),
         contact |-> Object([phone |-> L("P", <<"person", "contact", "phone">>, nic, "")]),
         home    |-> Object([city |-> L("P", <<"person", "home", "city">>, nic, "")])])])

Car(nic, plate, checks, mark) ==
    Object([plate  |-> IF plate THEN L("V", <<"owner", "cars", "plate">>, nic, mark) ELSE Null,
            make   |-> L("V", <<"owner", "cars", "make">>, nic, mark),
            checks |-> List(checks)])
Check(nic, mark) == Object([day |-> L("V", <<"owner", "cars", "checks", "day">>, nic, mark)])

VehicleData(nic, since) ==
    Object([owner |-> IF nic = "" THEN Null ELSE Object(
        [cars |-> List(IF since = "new" THEN <<Car(nic, TRUE, <<Check(nic, "n")>>, "n")>>
                       ELSE <<Car(nic, TRUE, <<Check(nic, "a"), Check(nic, "b")>>, "1"),
                              Null,
                              Car(nic, TRUE, <<Null>>, "2"),
                              Car(nic, FALSE, <<>>, "3")>>)])])

MCData(schema, args) ==
    CASE schema = "P" -> PersonData(ArgOf(args, "nic"))
      [] schema = "V" -> VehicleData(ArgOf(args, "nic"), ArgOf(args, "since"))
      [] OTHER -> Object([taxes |-> Object([code |-> L("T", <<"taxes", "code">>, ArgOf(args, "nic"), "")])])

----------------------------------------------------------------------------
(* The example queries, and all queries for two persons that select one or  *)
(* two things of the first, in this order, and one of the second.           *)

Things == <<F("name"), F("tax"), O("home", <<F("city")>>), O("home", <<F("code"), F("__typename")>>),
            F("plates"), O("vehicles", <<F("plate"), F("make")>>),
            O("vehicles", <<F("make"), O("checks", <<F("day")>>)>>),
            O("vehicles", <<F("__typename")>>)>>
Givens == <<[nic |-> Lit("o1")], [nic |-> Lit("o1"), since |-> Lit("new")], [nic |-> Lit("")]>>

Pair(i, j, k, g) ==
    Query(<<Person("a", Lit("o1"), IF i = j THEN <<Things[i]>> ELSE <<Things[i], Things[j]>>),
            Field("b", "person", Givens[g], Absent, Absent, <<Things[k]>>)>>)

MCExamples == {<<name>> : name \in MCQueries}
MCPairs    == {<<"pair", i, j, k, g>> : i, j, k \in DOMAIN Things, g \in DOMAIN Givens}

MCAll       == MCExamples \cup MCPairs
MCDocuments == [q \in MCAll |-> IF q[1] = "pair" THEN Pair(q[2], q[3], q[4], q[5]) ELSE MCDocument[q[1]]]
=============================================================================
