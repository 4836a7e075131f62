-------------------------- MODULE MCFederatedRequest --------------------------
(* Some of the example queries, with their plans written out. *)
EXTENDS FederatedRequest, MCFederatedQueries

CONSTANTS r1, r2

Name   == <<"P", <<"person", "name">> >>
Phone  == <<"P", <<"person", "contact", "phone">> >>
Plate  == <<"V", <<"owner", "cars", "plate">> >>
Tax    == <<"T", <<"taxes", "code">> >>
MCKeys == {Name, Phone, Plate, Tax}

MCConsentKeys == {Phone, Plate}
MCGrantSets   == {{Name}, MCKeys}
MCRevocable   == {Name, Phone}

About(owner, fetches) == [owner |-> owner, fetches |-> fetches]
Read(schema, keys)    == [schema |-> schema, keys |-> keys]

MCPlan ==
    [name   |-> About("o1", <<Read("P", {Name})>>),
     phone  |-> About("o1", <<Read("P", {Phone})>>),
     both   |-> About("o1", <<Read("P", {Phone}), Read("V", {Plate})>>),
     taxes  |-> About("o1", <<Read("P", {Name}), Read("T", {Tax}), Read("V", {Plate})>>),
     duty   |-> About("o1", <<Read("P", {Name}), Read("T", {Tax})>>),
     hollow |-> About("o1", <<Read("V", {})>>),
     other  |-> About("o2", <<Read("P", {Phone})>>),
     two    |-> Absent]

ASSUME PlansAreOfTheQueries == \A q \in DOMAIN MCPlan : MCPlan[q] = PlannedFor(MCDocument[q])

MCPlanned   == DOMAIN MCPlan
MCQueriesOf == (r1 :> MCPlanned) @@ (r2 :> {"phone", "both", "other"})
=============================================================================
