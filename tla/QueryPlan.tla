------------------------------ MODULE QueryPlan ------------------------------
(***************************************************************************)
(* The pure part of the orchestration engine: how a validated consumer     *)
(* query is normalised (federator/operation) and planned as one fetch per  *)
(* provider schema and mapped arguments (plan.go).                         *)
(*                                                                         *)
(* Names are strings, a path is a sequence of names.  The texts of queries *)
(* and of types, and the order of arguments, are left out; so is the       *)
(* GraphQL validation that comes before all this: a document here is a     *)
(* valid one.                                                              *)
(***************************************************************************)
EXTENDS Naturals, SequencesExt

CONSTANTS
    Schema,    \* of each object type, of each of its fields, the definition
    Possible,  \* of each type condition, the object types it holds for
    Mappings,  \* the configured argument mappings, in order
    OwnerArg,  \* the name of the argument that identifies the data owner
    Absent     \* no value, no source, no directive

----------------------------------------------------------------------------
(* Normalisation: package operation.                                       *)

Introspection == {"__schema", "__type"}

TypeNameField ==
    [type |-> "String", list |-> FALSE, nonNull |-> TRUE, elemNonNull |-> FALSE,
     source |-> Absent, args |-> <<>>]

\* What the consumer schema says of a field, its @sourceInfo included.
Definition(T, name) == IF name = "__typename" THEN TypeNameField ELSE Schema[T][name]

\* A value in a query is a literal or names a variable of the request.
HasValue(term, vars) == term.var = "" \/ term.var \in DOMAIN vars
ValueOf(term, vars)  == IF term.var = "" THEN term.lit ELSE vars[term.var]

\* @skip and @include.
Included(s, vars) ==
    /\ s.skip = Absent \/ ~ValueOf(s.skip, vars)
    /\ s.include = Absent \/ ValueOf(s.include, vars)

FragmentApplies(T, condition) == condition = "" \/ T \in Possible[condition]

\* The fields that a selection set selects on T, in order.  A named fragment
\* counts once for each selection set, wherever it is spread.
RECURSIVE CollectFields(_, _, _, _)
CollectFields(doc, T, set, found) ==
    LET Enter(acc, condition, sub) ==
            IF FragmentApplies(T, condition) THEN CollectFields(doc, T, sub, acc) ELSE acc
        Spread(acc, name) ==
            IF name \in acc.visited THEN acc
            ELSE Enter([acc EXCEPT !.visited = @ \cup {name}],
                       doc.fragments[name].on, doc.fragments[name].sub)
        Select(acc, s) ==
            CASE ~Included(s, doc.vars) -> acc
              [] s.kind = "field"       -> [acc EXCEPT !.fields = Append(@, s)]
              [] s.kind = "spread"      -> Spread(acc, s.name)
              [] s.kind = "inline"      -> Enter(acc, s.on, s.sub)
    IN  FoldLeft(Select, found, set)

\* The response keys of selected fields, in the order they are first seen.
KeysInOrder(selected) ==
    FoldLeft(LAMBDA keys, s : IF Contains(keys, s.key) THEN keys ELSE Append(keys, s.key),
             <<>>, selected)

\* The arguments of a field: those given, then defaults; others are absent.
CoercedArguments(def, given, vars) ==
    LET Given(a) == a \in DOMAIN given /\ HasValue(given[a], vars)
    IN  [a \in {b \in DOMAIN def.args : Given(b) \/ def.args[b] # Absent} |->
            IF Given(a) THEN ValueOf(given[a], vars) ELSE def.args[a]]

\* The fields that selection sets on T ask for, one for each response key,
\* with the sub-selections of the fields of one key merged.  A field whose
\* type is an interface or a union cannot have sub-selections.
RECURSIVE NormalFields(_, _, _, _, _)
NormalFields(doc, T, sets, path, schemaPath) ==
    LET selected == FlattenSeq([i \in DOMAIN sets |->
            CollectFields(doc, T, sets[i], [fields |-> <<>>, visited |-> {}]).fields])
        keys == KeysInOrder(selected)
        Normal(key) ==
            LET group    == SelectSeq(selected, LAMBDA s : s.key = key)
                name     == group[1].name
                def      == Definition(T, name)
                subs     == SelectSeq([i \in DOMAIN group |-> group[i].sub],
                                      LAMBDA sub : sub # <<>>)
                isObject == def.type \in DOMAIN Schema
            IN  [key |-> key, name |-> name, parent |-> T, def |-> def,
                 path |-> Append(path, key), schemaPath |-> Append(schemaPath, name),
                 args |-> CoercedArguments(def, group[1].args, doc.vars),
                 unsupported |-> subs # <<>> /\ ~isObject,
                 sub |-> IF subs = <<>> \/ ~isObject THEN <<>>
                         ELSE NormalFields(doc, def.type, subs, Append(path, key),
                                           Append(schemaPath, name))]
    IN  [i \in DOMAIN keys |-> Normal(keys[i])]

\* Every field, depth first in query order.
RECURSIVE Walk(_)
Walk(fields) == FlattenSeq([i \in DOMAIN fields |-> <<fields[i]>> \o Walk(fields[i].sub)])

\* The operation of the document that the request names; Absent when it names
\* none of them, or none while there are several.
NamedOperation(doc) ==
    IF doc.operationName = "" /\ Len(doc.operations) = 1 THEN doc.operations[1]
    ELSE LET i == SelectInSeq(doc.operations, LAMBDA o : o.name = doc.operationName)
         IN  IF i = 0 THEN Absent ELSE doc.operations[i]

\* The normalised fields of the query, or Absent when it is refused.
Build(doc) ==
    LET op     == NamedOperation(doc)
        fields == NormalFields(doc, "Query", <<op.set>>, <<>>, <<>>)
        all    == Walk(fields)
    IN  IF op = Absent THEN Absent
        ELSE IF op.kind # "query" \/ \E i \in DOMAIN all : all[i].unsupported THEN Absent
        ELSE fields

\* A plausible bug: the first value is taken, whatever the others are.
FirstOwnerID(fields) ==
    LET all == Walk(fields)
        i   == SelectInSeq(all, LAMBDA f : OwnerArg \in DOMAIN f.args)
    IN  IF i = 0 THEN Absent ELSE all[i].args[OwnerArg]

\* Whom the query is about: the one value of the owner argument on any field,
\* or Absent when there is none or they differ.
DataOwnerID(fields) ==
    LET all == Walk(fields)
        ids == {all[i].args[OwnerArg] : i \in {j \in DOMAIN all : OwnerArg \in DOMAIN all[j].args}}
               \ {Absent, ""}
    IN  IF \E id \in ids : ids = {id} THEN CHOOSE id \in ids : TRUE ELSE Absent

\* Every occurrence of the consumer argument of each mapping.
BindArguments(fields) ==
    LET all == Walk(fields)
        Carries(m, f) == f.schemaPath = m.source /\ m.arg \in DOMAIN f.args
        Bound(m) ==
            LET carriers == SelectSeq(all, LAMBDA f : Carries(m, f))
            IN  [i \in DOMAIN carriers |->
                    [mapping |-> m, path |-> carriers[i].path, value |-> carriers[i].args[m.arg]]]
    IN  FlattenSeq([i \in DOMAIN Mappings |-> Bound(Mappings[i])])

----------------------------------------------------------------------------
(* Planning: plan.go.                                                      *)

IsItems(f)  == f.def.list /\ f.sub # <<>>
\* The field is read from a provider itself; an object is not, its fields are.
IsDirect(f) == f.def.source # Absent /\ (f.def.list \/ f.sub = <<>>)

\* Where a field is found in an item of the list that is declared at list.
RelativePath(path, list) ==
    IF IsStrictPrefix(list, path) THEN SubSeq(path, Len(list) + 1, Len(path)) ELSE <<Last(path)>>

\* The mapped arguments for the provider field that serves f: carried by f or
\* by an ancestor, attached on the way to the provider field.  The first
\* binding of an argument wins.
ArgumentsFor(f, bindings) ==
    LET source    == f.def.source
        Leads(b)  == /\ b.mapping.schema = source.schema
                     /\ IsPrefix(b.mapping.target, source.path)
                     /\ IsPrefix(b.path, f.path)
        leading   == SelectSeq(bindings, Leads)
        Same(i, j) == /\ leading[i].mapping.target = leading[j].mapping.target
                      /\ leading[i].mapping.name = leading[j].mapping.name
    IN  {[path |-> leading[i].mapping.target, name |-> leading[i].mapping.name,
          value |-> leading[i].value] :
            i \in {j \in DOMAIN leading : \A k \in 1..(j - 1) : ~Same(j, k)}}

FetchIndex(fetches, schema, args) ==
    SelectInSeq(fetches, LAMBDA t : t.schema = schema /\ t.args = args)

\* A plausible bug: fields share the fetch of their schema, whatever the
\* arguments they were asked for with.
FetchForSchema(plan, f, args) ==
    LET schema   == f.def.source.schema
        consumer == [path |-> f.path, provider |-> f.def.source.path]
        i        == SelectInSeq(plan.fetches, LAMBDA t : t.schema = schema)
    IN  IF i # 0 THEN [plan EXCEPT !.fetches[i].consumers = Append(@, consumer), !.fetches[i].args = args]
        ELSE [plan EXCEPT !.fetches = Append(@,
                [schema |-> schema, args |-> args, fields |-> <<>>, consumers |-> <<consumer>>])]

\* The plan in which a fetch serves f: the one for its schema with the same
\* arguments, or a new one.
FetchFor(plan, f, args) ==
    LET schema   == f.def.source.schema
        consumer == [path |-> f.path, provider |-> f.def.source.path]
        i        == FetchIndex(plan.fetches, schema, args)
    IN  IF i # 0 THEN [plan EXCEPT !.fetches[i].consumers = Append(@, consumer)]
        ELSE [plan EXCEPT !.fetches = Append(@,
                [schema |-> schema, args |-> args, fields |-> <<>>, consumers |-> <<consumer>>])]

\* The provider field at path is asked for once.
AddField(plan, i, path) ==
    IF Contains(plan.fetches[i].fields, path) THEN plan
    ELSE [plan EXCEPT !.fetches[i].fields = Append(@, path)]

\* Plans f; scope is the provider list whose items it is read from, if any.
RECURSIVE PlanField(_, _, _, _)
PlanField(plan, f, scope, bindings) ==
    LET Inside(p, s) == FoldLeft(LAMBDA q, g : PlanField(q, g, s, bindings), p, f.sub)
        Serve(p, i, requested) ==
            IF IsItems(f)
            THEN Inside(p, [fetch |-> i, declared |-> f.def.source.path, requested |-> requested])
            ELSE AddField(p, i, requested)
        args   == ArgumentsFor(f, bindings)
        served == FetchFor(plan, f, args)
    IN  CASE f.name = "__typename"    -> plan
          [] f.name \in Introspection -> [plan EXCEPT !.refused = TRUE]
          [] f.name \notin Introspection /\ IsDirect(f) /\ scope # Absent ->
                Serve(plan, scope.fetch,
                      scope.requested \o RelativePath(f.def.source.path, scope.declared))
          [] f.name \notin Introspection /\ IsDirect(f) /\ scope = Absent ->
                Serve(served, FetchIndex(served.fetches, f.def.source.schema, args), f.def.source.path)
          [] OTHER ->
                IF IsItems(f) THEN [plan EXCEPT !.refused = TRUE] ELSE Inside(plan, scope)

\* The fetches that answer a normalised query, or Absent when it is refused.
BuildPlan(fields) ==
    LET bindings == BindArguments(fields)
        plan == FoldLeft(LAMBDA p, f : PlanField(p, f, Absent, bindings),
                         [fetches |-> <<>>, refused |-> FALSE], fields)
    IN  IF plan.refused THEN Absent ELSE plan.fetches

\* The provider fields a fetch reads, as the PDP knows them.
RequiredFields(fetch) == {<<fetch.schema, fetch.fields[i]>> : i \in DOMAIN fetch.fields}

\* FederateQuery up to the plan: whom the query is about, and the provider
\* fields that each fetch reads; or Absent when the query is refused.
PlannedFor(doc) ==
    LET fields  == Build(doc)
        fetches == BuildPlan(fields)
    IN  IF fields = Absent THEN Absent
        ELSE IF DataOwnerID(fields) = Absent \/ fetches = Absent THEN Absent
        ELSE [owner   |-> DataOwnerID(fields),
              fetches |-> [i \in DOMAIN fetches |-> [schema |-> fetches[i].schema,
                                                     keys   |-> RequiredFields(fetches[i])]]]
=============================================================================
