---------------------------- MODULE ResponseMerge ----------------------------
(***************************************************************************)
(* How the answers of the providers are merged into the consumer's         *)
(* response (merge.go).  Data is a tree of objects, lists, leaves and      *)
(* nulls; an error is its kind and its place in the response.              *)
(*                                                                         *)
(* The last part, Direct, is the reference the plan and the merge are      *)
(* checked against: what each field is worth when it is read from its own  *)
(* provider by itself, with no fetch shared and nothing left out of an     *)
(* answer, and nulls propagated as GraphQL prescribes.                     *)
(***************************************************************************)
EXTENDS QueryPlan

Null        == [kind |-> "null"]
Leaf(v)     == [kind |-> "leaf", value |-> v]
TypeName(T) == [kind |-> "typename", value |-> T]
Object(f)   == [kind |-> "object", fields |-> f]
List(s)     == [kind |-> "list", items |-> s]

\* The value at a path; a list on the way yields the value for each item.
RECURSIVE ValueAt(_, _)
ValueAt(data, path) ==
    CASE path = <<>> -> data
      [] path # <<>> /\ data.kind = "object" ->
            IF Head(path) \in DOMAIN data.fields THEN ValueAt(data.fields[Head(path)], Tail(path))
            ELSE Null
      [] path # <<>> /\ data.kind = "list" ->
            List([i \in DOMAIN data.items |-> ValueAt(data.items[i], path)])
      [] OTHER -> Null

----------------------------------------------------------------------------
(* A provider answers with the requested fields of its data and no others. *)
(* It refuses a request for nothing, and one for an object without its     *)
(* fields.                                                                 *)

RECURSIVE Requested(_, _)
Requested(data, paths) ==
    LET Under(name) == {Tail(p) : p \in {q \in paths : q # <<>> /\ Head(q) = name}}
    IN  CASE data.kind = "object" ->
                Object([name \in {n \in DOMAIN data.fields : Under(n) # {}} |->
                            Requested(data.fields[name], Under(name))])
          [] data.kind = "list" ->
                List([i \in DOMAIN data.items |-> Requested(data.items[i], paths)])
          [] OTHER -> data

RECURSIVE HoldsObject(_)
HoldsObject(data) ==
    \/ data.kind = "object"
    \/ data.kind = "list" /\ \E i \in DOMAIN data.items : HoldsObject(data.items[i])

Refuses(data, paths) == paths = {} \/ \E p \in paths : HoldsObject(ValueAt(data, p))

----------------------------------------------------------------------------
(* The merge.  A result is what execute stored for a fetch: whether it     *)
(* failed, the data and the places of the errors of the provider's answer. *)

Failure       == [failed |-> TRUE, data |-> Null, errors |-> <<>>]
Missing       == [failed |-> FALSE, data |-> Null, errors |-> <<>>]
Refusal       == [failed |-> FALSE, data |-> Null, errors |-> << <<>> >>]
Answer(data)  == [failed |-> FALSE, data |-> data, errors |-> <<>>]

Error(what, path) == [what |-> what, path |-> path]

\* The fetch that serves the field directly, by its place in the response.
SourceOf(fetches, f) ==
    SelectInSeq(fetches, LAMBDA t : \E k \in DOMAIN t.consumers : t.consumers[k].path = f.path)

\* A value for the field; failed: it is a null its parent has to take over.
Complete(f, value, reported, path, errors) ==
    LET failed == value = Null /\ f.def.nonNull
    IN  [value |-> value, failed |-> failed,
         errors |-> IF failed /\ ~reported THEN Append(errors, Error("null", path)) ELSE errors]

\* errors are those reported so far; scope is the list item, if any, that the
\* field is read from.
RECURSIVE MergeField(_, _, _, _, _, _), MergeObject(_, _, _, _, _, _)

MergeObject(fetches, results, fields, scope, path, errors) ==
    LET Add(acc, f) ==
            LET m == MergeField(fetches, results, f, scope, path, acc.errors)
            IN  IF acc.failed THEN acc
                ELSE [value  |-> Object(acc.value.fields @@ (f.key :> m.value)),
                      failed |-> m.failed, errors |-> m.errors]
    IN  FoldLeft(Add, [value |-> Object(<<>>), failed |-> FALSE, errors |-> errors], fields)

MergeField(fetches, results, f, scope, parentPath, errors) ==
    LET path   == Append(parentPath, f.key)
        result == results[SourceOf(fetches, f)]
        raw    == IF scope # Absent
                  THEN ValueAt(scope.item, RelativePath(f.def.source.path, scope.declared))
                  ELSE ValueAt(result.data, f.def.source.path)
        object == MergeObject(fetches, results, f.sub, scope, path, errors)
        AddItem(acc, i) ==
            LET item     == raw.items[i]
                itemPath == Append(path, ToString(i - 1))
                m == MergeObject(fetches, results, f.sub,
                                 [item |-> item, declared |-> f.def.source.path], itemPath, acc.errors)
            IN  CASE acc.failed -> acc
                  [] ~acc.failed /\ item # Null ->
                        [items  |-> Append(acc.items, IF m.failed THEN Null ELSE m.value),
                         failed |-> m.failed /\ f.def.elemNonNull, errors |-> m.errors]
                  [] OTHER ->
                        [items  |-> Append(acc.items, Null), failed |-> f.def.elemNonNull,
                         errors |-> IF f.def.elemNonNull THEN Append(acc.errors, Error("null", itemPath))
                                    ELSE acc.errors]
        list == FoldLeftDomain(AddItem, [items |-> <<>>, failed |-> FALSE, errors |-> errors], raw.items)
    IN  CASE f.name = "__typename" ->
                [value |-> TypeName(f.parent), failed |-> FALSE, errors |-> errors]
          [] IsDirect(f) /\ scope = Absent /\ result.failed ->
                Complete(f, Null, TRUE, path, Append(errors, Error("provider", path)))
          [] IsDirect(f) /\ ~(scope = Absent /\ result.failed) ->
                IF ~IsItems(f) \/ raw = Null THEN Complete(f, raw, FALSE, path, errors)
                ELSE IF raw.kind # "list"
                THEN Complete(f, Null, TRUE, path, Append(errors, Error("provider", path)))
                ELSE Complete(f, IF list.failed THEN Null ELSE List(list.items),
                              list.failed, path, list.errors)
          [] f.name # "__typename" /\ ~IsDirect(f) ->
                IF f.sub = <<>> THEN Complete(f, Null, FALSE, path, errors)
                ELSE Complete(f, IF object.failed THEN Null ELSE object.value,
                              object.failed, path, object.errors)

PathsOverlap(p, q) == p # <<>> /\ q # <<>> /\ (IsPrefix(p, q) \/ IsPrefix(q, p))

\* The errors of the providers' answers, each placed at the first field its
\* fetch serves that its path concerns.
ProviderErrors(fetches, results) ==
    LET Placed(fetch, path) ==
            LET k == SelectInSeq(fetch.consumers, LAMBDA c : PathsOverlap(path, c.provider))
            IN  Error("provider", IF k = 0 THEN <<>> ELSE fetch.consumers[k].path)
        Of(i) == [e \in DOMAIN results[i].errors |-> Placed(fetches[i], results[i].errors[e])]
    IN  FlattenSeq([i \in DOMAIN fetches |-> IF results[i].failed THEN <<>> ELSE Of(i)])

Merge(fields, fetches, results) ==
    LET object == MergeObject(fetches, results, fields, Absent, <<>>, <<>>)
    IN  [data   |-> IF object.failed THEN Null ELSE object.value,
         errors |-> object.errors \o ProviderErrors(fetches, results)]

----------------------------------------------------------------------------
(* The reference.  lineage holds the field and its ancestors.              *)

\* The mapped arguments of the provider field, from the lineage alone.
DirectArguments(lineage) ==
    LET source == Last(lineage).def.source
        Carrier(m) == lineage[Len(m.source)]
        Applies(i) == LET m == Mappings[i]
                      IN  /\ m.schema = source.schema /\ IsPrefix(m.target, source.path)
                          /\ Len(m.source) \in DOMAIN lineage /\ Carrier(m).schemaPath = m.source
                          /\ m.arg \in DOMAIN Carrier(m).args
        Overridden(i) == \E j \in 1..(i - 1) : /\ Applies(j)
                                               /\ Mappings[j].target = Mappings[i].target
                                               /\ Mappings[j].name = Mappings[i].name
    IN  {[path |-> Mappings[i].target, name |-> Mappings[i].name,
          value |-> Carrier(Mappings[i]).args[Mappings[i].arg]] :
            i \in {j \in DOMAIN Mappings : Applies(j) /\ ~Overridden(j)}}

Bad == [kind |-> "bad"]  \* null where the schema allows none

\* The value of the last field of lineage when the providers hold replies.
RECURSIVE Direct(_, _, _, _)
Direct(fetches, replies, lineage, scope) ==
    LET f == Last(lineage)
        source == f.def.source
        fetch == FetchIndex(fetches, source.schema, DirectArguments(lineage))
        Read == IF scope # Absent
                THEN ValueAt(scope.item, RelativePath(source.path, scope.declared))
                ELSE IF fetch = 0 THEN Null ELSE ValueAt(replies[fetch], source.path)
        Fields(s) ==
            LET values == [i \in DOMAIN f.sub |->
                              Direct(fetches, replies, Append(lineage, f.sub[i]), s)]
                Value(key) == values[SelectInSeq(f.sub, LAMBDA g : g.key = key)]
            IN  IF \E i \in DOMAIN values : values[i] = Bad THEN Null
                ELSE Object([key \in {f.sub[i].key : i \in DOMAIN f.sub} |-> Value(key)])
        Items(raw) ==
            LET values == [i \in DOMAIN raw.items |->
                    IF raw.items[i] = Null THEN Null
                    ELSE Fields([item |-> raw.items[i], declared |-> source.path])]
            IN  IF f.def.elemNonNull /\ \E i \in DOMAIN values : values[i] = Null THEN Null
                ELSE List(values)
        value ==
            CASE f.name = "__typename" -> TypeName(f.parent)
              [] IsDirect(f) -> IF ~IsItems(f) THEN Read
                                ELSE IF Read.kind = "list" THEN Items(Read) ELSE Null
              [] f.name # "__typename" /\ ~IsDirect(f) ->
                    IF f.sub = <<>> THEN Null ELSE Fields(scope)
    IN  IF value = Null /\ f.def.nonNull THEN Bad ELSE value

DirectResponse(fields, fetches, replies) ==
    LET values == [i \in DOMAIN fields |-> Direct(fetches, replies, <<fields[i]>>, Absent)]
        Value(key) == values[SelectInSeq(fields, LAMBDA g : g.key = key)]
    IN  IF \E i \in DOMAIN values : values[i] = Bad THEN Null
        ELSE Object([key \in {fields[i].key : i \in DOMAIN fields} |-> Value(key)])

\* The shortest part of path at which the data is null; the path if there is
\* none.
NullPoint(data, path) ==
    LET nulls == {n \in 0..Len(path) : ValueAt(data, SubSeq(path, 1, n)) = Null}
    IN  IF nulls = {} THEN path
        ELSE SubSeq(path, 1, CHOOSE n \in nulls : \A k \in nulls : n <= k)

\* The null at path is accounted for: some error is at it, below or above it.
Explained(response, path) ==
    LET point == NullPoint(response.data, path)
    IN  /\ ValueAt(response.data, point) = Null
        /\ \E i \in DOMAIN response.errors :
              LET place == response.errors[i].path
              IN  place # <<>> /\ (IsPrefix(point, place) \/ IsPrefix(place, point))
=============================================================================
