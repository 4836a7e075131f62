-------------------------- MODULE FederatedResponse --------------------------
(***************************************************************************)
(* What the orchestration engine answers to one query that was let pass:   *)
(* FederateQuery step by step over the operators of QueryPlan and          *)
(* ResponseMerge.  The fetches end in any order, each with its data, with  *)
(* a part of it and an error, or with a failure.                           *)
(*                                                                         *)
(* FederatedRequest says when a query passes and which of its fetches are  *)
(* made.                                                                   *)
(***************************************************************************)
EXTENDS ResponseMerge

CONSTANTS
    Queries,     \* what a request may ask
    Document,    \* of each query, its document, variables and operation name
    Configured,  \* the schemas that have a provider
    Data(_, _)   \* what the provider of a schema holds for given arguments

VARIABLES
    query,     \* the query
    stage,     \* how far its answer is
    fields,    \* the normalised query
    fetches,   \* its plan: of each fetch the schema, the arguments, the paths
               \* it reads and the consumer fields it serves
    outcome,   \* of each fetch: "none" yet, "ok", "partial", "failed", or
               \* "lost" in the result map
    response   \* the response, or Absent

vars == <<query, stage, fields, fetches, outcome, response>>

Init ==
    /\ query \in Queries
    /\ stage = "parsed"
    /\ fields = <<>> /\ fetches = <<>> /\ outcome = <<>>
    /\ response = Absent

Refuse == stage' = "refused" /\ UNCHANGED <<query, fields, fetches, outcome, response>>

\* operation.Build, and the owner whose consent may have to be asked.
Normalise ==
    LET normal == Build(Document[query])
        owner  == IF normal = Absent THEN Absent ELSE DataOwnerID(normal)
    IN  /\ stage = "parsed"
        /\ IF owner = Absent THEN Refuse
           ELSE /\ stage' = "normalised" /\ fields' = normal
                /\ UNCHANGED <<query, fetches, outcome, response>>

MakePlan ==
    LET plan == BuildPlan(fields)
    IN  /\ stage = "normalised"
        /\ IF plan = Absent THEN Refuse
           ELSE /\ stage' = "planned" /\ fetches' = plan
                /\ outcome' = [i \in DOMAIN plan |-> "none"]
                /\ UNCHANGED <<query, fields, response>>

HasProvider(i) == fetches[i].schema \in Configured

\* A fetch ends; one without a provider has failed.
End(i, o) ==
    /\ stage = "planned" /\ outcome[i] = "none"
    /\ o = "failed" \/ HasProvider(i)
    /\ outcome' = [outcome EXCEPT ![i] = o]
    /\ UNCHANGED <<query, stage, fields, fetches, response>>

\* The goroutine of fetch i and the launching loop, which comes to j, write
\* the result map at once: the loop does not take the lock.
Overlap(i, j) == i < j /\ HasProvider(i) /\ ~HasProvider(j)

\* Of two writes at once one may be lost.
Lose(i) ==
    /\ stage = "planned" /\ outcome[i] = "none"
    /\ \E j \in DOMAIN fetches : Overlap(i, j) \/ Overlap(j, i)
    /\ outcome' = [outcome EXCEPT ![i] = "lost"]
    /\ UNCHANGED <<query, stage, fields, fetches, response>>

----------------------------------------------------------------------------
(* The results of the fetches.                                             *)

DataFor(fetch)   == Data(fetch.schema, fetch.args)
PathsOf(fetch)   == ToSet(fetch.fields)
FirstRoot(fetch) == Head(fetch.fields[1])

\* The provider answers with null, and an error, for a root field.
PartialAnswer(fetch) ==
    [failed |-> FALSE,
     data   |-> Requested(DataFor(fetch), {p \in PathsOf(fetch) : Head(p) # FirstRoot(fetch)}),
     errors |-> << <<FirstRoot(fetch)>> >>]

\* What the map holds for a fetch.
ResultOf(fetch, o) ==
    CASE o = "lost"   -> Missing
      [] o = "failed" -> Failure
      [] o \notin {"lost", "failed"} ->
            IF Refuses(DataFor(fetch), PathsOf(fetch)) THEN Refusal
            ELSE IF o = "partial" THEN PartialAnswer(fetch)
            ELSE Answer(Requested(DataFor(fetch), PathsOf(fetch)))

Respond ==
    /\ stage = "planned"
    /\ \A i \in DOMAIN outcome : outcome[i] # "none"
    /\ stage' = "done"
    /\ response' = Merge(fields, fetches, [i \in DOMAIN fetches |-> ResultOf(fetches[i], outcome[i])])
    /\ UNCHANGED <<query, fields, fetches, outcome>>

Next ==
    \/ Normalise \/ MakePlan \/ Respond
    \/ \E i \in DOMAIN outcome :
          \/ \E o \in {"ok", "partial", "failed"} : End(i, o)
          \/ Lose(i)

Spec == Init /\ [][Next]_vars

----------------------------------------------------------------------------
(* Properties.                                                             *)

\* Whole data of the fetches that answered, null for the others.
Reply(fetch, o) ==
    LET whole  == DataFor(fetch).fields
        result == ResultOf(fetch, o)
    IN  CASE result.data = Null -> Null
          [] result.data # Null /\ o = "partial" ->
                Object([n \in DOMAIN whole \ {FirstRoot(fetch)} |-> whole[n]])
          [] OTHER -> Object(whole)

DirectData ==
    DirectResponse(fields, fetches, [i \in DOMAIN fetches |-> Reply(fetches[i], outcome[i])])

\* The places in the response of the fields that failed fetches serve.
FailedPaths ==
    UNION {{fetches[i].consumers[k].path : k \in DOMAIN fetches[i].consumers} :
           i \in {j \in DOMAIN fetches : outcome[j] = "failed" \/ ~HasProvider(j)}}

Reported == \A path \in FailedPaths : Explained(response, path)

\* The leaves of data.
RECURSIVE Leaves(_)
Leaves(data) ==
    CASE data.kind = "leaf"   -> {data.value}
      [] data.kind = "object" -> UNION {Leaves(data.fields[n]) : n \in DOMAIN data.fields}
      [] data.kind = "list"   -> UNION {Leaves(data.items[i]) : i \in DOMAIN data.items}
      [] OTHER -> {}

\* merge.go: "A field served by a failed fetch is null with an error at its
\* path, and a null in a non-null field propagates to the nearest nullable
\* ancestor": each field of a failed fetch is null in the response, itself or
\* with an ancestor, and an error at that place says so.
FailuresReported == stage = "done" => Reported

\* The planner shares fetches among fields, trims the requests to what they
\* read, and the merge finds the values again by response keys, aliases, list
\* scopes and argument bindings: the response holds, for every field, what the
\* field's own provider has for the field's own arguments, and accounts for
\* what failed; unless results were lost in the map.
ResponseIsDirect ==
    stage = "done" /\ (\A i \in DOMAIN outcome : outcome[i] # "lost") =>
        /\ response.data = DirectData
        /\ Reported

\* Whatever a response holds is about the one owner whose consent the engine
\* asks, and is a provider field of some fetch of the plan, which is what the
\* permission and the consent are asked for.  With ReleasedWithinRequest of
\* FederatedRequest: the consumer sees only what was granted and agreed to.
OnlyPlannedData ==
    stage = "done" =>
        \A leaf \in Leaves(response.data) :
            /\ {leaf.about} = {fields[i].args[OwnerArg] : i \in {j \in DOMAIN fields :
                                   OwnerArg \in DOMAIN fields[j].args /\ fields[j].args[OwnerArg] # ""}}
            /\ leaf.key \in UNION {RequiredFields(fetches[i]) : i \in DOMAIN fetches}
=============================================================================
