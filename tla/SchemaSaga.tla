---------------------------- MODULE SchemaSaga ----------------------------
(***************************************************************************)
(* The Portal Backend's schemas and schema submissions                     *)
(* (internal/pb/schema).  A schema is a row of the database and, in the    *)
(* Policy Decision Point, one policy metadata record for each field it     *)
(* declares; the two share no transaction.  CreateSchema inserts the row,  *)
(* sends the records, and deletes the row when they are refused.           *)
(*                                                                         *)
(* A schema belongs to a member.  Every handler looks the row up and asks  *)
(* whether its caller may act for that member, then works on the row in    *)
(* further calls.  The id of a schema may be chosen by its creator, so the *)
(* id of a schema that was deleted may come back as another member's.      *)
(*                                                                         *)
(* A call is done, refused (nothing happened) or lost (an error, although  *)
(* it took effect).  Records sent to the PDP may also be late: the client  *)
(* has given up after its timeout, and the PDP stores them at some moment  *)
(* after that, or never.  The process may crash between two calls.         *)
(***************************************************************************)
EXTENDS FiniteSets, Naturals

CONSTANTS
    Requests,    \* slots for HTTP requests in flight
    Schemas,     \* bound: the schema ids there are
    Chosen,      \* those a creator may ask for; the others are drawn at random
    Submissions, \* bound: submission ids that may be drawn
    Members,     \* the members, each with users of its own
    Operator,    \* a caller that holds the -all scopes and belongs to no member
    Fields,      \* schema fields
    Garbled,     \* stands for the text of an SDL that does not parse
    Sdls,        \* the SDLs, or lists of records, that requests send
    Faults,      \* the kinds of fault that happen
    MaxFaults,   \* bound: how many faults happen
    MaxStarted,  \* bound: how many requests are started
    Nil          \* SQL NULL, no row

VARIABLES
    schemas,     \* the table: the row of each schema, or Nil
    submissions, \* the table: the row of each submission, or Nil
    metadata,    \* the PDP: the fields it holds a record for, of each schema
    late,        \* records on their way to the PDP that nobody waits for
    task,        \* what each request is doing
    drawn,       \* the random ids that have been used
    outlived,    \* history: requests whose schema was deleted after they looked it up
    confirmed,   \* history: the creation of each schema that was reported, or Nil
    mishaps,     \* history: what happened to each schema that may leave it out of step
    strained,    \* history: submissions with a crash, a failed or an overlapping review
    faults,      \* how many faults have happened
    started      \* how many requests have been started

vars == <<schemas, submissions, metadata, late, task, drawn, outlived,
          confirmed, mishaps, strained, faults, started>>

Callers == Members \cup {Operator}

\* An SDL is told apart by the fields it has records for.
Invalid       == {Garbled}
Sdl           == {Invalid} \cup SUBSET Fields
Row           == [member: Members, fields: Sdl]
\* Only "approved" is told apart from other texts.
Statuses      == {"pending", "approved"}
SubmissionRow == [member: Members, fields: Sdl, status: Statuses,
                  previous: Schemas \cup {Nil}]
Confirmation  == [member: Members, submission: Submissions \cup {Nil}]

Creating == {"insert", "sync", "delete row"}
Updating == {"load", "save row"}
Altering == {"list", "alter record"}
Steps    == Creating \cup Updating \cup Altering \cup {"save submission", "reopen"}

\* caller, sdl and record are those of a request about a schema that exists.
Task     == [at: Steps \cup {"idle"}, caller: Callers \cup {Nil},
             schema: Schemas \cup {Nil}, sub: Submissions \cup {Nil},
             draft: Row \cup SubmissionRow \cup {Nil},
             sdl: {Nil} \cup Sdl, record: Fields \cup {Nil}]
IdleTask == [at |-> "idle", caller |-> Nil, schema |-> Nil, sub |-> Nil,
             draft |-> Nil, sdl |-> Nil, record |-> Nil]

FaultKinds == {"refused", "lost", "late", "crash"}

\* What may leave a row behind, and what may put the PDP out of step with it.
KeepsRow == {<<"insert", "lost">>, <<"delete row", "refused">>,
             <<"row", "saved again">>, <<"process", "crash">>}
OutOfStep == {<<"sync", "late">>, <<"row", "new SDL">>, <<"record", "deleted">>}
Mishap    == KeepsRow \cup OutOfStep \cup {<<"row", "changed hands">>}

ASSUME ConstantsAssumption ==
    /\ Chosen \subseteq Schemas
    /\ Sdls \subseteq Sdl
    /\ Faults \subseteq FaultKinds
    /\ MaxFaults \in Nat
    /\ MaxStarted \in Nat
    /\ Garbled \notin Fields
    /\ Operator \notin Members
    /\ Nil \notin Schemas
    /\ Nil \notin Submissions
    /\ Nil \notin Callers
    /\ Nil \notin Row \cup SubmissionRow \cup Confirmation
    /\ Nil \notin Fields

TypeOK ==
    /\ schemas \in [Schemas -> Row \cup {Nil}]
    /\ submissions \in [Submissions -> SubmissionRow \cup {Nil}]
    /\ metadata \in [Schemas -> SUBSET Fields]
    /\ late \subseteq Schemas \X SUBSET Fields
    /\ task \in [Requests -> Task]
    /\ drawn \subseteq Schemas
    /\ outlived \subseteq Requests
    /\ confirmed \in [Schemas -> Confirmation \cup {Nil}]
    /\ mishaps \in [Schemas -> SUBSET Mishap]
    /\ strained \subseteq Submissions
    /\ faults \in Nat
    /\ started \in Nat

Init ==
    /\ schemas = [x \in Schemas |-> Nil]
    /\ submissions = [s \in Submissions |-> Nil]
    /\ metadata = [x \in Schemas |-> {}]
    /\ late = {}
    /\ task = [r \in Requests |-> IdleTask]
    /\ drawn = {}
    /\ outlived = {}
    /\ confirmed = [x \in Schemas |-> Nil]
    /\ mishaps = [x \in Schemas |-> {}]
    /\ strained = {}
    /\ faults = 0
    /\ started = 0

-----------------------------------------------------------------------------
(* Calls, and who may make them.                                           *)

Endings == {"done", "refused", "lost", "late"}

\* A call ends with result; what the other side cannot do it refuses.
Ends(possible, result) ==
    \/ result = "done" /\ possible /\ UNCHANGED faults
    \/ result = "refused" /\ ~ possible /\ UNCHANGED faults
    \/ /\ result \in Faults \ {"done"}
       /\ possible
       /\ faults < MaxFaults
       /\ faults' = faults + 1

TookEffect(result) == result \in {"done", "lost"}

Recorded(x, what) == mishaps' = [mishaps EXCEPT ![x] = @ \cup (what \cap Mishap)]

\* One more request of the few there are.
Starts == started < MaxStarted /\ started' = started + 1

GoTo(r, step) ==
    /\ task' = [task EXCEPT ![r].at = step]
    /\ UNCHANGED outlived

Answer(r) ==
    /\ task' = [task EXCEPT ![r] = IdleTask]
    /\ outlived' = outlived \ {r}

\* caller.CanAccess: an -all scope, or the caller's own member.
CanAccess(caller, member) == caller \in {Operator, member}

\* The members a caller may create schemas and submissions for.
MayOwn(caller) == {m \in Members : CanAccess(caller, m)}

Existing == {x \in Schemas : schemas[x] # Nil}

\* The database draws an id that has never been used.
Draws(x) ==
    /\ x \notin Chosen \cup drawn
    /\ drawn' = drawn \cup {x}

-----------------------------------------------------------------------------
(* CreateSchema.                                                           *)

CreateSchema(r) ==
    /\ task[r].at = "idle"
    /\ Starts
    /\ \E caller \in Callers, x \in Schemas, fields \in Sdls :
       \E member \in MayOwn(caller) :
          /\ (x \in Chosen /\ UNCHANGED drawn) \/ Draws(x)
          /\ task' = [task EXCEPT ![r] = [IdleTask EXCEPT !.at = "insert",
                !.schema = x, !.draft = [member |-> member, fields |-> fields]]]
    /\ UNCHANGED <<schemas, submissions, metadata, late, outlived, confirmed,
                   mishaps, strained, faults>>

\* The creation fails, for the caller or for the review it belongs to.
FailCreation(r) ==
    IF task[r].sub = Nil THEN Answer(r) ELSE GoTo(r, "reopen")

\* Mutant of InsertSchema: an insert that fails is undone like one that did not.
InsertOrUndo(r) ==
    LET x == task[r].schema
        draft == task[r].draft IN
    /\ task[r].at = "insert"
    /\ \E result \in Endings \ {"late"} :
          /\ Ends(schemas[x] = Nil, result)
          /\ Recorded(x, {<<"insert", result>>})
          /\ schemas' = IF ~ TookEffect(result) THEN schemas
                ELSE [schemas EXCEPT ![x] = [member |-> draft.member, fields |-> draft.fields]]
          /\ GoTo(r, IF result = "done" THEN "sync" ELSE "delete row")
    /\ UNCHANGED <<submissions, metadata, late, drawn, confirmed, strained, started>>

\* The row, before the SDL has been looked at.  An id that is taken is refused.
InsertSchema(r) ==
    LET x == task[r].schema
        draft == task[r].draft IN
    /\ task[r].at = "insert"
    /\ \E result \in Endings \ {"late"} :
          /\ Ends(schemas[x] = Nil, result)
          /\ Recorded(x, {<<"insert", result>>})
          /\ schemas' = IF ~ TookEffect(result) THEN schemas
                ELSE [schemas EXCEPT ![x] = [member |-> draft.member, fields |-> draft.fields]]
          /\ IF result = "done" THEN GoTo(r, "sync") ELSE FailCreation(r)
    /\ UNCHANGED <<submissions, metadata, late, drawn, confirmed, strained, started>>

\* A record that is removed takes its id with it: the requests that hold the
\* id are left with nothing, also when the field comes back.
Removed(x, fields) ==
    [q \in Requests |->
        IF task[q].at = "alter record" /\ task[q].schema = x /\ task[q].record \in fields
        THEN [task[q] EXCEPT !.record = Nil] ELSE task[q]]

\* The PDP replaces what it holds for x; records of omitted fields are removed.
Stores(x, fields) ==
    /\ metadata' = [metadata EXCEPT ![x] = fields]
    /\ task' = Removed(x, metadata[x] \ fields)

\* Mutant of SyncMetadata: the creation succeeds whatever the PDP says.
SyncUnchecked(r) ==
    LET x == task[r].schema
        draft == task[r].draft IN
    /\ task[r].at = "sync"
    /\ \E result \in {"done", "refused"} :
          /\ Ends(draft.fields # Invalid, result)
          /\ metadata' = IF result = "done"
                         THEN [metadata EXCEPT ![x] = draft.fields] ELSE metadata
    /\ confirmed' = [confirmed EXCEPT ![x] =
                        [member |-> draft.member, submission |-> task[r].sub]]
    /\ Answer(r)
    /\ UNCHANGED <<schemas, submissions, late, drawn, mishaps, strained, started>>

\* Mutant of SyncMetadata: the client takes the PDP's 201 for an error.
SyncExpectingOK(r) ==
    LET x == task[r].schema
        draft == task[r].draft IN
    /\ task[r].at = "sync"
    /\ \E result \in {"done", "refused"} :
          /\ Ends(draft.fields # Invalid, result)
          /\ metadata' = IF result = "done"
                         THEN [metadata EXCEPT ![x] = draft.fields] ELSE metadata
    /\ GoTo(r, "delete row")
    /\ UNCHANGED <<schemas, submissions, late, drawn, confirmed, mishaps, strained, started>>

\* CreatePolicyMetadata: an SDL that does not parse is never sent.
SyncMetadata(r) ==
    LET x == task[r].schema
        draft == task[r].draft IN
    /\ task[r].at = "sync"
    /\ \E result \in Endings \ {"lost"} :
          /\ Ends(draft.fields # Invalid, result)
          /\ IF result = "done"
             THEN /\ metadata' = [metadata EXCEPT ![x] = draft.fields]
                  /\ task' = [Removed(x, metadata[x] \ draft.fields) EXCEPT ![r] = IdleTask]
                  /\ outlived' = outlived \ {r}
                  /\ confirmed' = [confirmed EXCEPT ![x] =
                        [member |-> draft.member, submission |-> task[r].sub]]
             ELSE GoTo(r, "delete row") /\ UNCHANGED <<metadata, confirmed>>
          /\ late' = IF result = "late" THEN late \cup {<<x, draft.fields>>} ELSE late
          /\ Recorded(x, {<<"sync", result>>})
    /\ UNCHANGED <<schemas, submissions, drawn, strained, started>>

\* The PDP stores records that nobody waits for any more.
LateSync ==
    /\ \E call \in late :
          /\ late' = late \ {call}
          /\ Stores(call[1], call[2])
    /\ UNCHANGED <<schemas, submissions, drawn, outlived, confirmed, mishaps,
                   strained, faults, started>>

\* A foreign key keeps a schema that a submission names as its previous one.
Referenced(x) ==
    \E s \in Submissions : submissions[s] # Nil /\ submissions[s].previous = x

\* Mutant of DeleteSchema: the row of a failed creation is kept.
KeepSchema(r) ==
    /\ task[r].at = "delete row"
    /\ FailCreation(r)
    /\ UNCHANGED <<schemas, submissions, metadata, late, drawn, confirmed,
                   mishaps, strained, faults, started>>

\* The delete that undoes the insert.
DeleteSchema(r) ==
    LET x == task[r].schema IN
    /\ task[r].at = "delete row"
    /\ \E result \in Endings \ {"late"} :
          /\ Ends(~ Referenced(x), result)
          /\ Recorded(x, {<<"delete row", result>>})
          /\ schemas' = IF TookEffect(result) THEN [schemas EXCEPT ![x] = Nil] ELSE schemas
          /\ outlived' = IF ~ TookEffect(result) THEN outlived
                ELSE outlived \cup {q \in Requests :
                        task[q].schema = x /\ task[q].at \in Updating \cup Altering}
    /\ task' = [task EXCEPT ![r] = IF task[r].sub = Nil THEN IdleTask
                                   ELSE [@ EXCEPT !.at = "reopen"]]
    /\ UNCHANGED <<submissions, metadata, late, drawn, confirmed, strained, started>>

-----------------------------------------------------------------------------
(* Operations on a schema that exists.                                     *)

\* Mutant of Authorize: the row is looked up, and nobody asks whose it is.
AuthorizeAnyone(r, step, sdl, record) ==
    \E caller \in Callers, x \in Existing :
       task' = [task EXCEPT ![r] = [IdleTask EXCEPT !.at = step,
          !.caller = caller, !.schema = x, !.sdl = sdl, !.record = record]]

\* The handler looks the row up and asks whether the caller may act on it.
Authorize(r, step, sdl, record) ==
    \E caller \in Callers, x \in Existing :
       /\ CanAccess(caller, schemas[x].member)
       /\ task' = [task EXCEPT ![r] = [IdleTask EXCEPT !.at = step,
             !.caller = caller, !.schema = x, !.sdl = sdl, !.record = record]]

\* PUT /schemas/{id}; Nil is an SDL the request leaves as it is.
UpdateSchema(r) ==
    /\ task[r].at = "idle"
    /\ Starts
    /\ \E sdl \in Sdls \cup {Nil} : Authorize(r, "load", sdl, Nil)
    /\ UNCHANGED <<schemas, submissions, metadata, late, drawn, outlived,
                   confirmed, mishaps, strained, faults>>

\* A request changes only what it names.
Updated(old, asked) == IF asked = Nil THEN old ELSE asked

\* The service loads the row again, without asking whose it is.
LoadSchema(r) ==
    LET x == task[r].schema IN
    /\ task[r].at = "load"
    /\ IF schemas[x] = Nil THEN Answer(r)
       ELSE /\ task' = [task EXCEPT ![r].at = "save row", ![r].draft =
                  [schemas[x] EXCEPT !.fields = Updated(@, task[r].sdl)]]
            /\ UNCHANGED outlived
    /\ UNCHANGED <<schemas, submissions, metadata, late, drawn, confirmed,
                   mishaps, strained, faults, started>>

\* What becomes of a row that a save replaces.
SavedOver(old, new) ==
    IF old = Nil THEN {<<"row", "saved again">>}
    ELSE {w \in {<<"row", "new SDL">>} : old.fields # new.fields} \cup
         {w \in {<<"row", "changed hands">>} : old.member # new.member}

\* gorm's Save writes every column, and inserts the row if there is none.  The
\* PDP is not told of the new SDL.
SaveSchema(r) ==
    LET x == task[r].schema
        draft == task[r].draft IN
    /\ task[r].at = "save row"
    /\ \E result \in Endings \ {"late"} :
          /\ Ends(TRUE, result)
          /\ schemas' = IF TookEffect(result) THEN [schemas EXCEPT ![x] = draft] ELSE schemas
          /\ Recorded(x, IF TookEffect(result) THEN SavedOver(schemas[x], draft) ELSE {})
    /\ Answer(r)
    /\ UNCHANGED <<submissions, metadata, late, drawn, confirmed, strained, started>>

\* PATCH and DELETE of a record, and DELETE of an entry of its allow-list.
AlterRecord(r) ==
    /\ task[r].at = "idle"
    /\ Starts
    /\ \E f \in Fields : Authorize(r, "list", Nil, f)
    /\ UNCHANGED <<schemas, submissions, metadata, late, drawn, outlived,
                   confirmed, mishaps, strained, faults>>

\* ensurePolicyMetadataInSchema: the record must be one of this schema's.
ListMetadata(r) ==
    LET x == task[r].schema IN
    /\ task[r].at = "list"
    /\ \E result \in {"done", "refused"} :
          /\ Ends(task[r].record \in metadata[x], result)
          /\ IF result = "done" THEN GoTo(r, "alter record") ELSE Answer(r)
    /\ UNCHANGED <<schemas, submissions, metadata, late, drawn, confirmed,
                   mishaps, strained, started>>

\* The call to the PDP, by the record's id.  A patch and a revocation change
\* nothing of what is told apart here.
CallMetadata(r) ==
    LET x == task[r].schema
        f == task[r].record IN
    /\ task[r].at = "alter record"
    /\ \E result \in Endings \ {"late"}, deletes \in BOOLEAN :
          /\ Ends(f # Nil, result)
          /\ IF deletes /\ TookEffect(result)
             THEN /\ metadata' = [metadata EXCEPT ![x] = @ \ {f}]
                  /\ task' = [Removed(x, {f}) EXCEPT ![r] = IdleTask]
                  /\ Recorded(x, {<<"record", "deleted">>})
             ELSE /\ task' = [task EXCEPT ![r] = IdleTask]
                  /\ UNCHANGED <<metadata, mishaps>>
    /\ outlived' = outlived \ {r}
    /\ UNCHANGED <<schemas, submissions, late, drawn, confirmed, strained, started>>

-----------------------------------------------------------------------------
(* Submissions.                                                            *)

\* The previous schema is looked up, and the foreign key asks again.
CreateSchemaSubmission ==
    /\ Starts
    /\ \E caller \in Callers, s \in Submissions, fields \in Sdls,
          previous \in Existing \cup {Nil} :
       \E member \in MayOwn(caller) :
          /\ submissions[s] = Nil
          /\ submissions' = [submissions EXCEPT ![s] = [member |-> member,
                fields |-> fields, status |-> "pending", previous |-> previous]]
    /\ UNCHANGED <<schemas, metadata, late, task, drawn, outlived, confirmed,
                   mishaps, strained, faults>>

\* The owner check, the load and the changes to the copy.  An approval is to
\* create a schema with an id of its own.
UpdateSchemaSubmission(r) ==
    /\ task[r].at = "idle"
    /\ Starts
    /\ \E caller \in Callers, s \in Submissions, status \in Statuses \cup {Nil},
          fields \in Sdls \cup {Nil}, previous \in Existing \cup {Nil},
          x \in Schemas \cup {Nil} :
          LET loaded == submissions[s]
              draft  == [loaded EXCEPT !.status   = Updated(@, status),
                                       !.fields   = Updated(@, fields),
                                       !.previous = Updated(@, previous)]
          IN
          /\ loaded # Nil
          /\ CanAccess(caller, loaded.member)
          /\ IF status = "approved" THEN x # Nil /\ Draws(x) ELSE x = Nil /\ UNCHANGED drawn
          /\ task' = [task EXCEPT ![r] = [IdleTask EXCEPT !.at = "save submission",
                !.schema = x, !.sub = s, !.draft = draft]]
          /\ strained' = IF \E q \in Requests : task[q].sub = s
                         THEN strained \cup {s} ELSE strained
    /\ UNCHANGED <<schemas, submissions, metadata, late, outlived, confirmed,
                   mishaps, faults>>

Storable(draft) == draft.previous \in Existing \cup {Nil}

\* The save, and then the creation when the request approves.
SaveSubmission(r) ==
    LET s == task[r].sub IN
    /\ task[r].at = "save submission"
    /\ \E result \in Endings \ {"late"} :
          /\ Ends(Storable(task[r].draft), result)
          /\ submissions' = IF TookEffect(result)
                THEN [submissions EXCEPT ![s] = task[r].draft] ELSE submissions
          /\ strained' = IF result = "lost" THEN strained \cup {s} ELSE strained
          /\ IF result = "done" /\ task[r].schema # Nil THEN GoTo(r, "insert") ELSE Answer(r)
    /\ UNCHANGED <<schemas, metadata, late, drawn, confirmed, mishaps, started>>

\* Mutant of ReopenSubmission: the review fails, and the row stays approved.
LeaveApproved(r) ==
    /\ task[r].at = "reopen"
    /\ Answer(r)
    /\ UNCHANGED <<schemas, submissions, metadata, late, drawn, confirmed,
                   mishaps, strained, faults, started>>

\* The creation failed: the copy is saved again, as pending.
ReopenSubmission(r) ==
    LET s == task[r].sub
        draft == task[r].draft IN
    /\ task[r].at = "reopen"
    /\ \E result \in Endings \ {"late"} :
          /\ Ends(Storable(draft), result)
          /\ submissions' = IF ~ TookEffect(result) THEN submissions
                ELSE [submissions EXCEPT ![s] = [draft EXCEPT !.status = "pending"]]
          /\ strained' = IF TookEffect(result) THEN strained ELSE strained \cup {s}
    /\ Answer(r)
    /\ UNCHANGED <<schemas, metadata, late, drawn, confirmed, mishaps, started>>

-----------------------------------------------------------------------------

\* The process stops and starts; the PDP and what is on its way there does not.
Crash ==
    /\ "crash" \in Faults
    /\ faults < MaxFaults
    /\ faults' = faults + 1
    /\ \E r \in Requests : task[r].at # "idle"
    /\ task' = [r \in Requests |-> IdleTask]
    /\ outlived' = {}
    /\ mishaps' = [x \in Schemas |-> mishaps[x] \cup
          {w \in {<<"process", "crash">>} : \E r \in Requests : task[r].schema = x}]
    /\ strained' = strained \cup {s \in Submissions : \E r \in Requests : task[r].sub = s}
    /\ UNCHANGED <<schemas, submissions, metadata, late, drawn, confirmed, started>>

Next ==
    \/ \E r \in Requests :
          \/ CreateSchema(r)
          \/ InsertSchema(r)
          \/ SyncMetadata(r)
          \/ DeleteSchema(r)
          \/ UpdateSchema(r)
          \/ LoadSchema(r)
          \/ SaveSchema(r)
          \/ AlterRecord(r)
          \/ ListMetadata(r)
          \/ CallMetadata(r)
          \/ UpdateSchemaSubmission(r)
          \/ SaveSubmission(r)
          \/ ReopenSubmission(r)
    \/ LateSync
    \/ CreateSchemaSubmission
    \/ Crash

Spec == Init /\ [][Next]_vars

-----------------------------------------------------------------------------
(* Properties.                                                             *)

\* A request is at work on the creation of schema x.
InCreation(x) == \E r \in Requests : task[r].schema = x /\ task[r].at \in Creating

\* A schema whose creation was reported as successful keeps its row, whatever
\* failed creations of the same id undo, and the PDP holds exactly the fields
\* the row declares.  It is out of step only after an update of the SDL, after
\* a record was deleted, and after a sync that was given up arrived late
\* (CreateSchema, service.go:79-107; UpdateSchema, service.go:141-151).
ConfirmedInStep ==
    \A x \in Schemas : confirmed[x] # Nil =>
       /\ schemas[x] # Nil
       /\ \/ metadata[x] = schemas[x].fields
          \/ mishaps[x] \cap OutOfStep # {}

\* The row of a creation that failed stays behind only if the insert was never
\* answered, the delete failed or was refused by the foreign key, an update
\* saved the row again, or the process crashed (service.go:94-106).
NoStraySchema ==
    \A x \in Schemas :
       \/ schemas[x] = Nil
       \/ confirmed[x] # Nil
       \/ InCreation(x)
       \/ mishaps[x] \cap KeepsRow # {}

\* The PDP holds records of a schema that has no row only if they arrived after
\* the client had given up on them (service.go:87-107, client.go:74-77).
NoStrayMetadata ==
    \A x \in Schemas :
       \/ metadata[x] = {}
       \/ schemas[x] # Nil
       \/ <<"sync", "late">> \in mishaps[x]

\* A creation that failed is undone in both systems, but for the causes above.
NothingStray == NoStraySchema /\ NoStrayMetadata

\* A submission that stands approved has led to a schema, except while its
\* review is at work, after a crash or a failed save of its status, and after
\* reviews that overlapped (UpdateSchemaSubmission, service.go:381-409).
ApprovedHasSchema ==
    \A s \in Submissions \ strained :
       \/ submissions[s] = Nil
       \/ submissions[s].status # "approved"
       \/ \E r \in Requests : task[r].sub = s
       \/ \E x \in Schemas : confirmed[x] # Nil /\ confirmed[x].submission = s

\* Request r acts for member m: by its caller, or as the creation of m's schema.
ActsFor(r, m) ==
    IF task[r].caller = Nil THEN task[r].draft.member = m
    ELSE CanAccess(task[r].caller, m)

\* The row and the records of a schema are changed only for the member that it
\* belongs to.  The owner is asked for once, at the start: when the row was
\* deleted since, the change may hit another member's schema of the same id and
\* even make it change hands; and nobody checks the sync that arrives late
\* (handler.go:234-289, service.go:127-151 and 267-280).
ChangedForOwner ==
    [][\A x \in Existing :
          \/ schemas'[x] = schemas[x] /\ metadata'[x] = metadata[x]
          \/ late' # late
          \/ <<"row", "changed hands">> \in mishaps[x]
          \/ \E r \in Requests :
                /\ task[r].schema = x
                /\ task'[r].at # task[r].at
                /\ (ActsFor(r, schemas[x].member) \/ r \in outlived)]_vars

-----------------------------------------------------------------------------
(* The creations as Creation has them.                                     *)

Parts == {"row", "records"}

\* A creation of x is at work, or the review that will start it.
Underway(x) ==
    \E r \in Requests : /\ task[r].schema = x
                       /\ task[r].at \in Creating \cup {"save submission"}

PhaseOf(x) ==
    CASE confirmed[x] # Nil -> "complete"
      [] confirmed[x] = Nil /\ Underway(x) -> "underway"
      [] confirmed[x] = Nil /\ ~ Underway(x) ->
            IF x \in drawn THEN "closed" ELSE "open"

\* Of a creation that succeeded, the parts that are as they were asked for.
AsAsked(x) ==
    LET has == [row     |-> schemas[x] # Nil /\ schemas[x].member = confirmed[x].member,
                records |-> schemas[x] # Nil /\ metadata[x] = schemas[x].fields]
    IN {p \in Parts : has[p]}

\* Of any other, the parts there is anything of.
Found(x) ==
    LET has == [row |-> schemas[x] # Nil, records |-> metadata[x] # {}]
    IN {p \in Parts : has[p]}

\* The parts that a mishap may have left behind, and those it may have changed.
MayStay(x) ==
    LET keeps == [row |-> KeepsRow, records |-> {<<"sync", "late">>}]
    IN {p \in Parts : mishaps[x] \cap keeps[p] # {}}
MayDrift(x) ==
    LET changes == [row |-> {<<"row", "changed hands">>}, records |-> OutOfStep]
    IN {p \in Parts : mishaps[x] \cap changes[p] # {}}

AllOrNothing ==
    INSTANCE Creation WITH
        Ids       <- Schemas,
        Reusable  <- Chosen,
        Returning <- {"row", "records"},
        phase     <- [x \in Schemas |-> PhaseOf(x)],
        there     <- [x \in Schemas |->
                        IF confirmed[x] # Nil THEN AsAsked(x) ELSE Found(x)],
        mayStay   <- [x \in Schemas |-> MayStay(x)],
        mayDrift  <- [x \in Schemas |-> MayDrift(x)]

\* Every creation of a schema is all or nothing, and one whose id was drawn at
\* random ends once.  A schema that was created is never taken back, whatever
\* creations that chose the same id undo (CreateSchema and UpdateSchema,
\* service.go:53-159, and the approval, service.go:381-409).
ImplementsCreation == AllOrNothing!Spec

=============================================================================
