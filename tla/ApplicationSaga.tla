-------------------------- MODULE ApplicationSaga --------------------------
(***************************************************************************)
(* The Portal Backend's applications and application submissions           *)
(* (internal/pb/application/service.go).  Creating an application writes   *)
(* to three systems that share no transaction: an account and its role in  *)
(* the identity provider (internal/pb/idp/thunderid/client.go), a row in   *)
(* the database, and grants in the Policy Decision Point, reached through  *)
(* internal/pb/policy/client.go.  When a later step fails the service      *)
(* undoes the earlier ones.                                                *)
(*                                                                         *)
(* Every step is one call to one of the systems.  A call is done, refused  *)
(* (an error, and nothing happened) or lost (an error, although it took    *)
(* effect: a timeout or a broken connection).  Most calls carry the        *)
(* context of the HTTP request; once the caller has hung up they are       *)
(* refused before they are sent.  The process may crash between any two    *)
(* calls; nothing is resumed after a restart.                              *)
(***************************************************************************)
EXTENDS FiniteSets, Naturals

CONSTANTS
    Requests,     \* slots for HTTP requests in flight
    Applications, \* bound: application ids that may be drawn
    Submissions,  \* bound: submission ids that may be drawn
    Provisioned,  \* accounts that were created in the identity provider by hand
    Fields,       \* schema fields
    FieldLists,   \* the selected fields that creations and submissions ask for
    PolicyLists,  \* the selected fields that policy updates ask for
    AssignsRole,  \* whether a data-consumer role is configured
    Faults,       \* the kinds of fault that happen
    MaxFaults,    \* bound: how many faults happen
    Nil           \* SQL NULL, no row

VARIABLES
    accounts,     \* the accounts in the identity provider
    assigned,     \* those with the data-consumer role
    granted,      \* the fields the PDP has granted to each account
    applications, \* the table: the row of each application, or Nil
    submissions,  \* the table: the row of each submission, or Nil
    task,         \* what each request is doing
    hungUp,       \* the requests whose caller has gone: their context is cancelled
    order,        \* history: what was asked for under each application id
    confirmed,    \* history: applications whose creation succeeded
    mishaps,      \* history: the faults of each creation that may leave something behind
    faults,       \* how many faults have happened
    strained      \* history: submissions with a crash, a failed or an overlapping review

vars == <<accounts, assigned, granted, applications, submissions, task,
          hungUp, order, confirmed, mishaps, faults, strained>>

\* The account that a creation makes is named after its application.
Accounts == Applications \cup Provisioned

Row           == [client: Accounts, fields: SUBSET Fields]
\* Only "approved" is told apart from other texts.
Statuses      == {"pending", "approved", "rejected"}
SubmissionRow == [status: Statuses, fields: SUBSET Fields,
                  previous: Applications \cup {Nil}]
Order         == [client: Accounts, fields: SUBSET Fields,
                  submission: Submissions \cup {Nil}]

\* The steps of CreateApplication, forward and undoing.
Forward == {"account", "role", "insert", "grant"}
Undoing == {"discard", "delete row", "delete account"}
Saving  == {"save submission", "reopen", "regrant", "save row"}
Steps   == Forward \cup Undoing \cup Saving

Task     == [at: Steps \cup {"idle"}, app: Applications \cup {Nil},
             sub: Submissions \cup {Nil}, draft: Row \cup SubmissionRow \cup {Nil}]
IdleTask == [at |-> "idle", app |-> Nil, sub |-> Nil, draft |-> Nil]

FaultKinds == {"refused", "lost", "unusable", "hang up", "crash"}

\* What may leave an account without an application, and what may leave a row
\* or a grant although its creation failed.
KeepsAccount == {<<"account", "lost">>, <<"discard", "refused">>,
                 <<"delete account", "refused">>, <<"process", "crash">>}
KeepsRow     == {<<"insert", "lost">>, <<"delete row", "refused">>,
                 <<"row", "saved again">>, <<"process", "crash">>}
KeepsGrant   == {<<"grant", "lost">>, <<"grant", "by an update">>}
Mishap       == KeepsAccount \cup KeepsRow \cup KeepsGrant

ASSUME ConstantsAssumption ==
    /\ FieldLists \subseteq SUBSET Fields
    /\ PolicyLists \subseteq SUBSET Fields
    /\ AssignsRole \in BOOLEAN
    /\ Faults \subseteq FaultKinds
    /\ MaxFaults \in Nat
    /\ Applications \cap Provisioned = {}
    /\ Nil \notin Applications
    /\ Nil \notin Submissions
    /\ Nil \notin Row
    /\ Nil \notin SubmissionRow
    /\ Nil \notin Order

TypeOK ==
    /\ accounts \subseteq Accounts
    /\ assigned \subseteq Accounts
    /\ granted \in [Accounts -> SUBSET Fields]
    /\ applications \in [Applications -> Row \cup {Nil}]
    /\ submissions \in [Submissions -> SubmissionRow \cup {Nil}]
    /\ task \in [Requests -> Task]
    /\ hungUp \subseteq Requests
    /\ order \in [Applications -> Order \cup {Nil}]
    /\ confirmed \subseteq Applications
    /\ mishaps \in [Applications -> SUBSET Mishap]
    /\ faults \in Nat
    /\ strained \subseteq Submissions

\* Both tables are empty; clients provisioned by hand exist already.
Init ==
    /\ accounts = Provisioned
    /\ assigned = {}
    /\ granted = [c \in Accounts |-> {}]
    /\ applications = [n \in Applications |-> Nil]
    /\ submissions = [s \in Submissions |-> Nil]
    /\ task = [r \in Requests |-> IdleTask]
    /\ hungUp = {}
    /\ order = [n \in Applications |-> Nil]
    /\ confirmed = {}
    /\ mishaps = [n \in Applications |-> {}]
    /\ faults = 0
    /\ strained = {}

-----------------------------------------------------------------------------
(* Calls to other systems.                                                 *)

\* Calls that do not carry the context of the request.
Detached == {"discard", "grant", "regrant", "delete row"}

\* How a call may end.
Endings == {"done", "refused", "lost"}

\* A call is refused in any case when the other system cannot do it, and when
\* it carries the context of a caller who has hung up.
Doomed(r, possible) ==
    ~ possible \/ (r \in hungUp /\ task[r].at \notin Detached)

\* The call that request r is at ends with result.
Ends(r, possible, result) ==
    \/ result = "done" /\ ~ Doomed(r, possible) /\ UNCHANGED faults
    \/ result = "refused" /\ Doomed(r, possible) /\ UNCHANGED faults
    \/ /\ result \in Faults \ {"done"}
       /\ ~ Doomed(r, possible)
       /\ faults < MaxFaults
       /\ faults' = faults + 1

\* What went wrong goes on the record of the application that r creates.
Record(r, result) ==
    mishaps' = [mishaps EXCEPT ![task[r].app] = @ \cup ({<<task[r].at, result>>} \cap Mishap)]

TookEffect(result) == result # "refused"

GoTo(r, step) ==
    /\ task' = [task EXCEPT ![r].at = step]
    /\ UNCHANGED hungUp

\* The request is answered, and its slot is free for the next one.
Answer(r) ==
    /\ task' = [task EXCEPT ![r] = IdleTask]
    /\ hungUp' = hungUp \ {r}

\* A client created outside is not the service's to delete.
ExternallyProvisioned(n) == order[n].client # n

\* Mutant of FailCreation: the submission is left approved.
FailWithoutReopening(r) == Answer(r)

\* CreateApplication returns an error, to the caller or to the review.
FailCreation(r) ==
    IF task[r].sub = Nil THEN Answer(r) ELSE GoTo(r, "reopen")

\* Mutant of UndoAccount: the account is deleted whoever created it.
UndoAnyAccount(r) == GoTo(r, "delete account")

\* What is left to undo when the row is not, or no longer, in the table.
UndoAccount(r) ==
    IF ExternallyProvisioned(task[r].app) THEN FailCreation(r)
    ELSE GoTo(r, "delete account")

-----------------------------------------------------------------------------
(* CreateApplication.                                                      *)

CreateApplication(r) ==
    /\ task[r].at = "idle"
    /\ \E n \in Applications, fields \in FieldLists :
       \E client \in {n} \cup Provisioned :
          /\ order[n] = Nil
          /\ order' = [order EXCEPT ![n] =
                [client |-> client, fields |-> fields, submission |-> Nil]]
          /\ task' = [task EXCEPT ![r].app = n,
                ![r].at = IF client = n THEN "account" ELSE "insert"]
    /\ UNCHANGED <<accounts, assigned, granted, applications, submissions,
                   confirmed, mishaps, faults, strained, hungUp>>

\* POST /applications.  A member that is not found fails like a refusal; an
\* answer without client id or secret is unusable.
CreateAccount(r) ==
    LET n == task[r].app IN
    /\ task[r].at = "account"
    /\ \E result \in Endings \cup {"unusable"} :
          /\ Ends(r, TRUE, result)
          /\ Record(r, result)
          /\ accounts' = IF TookEffect(result) THEN accounts \cup {n} ELSE accounts
          /\ CASE result = "done"     -> GoTo(r, IF AssignsRole THEN "role" ELSE "insert")
               [] result = "unusable" -> GoTo(r, "discard")
               [] OTHER               -> FailCreation(r)
    /\ UNCHANGED <<assigned, granted, applications, submissions, order,
                   confirmed, strained>>

\* Mutant of AssignRole: a failed assignment goes unnoticed.
AssignRoleUnchecked(r) ==
    LET n == task[r].app IN
    /\ task[r].at = "role"
    /\ \E result \in Endings :
          /\ Ends(r, TRUE, result)
          /\ Record(r, result)
          /\ assigned' = IF TookEffect(result) THEN assigned \cup {n} ELSE assigned
          /\ GoTo(r, "insert")
    /\ UNCHANGED <<accounts, granted, applications, submissions, order,
                   confirmed, strained>>

\* POST /roles/{id}/assignments/add.
AssignRole(r) ==
    LET n == task[r].app IN
    /\ task[r].at = "role"
    /\ \E result \in Endings :
          /\ Ends(r, TRUE, result)
          /\ Record(r, result)
          /\ assigned' = IF TookEffect(result) THEN assigned \cup {n} ELSE assigned
          /\ GoTo(r, IF result = "done" THEN "insert" ELSE "discard")
    /\ UNCHANGED <<accounts, granted, applications, submissions, order,
                   confirmed, strained>>

\* deleteAfterFailure, with a context of its own.
DiscardAccount(r) ==
    LET n == task[r].app IN
    /\ task[r].at = "discard"
    /\ \E result \in Endings :
          /\ Ends(r, TRUE, result)
          /\ Record(r, result)
          /\ accounts' = IF TookEffect(result) THEN accounts \ {n} ELSE accounts
          /\ assigned' = IF TookEffect(result) THEN assigned \ {n} ELSE assigned
          /\ FailCreation(r)
    /\ UNCHANGED <<granted, applications, submissions, order, confirmed, strained>>

\* The insert, and the choice of what to undo when it fails.
InsertApplication(r) ==
    LET n == task[r].app IN
    /\ task[r].at = "insert"
    /\ \E result \in Endings :
          /\ Ends(r, TRUE, result)
          /\ Record(r, result)
          /\ applications' = IF ~ TookEffect(result) THEN applications
                ELSE [applications EXCEPT ![n] =
                        [client |-> order[n].client, fields |-> order[n].fields]]
          /\ IF result = "done" THEN GoTo(r, "grant") ELSE UndoAccount(r)
    /\ UNCHANGED <<accounts, assigned, granted, submissions, order, confirmed,
                   strained>>

\* Mutant of GrantFields: the PDP keeps fields of an allow-list update it refuses.
GrantPartly(r) ==
    LET n == task[r].app
        c == order[n].client IN
    /\ task[r].at = "grant"
    /\ \E result \in Endings :
          /\ Ends(r, TRUE, result)
          /\ Record(r, result)
          /\ granted' = [granted EXCEPT ![c] = @ \cup order[n].fields]
          /\ confirmed' = IF result = "done" THEN confirmed \cup {n} ELSE confirmed
          /\ IF result = "done" THEN Answer(r) ELSE GoTo(r, "delete row")
    /\ UNCHANGED <<accounts, assigned, applications, submissions, order, strained>>

\* UpdateAllowList for a new application; the PDP grants all fields or none.
GrantFields(r) ==
    LET n == task[r].app
        c == order[n].client IN
    /\ task[r].at = "grant"
    /\ \E result \in Endings :
          /\ Ends(r, TRUE, result)
          /\ Record(r, result)
          /\ granted' = IF ~ TookEffect(result) THEN granted
                ELSE [granted EXCEPT ![c] = @ \cup order[n].fields]
          /\ confirmed' = IF result = "done" THEN confirmed \cup {n} ELSE confirmed
          /\ IF result = "done" THEN Answer(r) ELSE GoTo(r, "delete row")
    /\ UNCHANGED <<accounts, assigned, applications, submissions, order, strained>>

\* A foreign key keeps an application that a submission names as its previous one.
Referenced(n) ==
    \E s \in Submissions : submissions[s] # Nil /\ submissions[s].previous = n

\* Mutant of DeleteApplication: a row is not deleted when the grant fails.
SkipDelete(r) ==
    /\ task[r].at = "delete row"
    /\ UndoAccount(r)
    /\ UNCHANGED <<accounts, assigned, granted, applications, submissions,
                   order, confirmed, mishaps, faults, strained>>

\* The delete of the row; the account is deleted next, whatever comes of this.
DeleteApplication(r) ==
    LET n == task[r].app IN
    /\ task[r].at = "delete row"
    /\ \E result \in Endings :
          /\ Ends(r, ~ Referenced(n), result)
          /\ Record(r, result)
          /\ applications' = IF ~ TookEffect(result) THEN applications
                             ELSE [applications EXCEPT ![n] = Nil]
    /\ UndoAccount(r)
    /\ UNCHANGED <<accounts, assigned, granted, submissions, order, confirmed,
                   strained>>

\* Mutant of DeleteAccount: the review of the submission fails before the account is gone.
KeepAccount(r) ==
    /\ task[r].at = "delete account"
    /\ FailCreation(r)
    /\ UNCHANGED <<accounts, assigned, granted, applications, submissions,
                   order, confirmed, mishaps, faults, strained>>

\* DELETE /applications/{id}, with the context of the request.
DeleteAccount(r) ==
    LET n == task[r].app
        c == order[n].client IN
    /\ task[r].at = "delete account"
    /\ \E result \in Endings :
          /\ Ends(r, TRUE, result)
          /\ Record(r, result)
          /\ accounts' = IF TookEffect(result) THEN accounts \ {c} ELSE accounts
          /\ assigned' = IF TookEffect(result) THEN assigned \ {c} ELSE assigned
          /\ FailCreation(r)
    /\ UNCHANGED <<granted, applications, submissions, order, confirmed, strained>>

-----------------------------------------------------------------------------
(* Updates of an application.                                              *)

\* UpdateApplication loads the row; names, descriptions and versions are left out.
UpdateApplication(r) ==
    /\ task[r].at = "idle"
    /\ \E n \in Applications :
          /\ applications[n] # Nil
          /\ task' = [task EXCEPT ![r].at = "save row", ![r].app = n,
                                  ![r].draft = applications[n]]
    /\ UNCHANGED <<accounts, assigned, granted, applications, submissions,
                   hungUp, order, confirmed, mishaps, faults, strained>>

\* Mutant of UpdateApplicationPolicy: the row is saved without the grant.
UpdatePolicyUngranted(r) ==
    /\ task[r].at = "idle"
    /\ \E n \in Applications, fields \in PolicyLists :
          /\ applications[n] # Nil
          /\ task' = [task EXCEPT ![r].at = "save row", ![r].app = n,
                ![r].draft = [applications[n] EXCEPT !.fields = fields]]
    /\ UNCHANGED <<accounts, assigned, granted, applications, submissions,
                   hungUp, order, confirmed, mishaps, faults, strained>>

\* UpdateApplicationPolicy loads the row, asks the PDP, then saves the row.
UpdateApplicationPolicy(r) ==
    /\ task[r].at = "idle"
    /\ \E n \in Applications, fields \in PolicyLists :
          /\ applications[n] # Nil
          /\ task' = [task EXCEPT ![r].at = "regrant", ![r].app = n,
                ![r].draft = [applications[n] EXCEPT !.fields = fields]]
    /\ UNCHANGED <<accounts, assigned, granted, applications, submissions,
                   hungUp, order, confirmed, mishaps, faults, strained>>

RegrantFields(r) ==
    LET n     == task[r].app
        draft == task[r].draft IN
    /\ task[r].at = "regrant"
    /\ \E result \in Endings :
          /\ Ends(r, TRUE, result)
          /\ granted' = IF ~ TookEffect(result) THEN granted
                ELSE [granted EXCEPT ![draft.client] = @ \cup draft.fields]
          /\ mishaps' = IF ~ TookEffect(result) \/ n \in confirmed \/ draft.client # n
                THEN mishaps
                ELSE [mishaps EXCEPT ![n] = @ \cup {<<"grant", "by an update">>}]
          /\ IF result = "done" THEN GoTo(r, "save row") ELSE Answer(r)
    /\ UNCHANGED <<accounts, assigned, applications, submissions, order,
                   confirmed, strained>>

\* gorm's Save writes all columns, and inserts the row if there is none.
SaveApplication(r) ==
    LET n == task[r].app IN
    /\ task[r].at = "save row"
    /\ \E result \in Endings :
          /\ Ends(r, TRUE, result)
          /\ applications' = IF ~ TookEffect(result) THEN applications
                             ELSE [applications EXCEPT ![n] = task[r].draft]
          /\ mishaps' = IF ~ TookEffect(result) \/ applications[n] # Nil THEN mishaps
                ELSE [mishaps EXCEPT ![n] = @ \cup {<<"row", "saved again">>}]
    /\ Answer(r)
    /\ UNCHANGED <<accounts, assigned, granted, submissions, order, confirmed,
                   strained>>

-----------------------------------------------------------------------------
(* Submissions.                                                            *)

\* What a submission may name as its previous application.
Existing == {n \in Applications : applications[n] # Nil}

\* The previous application is looked up, and the foreign key asks again.
CreateApplicationSubmission ==
    /\ \E s \in Submissions, fields \in FieldLists, previous \in Existing \cup {Nil} :
          /\ submissions[s] = Nil
          /\ submissions' = [submissions EXCEPT ![s] =
                [status |-> "pending", fields |-> fields, previous |-> previous]]
    /\ UNCHANGED <<accounts, assigned, granted, applications, task, hungUp,
                   order, confirmed, mishaps, faults, strained>>

\* A request changes only what it names; Nil is a field it leaves out.
Updated(old, asked) == IF asked = Nil THEN old ELSE asked

\* The load of UpdateApplicationSubmission, and the changes to the copy.  An
\* approval gets the id that its application will have.
UpdateApplicationSubmission(r) ==
    /\ task[r].at = "idle"
    /\ \E s \in Submissions, status \in Statuses \cup {Nil},
          fields \in FieldLists \cup {Nil}, previous \in Existing \cup {Nil} :
          LET loaded == submissions[s]
              draft  == [status   |-> Updated(loaded.status, status),
                         fields   |-> Updated(loaded.fields, fields),
                         previous |-> Updated(loaded.previous, previous)]
              Begin(n) == task' = [task EXCEPT ![r].at = "save submission",
                             ![r].app = n, ![r].sub = s, ![r].draft = draft]
          IN
          /\ loaded # Nil
          /\ strained' = IF \E q \in Requests : task[q].sub = s
                         THEN strained \cup {s} ELSE strained
          /\ \/ /\ status # "approved"
                /\ Begin(Nil)
                /\ UNCHANGED order
             \/ /\ status = "approved"
                /\ \E n \in Applications :
                      /\ order[n] = Nil
                      /\ order' = [order EXCEPT ![n] =
                            [client |-> n, fields |-> draft.fields, submission |-> s]]
                      /\ Begin(n)
    /\ UNCHANGED <<accounts, assigned, granted, applications, submissions,
                   confirmed, mishaps, faults, hungUp>>

Storable(draft) == draft.previous = Nil \/ applications[draft.previous] # Nil

\* The save, and then the creation when the request approves.
SaveSubmission(r) ==
    LET s     == task[r].sub
        n     == task[r].app
        draft == task[r].draft IN
    /\ task[r].at = "save submission"
    /\ \E result \in Endings :
          /\ Ends(r, Storable(draft), result)
          /\ submissions' = IF TookEffect(result)
                            THEN [submissions EXCEPT ![s] = draft] ELSE submissions
          /\ strained' = IF result = "lost" THEN strained \cup {s} ELSE strained
          /\ IF result = "done" /\ n # Nil THEN GoTo(r, "account") ELSE Answer(r)
    /\ UNCHANGED <<accounts, assigned, granted, applications, order, confirmed,
                   mishaps>>

\* Mutant of ReopenSubmission: the creation is tried again under the same id.
TryAgain(r) ==
    /\ task[r].at = "reopen"
    /\ GoTo(r, "account")
    /\ UNCHANGED <<accounts, assigned, granted, applications, submissions,
                   order, confirmed, mishaps, faults, strained>>

\* The creation failed: the copy is saved again, as pending.
ReopenSubmission(r) ==
    LET s     == task[r].sub
        draft == task[r].draft IN
    /\ task[r].at = "reopen"
    /\ \E result \in Endings :
          /\ Ends(r, Storable(draft), result)
          /\ submissions' = IF ~ TookEffect(result) THEN submissions
                ELSE [submissions EXCEPT ![s] = [draft EXCEPT !.status = "pending"]]
          /\ strained' = IF TookEffect(result) THEN strained ELSE strained \cup {s}
    /\ Answer(r)
    /\ UNCHANGED <<accounts, assigned, granted, applications, order, confirmed,
                   mishaps>>

-----------------------------------------------------------------------------
(* Callers that hang up, and crashes.                                      *)

HangUp(r) ==
    /\ "hang up" \in Faults
    /\ faults < MaxFaults
    /\ faults' = faults + 1
    /\ task[r].at # "idle"
    /\ r \notin hungUp
    /\ hungUp' = hungUp \cup {r}
    /\ UNCHANGED <<accounts, assigned, granted, applications, submissions,
                   task, order, confirmed, mishaps, strained>>

\* A request is at work on the creation of application n.
Creating(n) ==
    \E r \in Requests : task[r].app = n /\ task[r].at \in Forward \cup Undoing

\* The process stops and starts: what it was doing is forgotten.
Crash ==
    /\ "crash" \in Faults
    /\ faults < MaxFaults
    /\ faults' = faults + 1
    /\ \E r \in Requests : task[r].at # "idle"
    /\ task' = [r \in Requests |-> IdleTask]
    /\ hungUp' = {}
    /\ mishaps' = [n \in Applications |->
          mishaps[n] \cup (IF Creating(n) THEN {<<"process", "crash">>} ELSE {})]
    /\ strained' = strained \cup {s \in Submissions : \E r \in Requests : task[r].sub = s}
    /\ UNCHANGED <<accounts, assigned, granted, applications, submissions,
                   order, confirmed>>

Creation(r) ==
    \/ CreateAccount(r)
    \/ AssignRole(r)
    \/ DiscardAccount(r)
    \/ InsertApplication(r)
    \/ GrantFields(r)
    \/ DeleteApplication(r)
    \/ DeleteAccount(r)

Next ==
    \/ \E r \in Requests :
          \/ CreateApplication(r)
          \/ Creation(r)
          \/ UpdateApplication(r)
          \/ UpdateApplicationPolicy(r)
          \/ RegrantFields(r)
          \/ SaveApplication(r)
          \/ UpdateApplicationSubmission(r)
          \/ SaveSubmission(r)
          \/ ReopenSubmission(r)
          \/ HangUp(r)
    \/ CreateApplicationSubmission
    \/ Crash

Spec == Init /\ [][Next]_vars

-----------------------------------------------------------------------------
(* Properties.                                                             *)

\* An application whose creation was reported as successful has, then and ever
\* after, its row, the account named in it, the role, and every field that was
\* asked for - whatever other creations undo in the meantime
\* (CreateApplication, service.go:98-188).
ConfirmedIsComplete ==
    \A n \in confirmed :
       /\ applications[n] # Nil
       /\ applications[n].client = order[n].client
       /\ order[n].client \in accounts
       /\ AssignsRole /\ ~ ExternallyProvisioned(n) => n \in assigned
       /\ order[n].fields \subseteq granted[order[n].client]

\* What the row of a successfully created application lists, the PDP has
\* granted: updates ask the PDP first, and the copies that racing updates save
\* over each other are out of date but never ahead of the PDP (service.go:257-262).
SelectedFieldsGranted ==
    \A n \in confirmed : applications[n].fields \subseteq granted[order[n].client]

\* A client that was provisioned outside survives every failed creation that
\* was to use it ("isn't ours to delete", service.go:99-102 and 146-149).
ProvisionedKept == Provisioned \subseteq accounts

\* An account the service made stays behind after a failed creation only if its
\* creation was never answered, the call that deletes it failed, or the process
\* crashed.  No failure of the role, the insert or the grant is enough
\* (client.go:156-164, service.go:98-115 and 132-158).
NoStrayAccount ==
    \A n \in accounts \cap Applications :
       \/ Creating(n)
       \/ n \in confirmed
       \/ mishaps[n] \cap KeepsAccount # {}

\* A row whose creation failed stays behind only if the insert was never
\* answered, the delete was refused (a submission may refer to the row by
\* then), an update that had loaded the row saved it again, or the process
\* crashed.  A caller who hangs up is no reason: the delete carries no context
\* (service.go:132-145).
NoStrayRow ==
    \A n \in Applications :
       \/ applications[n] = Nil
       \/ n \in confirmed
       \/ Creating(n)
       \/ mishaps[n] \cap KeepsRow # {}

\* The PDP holds fields for an account that a failed creation made, and may have
\* deleted, only if the answer to its grant was lost, for nobody takes a grant
\* back, or if an update of the row found it in the table before it was deleted
\* (service.go:117-158 and 251-270).
NoStrayGrant ==
    \A n \in Applications :
       \/ granted[n] = {}
       \/ n \in confirmed
       \/ mishaps[n] \cap KeepsGrant # {}

\* A submission that stands approved has led to an application, except while
\* its review is at work, after a crash or a failed save of its status, and
\* after reviews of it that overlapped (UpdateApplicationSubmission,
\* service.go:429-469).
ApprovedHasApplication ==
    \A s \in Submissions \ strained :
       \/ submissions[s] = Nil
       \/ submissions[s].status # "approved"
       \/ \E r \in Requests : task[r].sub = s
       \/ \E n \in confirmed : order[n].submission = s

\* What cmd/pb/README.md:78 says of the steps of a creation: "PB undoes earlier
\* steps if a later one fails".  A caller who hangs up makes the insert fail,
\* and with it the delete of the account, which uses the same context
\* (service.go:98-103).
FailedCreationUndone ==
    \A n \in Applications :
       \/ order[n] = Nil
       \/ n \in confirmed
       \/ Creating(n)
       \/ n \notin accounts /\ applications[n] = Nil

\* What the interface says of an update of the policy (cmd/pb/openapi.yaml:758):
\* it "replaces an existing application's allow-list".  The PDP only adds the
\* fields it is sent, and nobody asks it to take back the others
\* (service.go:251-262).
PolicyReplacesAllowList ==
    (\A r \in Requests : task[r].at = "idle") =>
       \A n \in confirmed :
          granted[order[n].client] \subseteq
             UNION {applications[m].fields : m \in {m \in confirmed :
                                                     order[m].client = order[n].client}}

-----------------------------------------------------------------------------
(* The creations as Creation has them.                                     *)

Parts == {"account", "row", "grants"}

\* The creation of n is at work, or the review that will start it.
Underway(n) ==
    \E r \in Requests : /\ task[r].app = n
                       /\ task[r].at \in Forward \cup Undoing \cup {"save submission"}

PhaseOf(n) ==
    CASE n \in confirmed -> "complete"
      [] n \notin confirmed /\ Underway(n) -> "underway"
      [] n \notin confirmed /\ ~ Underway(n) ->
            IF order[n] = Nil THEN "open" ELSE "closed"

\* Of a creation that succeeded, the parts that are as they were asked for.
AsAsked(n) ==
    LET c == order[n].client
        has == [account |-> c \in accounts /\ (AssignsRole /\ c = n => n \in assigned),
                row     |-> applications[n] # Nil /\ applications[n].client = c,
                grants  |-> order[n].fields \subseteq granted[c]]
    IN {p \in Parts : has[p]}

\* Of any other, the parts there is anything of.  What a client made outside
\* has been granted is not told apart by creation.
Found(n) ==
    LET has == [account |-> n \in accounts,
                row     |-> applications[n] # Nil,
                grants  |-> granted[n] # {}]
    IN {p \in Parts : has[p]}

\* The parts that a mishap may have left behind.
MayStay(n) ==
    LET keeps == [account |-> KeepsAccount, row |-> KeepsRow, grants |-> KeepsGrant]
    IN {p \in Parts : mishaps[n] \cap keeps[p] # {}}

AllOrNothing ==
    INSTANCE Creation WITH
        Ids       <- Applications,
        Reusable  <- {},
        Returning <- {"row", "grants"},
        phase     <- [n \in Applications |-> PhaseOf(n)],
        there     <- [n \in Applications |->
                        IF n \in confirmed THEN AsAsked(n) ELSE Found(n)],
        mayStay   <- [n \in Applications |-> MayStay(n)],
        mayDrift  <- [n \in Applications |-> {}]

\* Every creation of an application is all or nothing, ends once, and is never
\* resumed or taken back afterwards; an account never comes back, whatever
\* updates and other creations do (CreateApplication and UpdateApplication,
\* service.go:84-270, and the approval, service.go:429-469).
ImplementsCreation == AllOrNothing!Spec

=============================================================================
