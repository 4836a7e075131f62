--------------------------- MODULE ConsentEngine ---------------------------
(***************************************************************************)
(* The Consent Engine: the consent_records table and the HTTP requests     *)
(* that read and write it (internal/ce/services/consent_service.go).       *)
(*                                                                         *)
(* Every request runs in a goroutine of its own and the service keeps no   *)
(* lock: what orders two requests is PostgreSQL at READ COMMITTED.  An     *)
(* action is therefore one database statement (or the statements of one    *)
(* transaction after which another request can observe something), with    *)
(* the local computation around it.  A row that was read is kept in copy   *)
(* and may be stale by the time it is written back.                        *)
(*                                                                         *)
(* Consent ids are numbered in the order in which buildConsentRecord       *)
(* stamps created_at, so "latest by created_at" is "largest id"; two       *)
(* records stamped in the same microsecond are not modelled.               *)
(***************************************************************************)
EXTENDS Naturals, FiniteSets

CONSTANTS
    Owners,           \* data owners (the UID in the consents and in the portal tokens)
    Callers,          \* subjects of the tokens the portal API sees, owners among them
    Apps,             \* consumer applications
    FieldLists,       \* lists of requested fields, told apart by areConsentFieldsEqual
    Requests,         \* slots for HTTP requests in flight
    PendingTimeouts,  \* the values of parsePendingTimeoutDuration
    GrantDurations,   \* the values of parseGrantDuration
    PortalOps,        \* the portal operations that callers use, among PortalOperations
    MaxConsents,      \* bound: records built in a behaviour
    MaxTime,          \* bound: the clock
    Nil               \* SQL NULL, a Go nil pointer, "no such row"

VARIABLES
    now,       \* the clock
    consents,  \* the table, by consent id; Nil where there is no row
    built,     \* how many records buildConsentRecord has stamped
    pc,        \* what each request does next
    call,      \* its parameters
    copy,      \* the row it loaded
    readAt,    \* when it loaded that row
    draft,     \* the record it built and has not inserted yet
    reply,     \* the answer a request was given in the last step, if any
    wins       \* history: the portal's decisions the database took, per consent

vars == <<now, consents, built, pc, call, copy, readAt, draft, reply, wins>>

ConsentIDs == 1..MaxConsents

ActiveStatus   == {"pending", "approved"}
TerminalStatus == {"rejected", "expired", "revoked"}
Status         == ActiveStatus \cup TerminalStatus

Deadline == Nat \cup {Nil}

\* A row of consent_records.
ConsentRecord ==
    [id: ConsentIDs, owner: Owners, app: Apps, fields: FieldLists,
     status: Status, duration: GrantDurations,
     pendingExpiresAt: Deadline, grantExpiresAt: Deadline]

Actions          == {"approve", "reject", "revoke"}
PortalOperations == {"view"} \cup Actions

CreateCall == [op: {"create"}, owner: Owners, app: Apps, fields: FieldLists,
               timeout: PendingTimeouts, duration: GrantDurations]
GetCall    == [op: {"get"}, owner: Owners, app: Apps]
PortalCall == [op: PortalOperations, id: ConsentIDs, caller: Callers]
Call       == CreateCall \cup GetCall \cup PortalCall

\* "loaded" .. "commit" are the steps of a get or a create,
\* "portal" and "reload" those of the portal's handlers.
Step == {"idle", "loaded", "build", "insert", "replace", "revoke", "commit",
         "portal", "reload", "reloaded"}

Answers == Status \cup {"ok", "not_found", "denied", "conflict", "error"}

ASSUME ConstantsAssumption ==
    /\ Owners \subseteq Callers
    /\ PendingTimeouts \subseteq Nat
    /\ GrantDurations \subseteq Nat
    /\ PortalOps \subseteq PortalOperations
    /\ MaxConsents \in Nat
    /\ MaxTime \in Nat
    /\ Nil \notin Nat
    /\ Nil \notin ConsentRecord
    /\ Nil \notin Answers

TypeOK ==
    /\ now \in Nat
    /\ consents \in [ConsentIDs -> ConsentRecord \cup {Nil}]
    /\ built \in 0..MaxConsents
    /\ pc \in [Requests -> Step]
    /\ call \in [Requests -> Call \cup {Nil}]
    /\ copy \in [Requests -> ConsentRecord \cup {Nil}]
    /\ readAt \in [Requests -> Nat]
    /\ draft \in [Requests -> ConsentRecord \cup {Nil}]
    /\ reply \in [Requests -> Answers \cup {Nil}]
    /\ wins \in [ConsentIDs -> [Actions -> Nat]]

-----------------------------------------------------------------------------
(* Operators on records.                                                   *)

IsActive(i) == consents[i] # Nil /\ consents[i].status \in ActiveStatus

SamePair(row, o, a) == row.owner = o /\ row.app = a

\* Mutants of Stale: a deadline counts as passed when it is reached; an
\* approved record has none.
StaleAtDeadline(row, t) ==
    \/ row.status = "pending" /\ t >= row.pendingExpiresAt
    \/ row.status = "approved" /\ t >= row.grantExpiresAt

StaleIfPending(row, t) == row.status = "pending" /\ t > row.pendingExpiresAt

\* markExpiredIfStale: the deadline that goes with the status has passed.
Stale(row, t) ==
    \/ /\ row.status = "pending"
       /\ row.pendingExpiresAt # Nil /\ t > row.pendingExpiresAt
    \/ /\ row.status = "approved"
       /\ row.grantExpiresAt # Nil /\ t > row.grantExpiresAt

\* Mutant of WithStatus: the change is made to a copy of the record and lost.
AsLoaded(row, s) == row

WithStatus(row, s) == [row EXCEPT !.status = s]

\* The check on ownership before anything is written, and a mutant of it.
OwnerUnchecked(row, c) == TRUE

OwnerMatches(row, c) == row.owner = c

\* WHERE consent_id = i AND status = s, and a mutant without the status.
WhereId(i, s) == consents[i] # Nil

WhereIdAndStatus(i, s) == consents[i] # Nil /\ consents[i].status = s

\* The rows of a pair, and the one ORDER BY created_at DESC LIMIT 1 returns.
RowsOf(o, a) == {i \in ConsentIDs : consents[i] # Nil /\ SamePair(consents[i], o, a)}

IsLatest(i, o, a) == i \in RowsOf(o, a) /\ \A j \in RowsOf(o, a) : j <= i

\* Mutant of BuildConsentRecord: owner and application exchanged.
BuildExchanged(c, i) ==
    [id |-> i, owner |-> c.app, app |-> c.owner, fields |-> c.fields,
     status |-> "pending", duration |-> c.duration,
     pendingExpiresAt |-> now + c.timeout, grantExpiresAt |-> Nil]

\* buildConsentRecord
BuildConsentRecord(c, i) ==
    [id |-> i, owner |-> c.owner, app |-> c.app, fields |-> c.fields,
     status |-> "pending", duration |-> c.duration,
     pendingExpiresAt |-> now + c.timeout, grantExpiresAt |-> Nil]

\* Mutant of UniqueActive: the index covers pending rows only.
UniquePending(table, row) ==
    \A i \in ConsentIDs :
        table[i] # Nil /\ table[i].status = "pending"
            => ~SamePair(table[i], row.owner, row.app)

\* idx_consent_active_unique admits row into table.
UniqueActive(table, row) ==
    \A i \in ConsentIDs :
        table[i] # Nil /\ table[i].status \in ActiveStatus
            => ~SamePair(table[i], row.owner, row.app)

\* revokeAndCreateConsent has updated row i and not committed: its row lock
\* makes every other writer of the row wait.
Locked(i) == \E r \in Requests : pc[r] = "commit" /\ copy[r].id = i

\* Mutant of InsertWaits: a transaction waits for the row it has revoked itself.
WaitsForItself(r) ==
    \E q \in Requests :
        pc[q] = "commit" /\ SamePair(draft[r], copy[q].owner, copy[q].app)

\* An insert of the pair waits while another transaction holds the active row
\* of that pair, because the outcome of the uniqueness check is still open.
InsertWaits(r) ==
    \E q \in Requests \ {r} :
        /\ pc[q] = "commit"
        /\ IsActive(copy[q].id)
        /\ SamePair(draft[r], copy[q].owner, copy[q].app)

-----------------------------------------------------------------------------
(* The beginning and the end of a request.                                 *)

NoReply == [r \in Requests |-> Nil]

\* The request has loaded row (or found none) and goes on with step s.
Load(r, c, row, s) ==
    /\ call' = [call EXCEPT ![r] = c]
    /\ copy' = [copy EXCEPT ![r] = row]
    /\ readAt' = [readAt EXCEPT ![r] = now]
    /\ pc' = [pc EXCEPT ![r] = s]
    /\ reply' = NoReply
    /\ UNCHANGED draft

\* The request goes on with step s and row; the time it loaded is not used again.
Goto(r, s, row) ==
    /\ pc' = [pc EXCEPT ![r] = s]
    /\ copy' = [copy EXCEPT ![r] = row]
    /\ readAt' = [readAt EXCEPT ![r] = 0]
    /\ reply' = NoReply
    /\ UNCHANGED <<call, draft>>

\* The request is answered and its memory is gone.
Answer(r, a) ==
    /\ pc' = [pc EXCEPT ![r] = "idle"]
    /\ reply' = [NoReply EXCEPT ![r] = a]
    /\ call' = [call EXCEPT ![r] = Nil]
    /\ copy' = [copy EXCEPT ![r] = Nil]
    /\ readAt' = [readAt EXCEPT ![r] = 0]
    /\ draft' = [draft EXCEPT ![r] = Nil]

\* The request is answered as soon as it has loaded what it asked for.
AnswerAtOnce(r, a) ==
    /\ reply' = [NoReply EXCEPT ![r] = a]
    /\ UNCHANGED <<pc, call, copy, readAt, draft>>

-----------------------------------------------------------------------------
(* Internal API: GET and POST /internal/api/v1/consents.                   *)

\* GetConsentInternalView up to its query, for the GET handler.
GetConsent(r, o, a) ==
    /\ pc[r] = "idle"
    /\ \/ /\ RowsOf(o, a) = {}
          /\ AnswerAtOnce(r, "not_found")
       \/ \E i \in RowsOf(o, a) :
             /\ IsLatest(i, o, a)
             /\ Load(r, [op |-> "get", owner |-> o, app |-> a], consents[i], "loaded")
    /\ UNCHANGED <<now, consents, built, wins>>

\* CreateConsentRecord up to the same query.
CreateConsent(r, c) ==
    /\ pc[r] = "idle"
    /\ \/ /\ RowsOf(c.owner, c.app) = {}
          /\ Load(r, c, Nil, "build")
       \/ \E i \in RowsOf(c.owner, c.app) :
             /\ IsLatest(i, c.owner, c.app)
             /\ Load(r, c, consents[i], "loaded")
    /\ UNCHANGED <<now, consents, built, wins>>

\* GetConsentInternalView finds the loaded record past its deadline and saves
\* the whole record as expired, whatever the row holds by now.
SaveExpired(r) ==
    /\ pc[r] = "loaded"
    /\ Stale(copy[r], now)
    /\ ~Locked(copy[r].id)
    /\ consents' = [consents EXCEPT ![copy[r].id] = WithStatus(copy[r], "expired")]
    /\ \/ call[r].op = "get"    /\ Answer(r, "expired")
       \/ call[r].op = "create" /\ Goto(r, "build", Nil)
    /\ UNCHANGED <<now, built, wins>>

\* The loaded record is not past its deadline: GET returns it; POST returns it
\* when it is active with the same fields, replaces it when it is active with
\* other fields and builds a new one when it is terminal.
UseLoaded(r) ==
    /\ pc[r] = "loaded"
    /\ ~Stale(copy[r], readAt[r])
    /\ \/ /\ call[r].op = "get"
          /\ Answer(r, copy[r].status)
       \/ /\ call[r].op = "create"
          /\ copy[r].status \in ActiveStatus
          /\ copy[r].fields = call[r].fields
          /\ Answer(r, copy[r].status)
       \/ /\ call[r].op = "create"
          /\ copy[r].status \in ActiveStatus
          /\ copy[r].fields # call[r].fields
          /\ Goto(r, "replace", copy[r])
       \/ /\ call[r].op = "create"
          /\ copy[r].status \notin ActiveStatus
          /\ Goto(r, "build", Nil)
    /\ UNCHANGED <<now, consents, built, wins>>

\* buildConsentRecord: created_at and the pending deadline are stamped here,
\* before the insert.
Build(r, s) ==
    /\ built < MaxConsents
    /\ built' = built + 1
    /\ draft' = [draft EXCEPT ![r] = BuildConsentRecord(call[r], built + 1)]
    /\ pc' = [pc EXCEPT ![r] = s]
    /\ call' = [call EXCEPT ![r] = Nil]
    /\ reply' = NoReply
    /\ UNCHANGED <<copy, readAt>>

BuildConsent(r) ==
    /\ pc[r] = "build"
    /\ Build(r, "insert")
    /\ UNCHANGED <<now, consents, wins>>

InsertConsent(r) ==
    /\ pc[r] = "insert"
    /\ ~InsertWaits(r)
    /\ \/ /\ UniqueActive(consents, draft[r])
          /\ consents' = [consents EXCEPT ![draft[r].id] = draft[r]]
          /\ Answer(r, "pending")
       \/ /\ ~UniqueActive(consents, draft[r])
          /\ Answer(r, "error")
          /\ UNCHANGED consents
    /\ UNCHANGED <<now, built, wins>>

\* revokeAndCreateConsent, first statement of the transaction.
BeginReplace(r) ==
    /\ pc[r] = "replace"
    /\ LET row == consents[copy[r].id] IN
       \/ /\ row.status \in ActiveStatus
          /\ Goto(r, "revoke", row)
       \/ /\ row.status \notin ActiveStatus
          /\ Answer(r, "error")
    /\ UNCHANGED <<now, consents, built, wins>>

\* Mutant of RevokeExisting: without a transaction.
RevokeAtOnce(r) ==
    /\ pc[r] = "revoke"
    /\ Build(r, "commit")
    /\ consents' = [consents EXCEPT ![copy[r].id] = WithStatus(copy[r], "revoked")]
    /\ UNCHANGED <<now, wins>>

\* Second statement: the record is saved as revoked, which takes the row's lock
\* but shows to nobody, and the new record is built.
RevokeExisting(r) ==
    /\ pc[r] = "revoke"
    /\ ~Locked(copy[r].id)
    /\ Build(r, "commit")
    /\ UNCHANGED <<now, consents, wins>>

\* Mutant of CommitReplace: the new request is written over the old record.
ReplaceInPlace(r) ==
    /\ pc[r] = "commit"
    /\ consents' = [consents EXCEPT ![copy[r].id] = [draft[r] EXCEPT !.id = copy[r].id]]
    /\ Answer(r, "pending")
    /\ UNCHANGED <<now, built, wins>>

\* Third statement and COMMIT, or ROLLBACK when the insert is refused.
CommitReplace(r) ==
    /\ pc[r] = "commit"
    /\ ~InsertWaits(r)
    /\ LET revoked == [consents EXCEPT ![copy[r].id] = WithStatus(copy[r], "revoked")] IN
       \/ /\ UniqueActive(revoked, draft[r])
          /\ consents' = [revoked EXCEPT ![draft[r].id] = draft[r]]
          /\ Answer(r, "pending")
       \/ /\ ~UniqueActive(revoked, draft[r])
          /\ Answer(r, "error")
          /\ UNCHANGED consents
    /\ UNCHANGED <<now, built, wins>>

-----------------------------------------------------------------------------
(* Portal API: GET and PUT /api/v1/consents/{consentId}, GET /api/v1/consents. *)

\* The query and the ownership check shared by GetConsentPortalView and
\* UpdateConsentStatusByPortalAction.
PortalRequest(r, op, i, c) ==
    /\ pc[r] = "idle"
    /\ \/ /\ consents[i] = Nil
          /\ AnswerAtOnce(r, "not_found")
       \/ /\ consents[i] # Nil /\ ~OwnerMatches(consents[i], c)
          /\ AnswerAtOnce(r, "denied")
       \/ /\ consents[i] # Nil /\ OwnerMatches(consents[i], c)
          /\ Load(r, [op |-> op, id |-> i, caller |-> c], consents[i], "portal")
    /\ UNCHANGED <<now, consents, built, wins>>

\* persistExpiryIfStale: the update is conditional on the status that was
\* loaded; when it changes nothing the row is loaded again.
PersistExpiry(r) ==
    /\ pc[r] = "portal"
    /\ Stale(copy[r], now)
    /\ ~Locked(copy[r].id)
    /\ LET i == copy[r].id IN
       \/ /\ WhereIdAndStatus(i, copy[r].status)
          /\ consents' = [consents EXCEPT ![i] = WithStatus(consents[i], "expired")]
          /\ Answer(r, IF call[r].op = "view" THEN "expired" ELSE "conflict")
       \/ /\ ~WhereIdAndStatus(i, copy[r].status)
          /\ Goto(r, "reload", copy[r])
          /\ UNCHANGED consents
    /\ UNCHANGED <<now, built, wins>>

\* approve and reject decide a pending consent, revoke withdraws an approved one.
FromStatus(a) == IF a = "revoke" THEN "approved" ELSE "pending"

\* GetConsentPortalView's answer: the record as it was loaded.
ViewConsent(r) ==
    /\ pc[r] = "portal"
    /\ call[r].op = "view"
    /\ ~Stale(copy[r], readAt[r])
    /\ Answer(r, copy[r].status)
    /\ UNCHANGED <<now, consents, built, wins>>

\* persistExpiryIfStale's second query.
Reload(r) ==
    /\ pc[r] = "reload"
    /\ LET row == consents[copy[r].id] IN
       \/ /\ call[r].op = "view"
          /\ Answer(r, row.status)
       \/ /\ call[r].op \in Actions
          /\ row.status # FromStatus(call[r].op)
          /\ Answer(r, "conflict")
       \/ /\ call[r].op \in Actions
          /\ row.status = FromStatus(call[r].op)
          /\ Goto(r, "reloaded", row)
    /\ UNCHANGED <<now, consents, built, wins>>

\* Mutant of Decided: a rejection leaves the pending deadline.
DecidedKeepingDeadline(row, a, t) ==
    CASE a = "approve" -> [row EXCEPT !.status = "approved", !.pendingExpiresAt = Nil,
                                      !.grantExpiresAt = t + row.duration]
      [] a = "reject"  -> [row EXCEPT !.status = "rejected"]
      [] a = "revoke"  -> [row EXCEPT !.status = "revoked"]

\* The columns UpdateConsentStatusByPortalAction sets, t being its currentTime.
Decided(row, a, t) ==
    CASE a = "approve" -> [row EXCEPT !.status = "approved", !.pendingExpiresAt = Nil,
                                      !.grantExpiresAt = t + row.duration]
      [] a = "reject"  -> [row EXCEPT !.status = "rejected", !.pendingExpiresAt = Nil]
      [] a = "revoke"  -> [row EXCEPT !.status = "revoked", !.pendingExpiresAt = Nil]

\* Mutant of DecisionTimes: the time of the UPDATE, not compared with the deadline.
TimeOfUpdate(r) == {now}

\* currentTime is taken after the load and compared with the deadline at once;
\* a reloaded record is not compared again.
DecisionTimes(r) ==
    IF pc[r] = "reloaded" THEN {now} ELSE {t \in readAt[r]..now : ~Stale(copy[r], t)}

\* The status check on the loaded record fails.
RefuseAction(r) ==
    /\ pc[r] = "portal"
    /\ call[r].op \in Actions
    /\ DecisionTimes(r) # {}
    /\ copy[r].status # FromStatus(call[r].op)
    /\ Answer(r, "conflict")
    /\ UNCHANGED <<now, consents, built, wins>>

\* It succeeds: one UPDATE, conditional on the row still having that status.
DecideConsent(r) ==
    /\ pc[r] \in {"portal", "reloaded"}
    /\ call[r].op \in Actions
    /\ copy[r].status = FromStatus(call[r].op)
    /\ ~Locked(copy[r].id)
    /\ \E t \in DecisionTimes(r) :
       LET i == call[r].id IN
       \/ /\ WhereIdAndStatus(i, FromStatus(call[r].op))
          /\ consents[i].owner = call[r].caller
          /\ consents' = [consents EXCEPT ![i] = Decided(consents[i], call[r].op, t)]
          /\ wins' = [wins EXCEPT ![i][call[r].op] = @ + 1]
          /\ Answer(r, "ok")
       \/ /\ ~(WhereIdAndStatus(i, FromStatus(call[r].op))
                 /\ consents[i].owner = call[r].caller)
          /\ Answer(r, "conflict")
          /\ UNCHANGED <<consents, wins>>
    /\ UNCHANGED <<now, built>>

\* ListConsentsByOwner: expireStaleConsentsByOwner, with a time t taken before
\* its transaction, then a read.
ListConsents(o, t) ==
    LET stale == {i \in ConsentIDs :
                    consents[i] # Nil /\ consents[i].owner = o /\ Stale(consents[i], t)}
    IN
    /\ stale # {}
    /\ \A i \in stale : ~Locked(i)
    /\ consents' = [i \in ConsentIDs |->
                      IF i \in stale THEN WithStatus(consents[i], "expired") ELSE consents[i]]
    /\ reply' = NoReply
    /\ UNCHANGED <<now, built, pc, call, copy, readAt, draft, wins>>

-----------------------------------------------------------------------------
(* The environment.                                                        *)

\* The request's context is cancelled, its connection fails or the process
\* stops: an open transaction is rolled back, committed statements stay.
Abort(r) ==
    /\ pc[r] # "idle"
    /\ Answer(r, "error")
    /\ UNCHANGED <<now, consents, built, wins>>

Tick ==
    /\ now < MaxTime
    /\ now' = now + 1
    /\ reply' = NoReply
    /\ UNCHANGED <<consents, built, pc, call, copy, readAt, draft, wins>>

Init ==
    /\ now = 0
    /\ consents = [i \in ConsentIDs |-> Nil]
    /\ built = 0
    /\ pc = [r \in Requests |-> "idle"]
    /\ call = [r \in Requests |-> Nil]
    /\ copy = [r \in Requests |-> Nil]
    /\ readAt = [r \in Requests |-> 0]
    /\ draft = [r \in Requests |-> Nil]
    /\ reply = NoReply
    /\ wins = [i \in ConsentIDs |-> [a \in Actions |-> 0]]

\* A request arrives.
Arrive(r) ==
    \/ \E o \in Owners, a \in Apps : GetConsent(r, o, a)
    \/ \E c \in CreateCall : CreateConsent(r, c)
    \/ \E op \in PortalOps, i \in ConsentIDs, c \in Callers :
          PortalRequest(r, op, i, c)

\* A request in flight goes on.
Proceed(r) ==
    \/ SaveExpired(r) \/ UseLoaded(r)
    \/ BuildConsent(r) \/ InsertConsent(r)
    \/ BeginReplace(r) \/ RevokeExisting(r) \/ CommitReplace(r)
    \/ PersistExpiry(r) \/ ViewConsent(r) \/ Reload(r)
    \/ RefuseAction(r) \/ DecideConsent(r)

Next ==
    \/ \E r \in Requests : Arrive(r) \/ Proceed(r) \/ Abort(r)
    \/ \E o \in Owners, t \in 0..now : ListConsents(o, t)
    \/ Tick

Spec == Init /\ [][Next]_vars

\* Goroutines are scheduled and PostgreSQL answers or fails: a request that
\* can go on does.  Nobody is obliged to send one.
FairSpec == Spec /\ \A r \in Requests : WF_vars(Proceed(r))
-----------------------------------------------------------------------------
(* Properties of the code as it is.                                        *)

\* The partial unique index and the transaction of revokeAndCreateConsent
\* together keep at most one pending or approved consent per owner and
\* application, whatever creates, decisions and expiries race.
OneActiveConsent ==
    \A i, j \in ConsentIDs :
        IsActive(i) /\ IsActive(j) /\ SamePair(consents[i], consents[j].owner, consents[j].app)
            => i = j

\* When portal actions race, the conditional UPDATE lets exactly one decide a
\* pending consent and at most one withdraw the grant, and a consent is
\* approved only if its owner's approval is the decision that won.
ExactlyOneWins ==
    \A i \in ConsentIDs :
        /\ wins[i]["approve"] + wins[i]["reject"] <= 1
        /\ wins[i]["revoke"] <= wins[i]["approve"]
        /\ consents[i] # Nil =>
             /\ consents[i].status = "pending" => \A a \in Actions : wins[i][a] = 0
             /\ consents[i].status = "approved" =>
                  wins[i]["approve"] = 1 /\ wins[i]["revoke"] = 0
             /\ consents[i].status = "rejected" => wins[i]["reject"] = 1

\* Lazy expiry is never premature: whichever of the four expiry writes marked
\* a record, a deadline that the record itself still shows has passed.
ExpiredPastDeadline ==
    \A i \in ConsentIDs :
        consents[i] # Nil /\ consents[i].status = "expired" =>
            \/ consents[i].pendingExpiresAt # Nil /\ consents[i].pendingExpiresAt < now
            \/ consents[i].grantExpiresAt # Nil /\ consents[i].grantExpiresAt < now

\* The pending deadline is cleared by the decision, also when a full-record
\* Save of a stale copy came in between (CONSENT_LIFECYCLE.md:87).
DecisionClearsDeadline ==
    \A i \in ConsentIDs :
        consents[i] # Nil =>
            /\ consents[i].status = "pending" <=>
                 consents[i].status \in ActiveStatus /\ consents[i].pendingExpiresAt # Nil
            /\ consents[i].status = "approved" => consents[i].grantExpiresAt # Nil
            /\ consents[i].status = "rejected" => consents[i].pendingExpiresAt = Nil

\* What the owner was asked is what stays on record: no write, and no Save of
\* a copy read earlier, changes whose consent it is, for which application,
\* for which fields or for how long, and no record disappears.
Request(row) == <<row.id, row.owner, row.app, row.fields, row.duration>>

RequestIsImmutable ==
    [][\A i \in ConsentIDs : consents[i] # Nil =>
          consents'[i] # Nil /\ Request(consents'[i]) = Request(consents[i])]_vars

\* No write of a stale copy brings a consent back: what left "pending" never
\* returns to it, and "approved" is entered only from "pending".
NoReactivation ==
    [][\A i \in ConsentIDs : consents[i] # Nil =>
          /\ consents'[i].status = "pending" => consents[i].status = "pending"
          /\ consents'[i].status = "approved" => consents[i].status \in ActiveStatus]_vars

\* A grant never outlives the request by more than its duration: it starts at
\* the approval, and the approval was checked against the pending deadline
\* even when its UPDATE is delayed past that deadline.
GrantWithinRequest ==
    [][\A i \in ConsentIDs :
          consents[i] # Nil /\ consents[i].status = "pending"
                            /\ consents'[i].status = "approved" =>
             consents'[i].grantExpiresAt
                <= consents[i].pendingExpiresAt + consents[i].duration]_vars

\* A caller of the portal API never changes a consent that belongs to somebody
\* else, not even by the expiry a read or a refused action may write.
PortalTouchesOwnConsents ==
    [][\A r \in Requests :
          call[r] # Nil /\ call[r].op \in PortalOperations /\ pc'[r] # pc[r] =>
             \A i \in ConsentIDs : consents'[i] # consents[i] =>
                 i = call[r].id /\ consents[i].owner = call[r].caller]_vars

\* POST answers "approved" only for a consent of that owner to that
\* application for exactly the requested fields, whose owner's approval won
\* and whose grant had not run out when it was read.
ServedFromGrant ==
    [][\A r \in Requests :
          pc[r] # "idle" /\ reply'[r] = "approved" /\ call[r].op = "create" =>
             \E i \in ConsentIDs :
                /\ consents[i] # Nil
                /\ SamePair(consents[i], call[r].owner, call[r].app)
                /\ consents[i].fields = call[r].fields
                /\ wins[i]["approve"] = 1
                /\ copy[r].id = i /\ copy[r].grantExpiresAt >= readAt[r]]_vars

\* Row locks and waiting inserts never block each other for good: a request
\* in flight is answered, unless it meets the bound on records.
OutOfIds(r) == pc[r] \in {"build", "revoke"} /\ built = MaxConsents

EveryRequestAnswered ==
    \A r \in Requests : (pc[r] # "idle") ~> (pc[r] = "idle" \/ OutOfIds(r))

\* The engine implements the ledger of ConsentLifecycle: every statement of
\* every request is one of its steps, or none.
LedgerStatus ==
    [i \in ConsentIDs |-> IF consents[i] = Nil THEN "none" ELSE consents[i].status]

LedgerParty ==
    [i \in ConsentIDs |-> IF consents[i] = Nil THEN Nil
                          ELSE <<consents[i].owner, consents[i].app>>]

Lifecycle ==
    INSTANCE ConsentLifecycle WITH
        Parties <- Owners \X Apps, NoParty <- Nil,
        status <- LedgerStatus, party <- LedgerParty

ImplementsLifecycle == Lifecycle!Spec

-----------------------------------------------------------------------------
(* What the documentation says and the code does not do.                   *)

\* CONSENT_LIFECYCLE.md:54: the expiry write "is conditional on the status
\* that was read, so a concurrent decision is never overwritten".
DecisionNeverOverwritten ==
    [][\A i \in ConsentIDs :
          consents[i] # Nil /\ consents'[i].status = "expired"
                            /\ consents[i].status # "expired" =>
             Stale(consents[i], now)]_vars

\* models/consent.go:13: "The most recently created record should have status
\* 'pending' or 'approved' (if active)".
LatestIsActive ==
    \A i, j \in ConsentIDs :
        /\ IsActive(i)
        /\ consents[j] # Nil /\ SamePair(consents[j], consents[i].owner, consents[i].app)
        => j <= i

\* CONSENT_LIFECYCLE.md:22: POST "is idempotent per (ownerId, appId)": the same
\* request again gets the consent, it does not fail.
CreateIsIdempotent ==
    [][\A r \in Requests :
          pc[r] = "insert" /\ reply'[r] = "error" =>
             \/ UniqueActive(consents, draft[r])
             \/ \E i \in ConsentIDs :
                   /\ IsActive(i)
                   /\ SamePair(consents[i], draft[r].owner, draft[r].app)
                   /\ consents[i].fields # draft[r].fields]_vars
=============================================================================
