# OpenNDX Core in TLA+

This directory holds the formal model of OpenNDX Core: TLA+ modules for its
services, TLC configurations that check them on small instances, and theorems
proved with TLAPS for every value of the constants. Paths in this document and
in `PROJECT.json` are relative to the repository; `src/` stands for its root.

    tlc -workers 2 -config ConsentEngine.cfg MCConsentEngine     # model-check
    tlapm ConsentEngineSafety.tla                                # check proofs

Contents: [the system](#the-system), [the Consent Engine](#the-consent-engine),
[the Policy Decision Point](#the-policy-decision-point),
[the application saga](#the-application-saga),
[the schema saga](#the-schema-saga),
[all or nothing](#all-or-nothing),
[the Orchestration Engine](#the-orchestration-engine),
[token verification](#token-verification),
[the ondx client](#the-ondx-client),
[runs](#runs), [proofs](#proofs), [disagreements](#where-code-and-documents-disagree),
[limits](#what-is-not-modelled), [plan](#plan).

## The system

A consumer application asks the **Orchestration Engine** (OE) a GraphQL query
over a unified schema. The OE asks the **Policy Decision Point** (PDP) whether
the application may read each field, and the **Consent Engine** (CE) whether
the data owner agrees. Then it fetches the fields from the data providers and
merges them. The **Portal Backend** (PB) is where members register schemas
and applications; it tells the PDP which fields exist and who was granted
them. Owners decide about consents through the CE's portal API.

    consumer --query--> OE --decide--> PDP <--metadata, grants-- PB <--portals
                        |                                        |
                        +--consent--> CE <--decisions-- owner    +--> identity provider
                        +--fetch--> providers

Each service is a Go HTTP server. A request runs in a goroutine of its own,
the services keep no locks between requests, and every instance of a service
shares one PostgreSQL database. So what orders two requests is the database:
unique indexes, row locks, conditional updates and transactions at READ
COMMITTED. Between services there are plain HTTP calls with timeouts and no
retries.

### Inventory

| Component | State | Operations | What is hard | What makes it correct |
|---|---|---|---|---|
| **Consent Engine** `internal/ce` | `consent_records` | create or get a consent (OE); view, approve, reject, revoke, list (portal); lazy expiry on every read | stale copies saved back, racing decisions, racing creates, deadlines passing between read and write | one active consent per owner and application; one decision wins; nothing terminal comes back; a grant stays within what was asked |
| **Policy Decision Point** `internal/pdp` | `policy_metadata` with its allow-lists | sync a schema, grant, revoke, patch, delete (PB); decide (OE) | read-modify-write of a JSON map, reads without locks, several rows per grant, lock order, recreated fields | no grant lost or half made; an answer is true; only unexpired grants let an application through |
| **PB applications** `internal/pb/application` | `applications`, `application_submissions`; an account in the identity provider; entries in the PDP | create, update, update policy, submit, review | a saga over three systems with compensation, lost answers, crashes, callers that hang up, reviews that race | a successful creation has account, row and grants and keeps them; what a failed one leaves behind has a known cause; an approved submission has its application |
| **PB schemas** `internal/pb/schema` | `schemas`, `schema_submissions`; metadata in the PDP | create, update, submit, review | two systems written one after the other, syncs that arrive after the client gave up, ids that creators choose, owners checked once | a stored schema has its policy metadata; what a failed creation leaves behind has a known cause; nobody changes another member's schema |
| **PB members, caller** `internal/pb/member`, `internal/pb/caller` | `members`, each linked to an organization unit that exists in the identity provider | create, update, resolve the caller | racing creates for one unit, load and save of a whole row | one member per organization unit (a unique index) |
| **PB clients** `internal/pb/idp`, `internal/pb/policy` | token cache | create or delete an account; metadata and grants | 10 s timeout after which the call may still have had its effect | a reported failure is treated as unknown |
| **OE federator** `internal/oe/federator` (with `consent`, `policy`, `provider`) | none kept between requests | plan, authorize, check consent, fetch, merge | concurrent fetches into one result map; permission checked before the fetch; fields that share a fetch, lists, aliases and fragments | nothing is fetched without decision and consent; the answer is what the providers said, at the right path |
| **Token verification** `internal/authn` | JWKS cache (5 min) | verify a bearer token, refetch the keys | key rotation, shared refetches under a lock, claims decoded twice | a token of a current key is accepted, none of one long retired; what is read of a token is what was validated |
| **ondx CLI** `cmd/ondx`, `internal/cli` | a configuration file, a credentials file per profile or as named | log in, refresh, call the portal API, set and switch profiles | commands that run at once, refresh tokens that are replaced when used, files written while read, a profile whose provider is changed | a token goes to the file its login was for; a cached session is not lost |
| **Audit middleware** `internal/*/middleware` | none | fire-and-forget events | must not delay or fail a request | no effect on the services |
| **Mains, config, logging, monitoring** | none | wiring | - | - |
| **Portals** (TypeScript), docs, deployment | in the browser | presentation | - | - |

Interactions: OE calls CE (`POST`, `GET /internal/api/v1/consents`) and PDP
(`POST /policy/decide`); PB calls the identity provider and PDP
(`POST /policy/metadata`, `POST /policy/update-allowlist`); the consent portal
calls CE with the owner's token. No service calls back.

`PROJECT.json` lists the components with their files, and under `hazards` each
place in the code where one of these things could go wrong, with the
properties that would catch it.

## Modules

| Module | What it is |
|---|---|
| `ConsentEngine` | the Consent Engine: table, requests, clock; its properties |
| `ConsentLifecycle` | abstract: a ledger of consents that the engine implements |
| `MCConsentEngine` | instances of `ConsentEngine` for TLC |
| `ConsentEngineProofs` | base invariant and type correctness |
| `ConsentEngineSafety` | the inductive invariants, the safety theorems, and that the engine implements `ConsentLifecycle` |
| `PolicyDecisionPoint` | the Policy Decision Point: table, transactions, decision; its properties |
| `AllowLists` | abstract: a ledger of grants that the table implements |
| `MCPolicyDecisionPoint` | instances of `PolicyDecisionPoint` for TLC |
| `PolicyDecisionPointProofs` | the inductive invariant; absence of deadlocks among grants, truth of answers, soundness of decisions; the table implements `AllowLists` |
| `ApplicationSaga` | the Portal Backend's applications and submissions over identity provider, database and PDP; its properties |
| `MCApplicationSaga` | instances of `ApplicationSaga` for TLC |
| `ApplicationSagaProofs` | the inductive invariants and the theorems; the saga implements `Creation` |
| `SchemaSaga` | the Portal Backend's schemas and submissions over database and PDP; its properties |
| `SchemaSagaProofs` | the inductive invariants and the theorems; the saga implements `Creation` |
| `Creation` | abstract: a creation over several systems that is all or nothing, which both sagas implement |
| `QueryPlan` | pure: how a query is normalised and planned as fetches |
| `ResponseMerge` | pure: how providers' answers become one response; `Direct`, the reference for it |
| `FederatedResponse` | one query from its text to its response, over those two; its properties |
| `FederatedRequest` | concurrent requests among changing grants and consents, over `AllowLists` and `ConsentLifecycle`; its properties |
| `FederatedRequestProofs` | the inductive invariant and the release rule |
| `TokenClaims` | pure: how a token's claims are decoded, validated and read |
| `TokenVerifier` | the key cache under rotation, the verification of a token; its properties |
| `TokenVerifierProofs` | the inductive invariant and the theorems |
| `OndxClient` | concurrent commands over their files and token endpoints; its properties |
| `OndxClientProofs` | the inductive invariant and the theorems |
| `MCSchemaSaga`, `MCFederatedQueries`, `MCFederatedRequest`, `MCFederatedResponse`, `MCTokenVerifier`, `MCOndxClient` | instances for TLC; `MCFederatedQueries` has the example schema, its providers' data and the queries |

In the modules of the two database services an action is one database statement with the local
computation around it, or the statements of one transaction after which
another request can first observe something. A row that was read stays in
`copy[r]` and may be stale when it is used. `FailStatement` and `Abort` stand
for any statement that fails and for a cancelled request context: the
transaction is rolled back and the request answered with an error. Operators
commented *Mutant of ...* or *A plausible bug*, and the others named under `mutants` in
`PROJECT.json`, are used by no action; replacing the original by them shows that a
property depends on that code.

               Creation
           ^              ^
           | refine       |
    ApplicationSaga   SchemaSaga          TokenVerifier         OndxClient
           |              |                 TokenClaims
           v              v
    PolicyDecisionPoint          ConsentEngine
           | refines                  | refines
      AllowLists               ConsentLifecycle
           ^------- FederatedRequest ------^
                          ^ plans of
      QueryPlan <- ResponseMerge <- FederatedResponse

The sagas call the services below them only in words: they take of the PDP that a
grant reaches all its fields or none, which is what `AllowLists` says, and that a sync
stores its records, which holds when no other sync of the same schema runs at the same time (item 5 of
the [disagreements](#where-code-and-documents-disagree)). The federator is composed with the two services through
their abstract specifications, so it holds for whatever implements them.

## The Consent Engine

| TLA+ | Code (`internal/ce/services/consent_service.go` unless said otherwise) |
|---|---|
| `consents[i]` | the row of `consent_records` with that id; ids are numbered in the order of `created_at` |
| `built` | how many records `buildConsentRecord` has stamped |
| `pc[r]`, `call[r]`, `copy[r]`, `readAt[r]`, `draft[r]` | where a request is, its parameters, the row it loaded and when, the record it built |
| `reply[r]` | the answer given in the last step |
| `wins[i]` | history: portal decisions the database took; read by properties only |
| `UniqueActive`, `InsertWaits` | `idx_consent_active_unique` in `cmd/ce/schema.sql`: an insert that conflicts with an uncommitted row waits |
| `CreateConsent`, `GetConsent` | the load of `CreateConsentRecord` and of `GetConsentInternalView` |
| `SaveExpired`, `UseLoaded` | the full-record `Save` of a copy found expired; the choice between answering, building and replacing |
| `BuildConsent`, `InsertConsent` | `buildConsentRecord` and the insert |
| `BeginReplace`, `RevokeExisting`, `CommitReplace` | the transaction of `revokeAndCreateConsent` |
| `PortalRequest`, `PersistExpiry`, `Reload`, `ViewConsent`, `RefuseAction`, `DecideConsent` | the portal's view and decisions with their conditional updates |
| `ListConsents` | `ListConsentsByOwner`, with the expiry of the whole list, as one step |
| `Abort`, `Tick` | a failed statement or a cancelled request; time |

Properties, with what would break them:

* `OneActiveConsent`: two creates that both found nothing, or a replacement
  that revoked nothing.
* `ExactlyOneWins`: an update not conditional on the status.
* `ExpiredPastDeadline`: a premature expiry by any of the four expiry writes.
* `DecisionClearsDeadline`: a stale `Save` that brings a deadline back.
* `RequestIsImmutable`, `NoReactivation`: a stale `Save` that changes what was
  asked for or reopens a consent.
* `GrantWithinRequest`: an approval that is delayed past its deadline and
  counts from then on.
* `ServedFromGrant`: `POST` answering "approved" without a live grant for
  exactly those fields.
* `PortalTouchesOwnConsents`: lazy expiry caused by a caller who does not own
  the record.
* `ImplementsLifecycle`: any write that is no step of the documented life
  cycle, in particular a half replacement.
* `EveryRequestAnswered`: a transaction and an insert that wait for each other.

`ConsentLifecycle` has one action that `CONSENT_LIFECYCLE.md` has not,
`Relabel`: the two unconditional `Save`s can change *which* terminal status a
consent shows.

## The Policy Decision Point

| TLA+ | Code (`internal/pdp/services/policy_metadata_service.go` unless said otherwise) |
|---|---|
| `rows[k]`, `defined[k]` | the row of a field (`schema_id, field_name` is a unique index); how many rows the field has had, which numbers its ids |
| `call[r]`, `copy[r]` | a request and the rows it read |
| `plan[r]`, `aim[r]` | what its transaction has left to touch; what it touches next, chosen freely where the statements leave the order open |
| `locks[r]`, `inserted[r]` | rows it has locked; fields it has inserted and not committed |
| `stamp[r]` | the expiry a grant computed; when a decision read its rows |
| `verdicts[r]`, `reply[r]` | outcomes of the fields evaluated so far; the answer of the last step |
| `SyncMetadata`, `TouchRow`, `InsertRow`, `CommitSync` | `CreatePolicyMetadata`: the read without locks, the deletes and updates, the inserts, the commit |
| `UpdateAllowList`, `LockForGrant`, `CommitGrant` | `UpdateAllowList`: `SELECT ... FOR UPDATE` row by row in its `ORDER BY`, then all fields or none |
| `RevokeAllowListEntry`, `CommitRevoke` | the locked read and the write of the list without the entry |
| `PatchPolicyMetadata`, `WritePatch` | a read and an update in no transaction |
| `DeletePolicyMetadata` | one statement |
| `GetPolicyDecision`, `DecideField`, `AnswerDecision` | one read, then each field at the time the clock shows then |
| `Decide`, `DecisionFlags` | the Rego router and classes in `internal/pdp/engine/policies`; the flags of the response |
| `WaitsFor`, `BreakDeadlock` | PostgreSQL: who waits for whom, and the deadlock detector |

A row changes its id when its field is deleted and defined again; statements by
id, and statements that waited for a row, then no longer find it (`SameRow`).

Properties, with what would break them:

* `ImplementsAllowLists`: a sync that saves the allow-list it read earlier, a
  grant or revocation on a stale map, a grant that reaches only some fields.
* `SuccessMeansStored`: a grant answered with success although a field was
  removed between its locks.
* `DeadlockNeedsSync`: grants that lock their rows in different orders. With
  the `ORDER BY` only a sync can be part of a deadlock (it deletes, inserts and
  updates in an order of its own; `UpdateAllowList` then fails with 500 and
  nothing granted).
* `LetThroughOnlyWhenGranted`: a response that authorizes without consent
  although some field has no grant, an expired one or another class.
* `EveryRequestAnswered`: a transaction left open.
* `TypeOK` also says that no row has a class the engine has not loaded, which
  the sync and the patch must both ensure.

## The application saga

One action is one call to one of the three systems, or a statement of a
request. A call ends in one of three ways (`Ends`): *done*; *refused*, an error
and no effect; *lost*, an error although it took effect (a timeout, a broken
connection, an answer that cannot be parsed). A call that carries the context of
the HTTP request is refused once the caller has hung up; four do not carry it
(`Detached`).

| TLA+ | Code (`internal/pb/application/service.go` unless said otherwise) |
|---|---|
| `accounts`, `assigned` | the applications in ThunderID, and those with the data-consumer role |
| `granted[c]` | the fields the PDP lists for client `c`; `UpdateAllowList` adds all fields of a call or none, which is what `PolicyDecisionPoint` is shown to do |
| `applications[n]`, `submissions[s]` | the tables; an account that the service makes is named after its application |
| `task[r]`, `hungUp` | what a request is doing and the row it holds a copy of; cancelled contexts |
| `order[n]`, `confirmed`, `mishaps[n]`, `strained` | history: what was asked for, which creations reported success, the faults of each creation, submissions whose review failed to save, crashed or overlapped; read by properties only, except that `order[n]` is also the request body the creation works from |
| `CreateApplication` | the start of `CreateApplication`: own account or a client provisioned outside |
| `CreateAccount`, `AssignRole`, `DiscardAccount` | `CreateApplication` of `internal/pb/idp/thunderid/client.go` and its `deleteAfterFailure` |
| `InsertApplication`, `GrantFields` | the insert and the call of `UpdateAllowList` |
| `DeleteApplication`, `DeleteAccount` | the compensations: the row without a context, the account with the request's |
| `UpdateApplication`, `UpdateApplicationPolicy`, `RegrantFields`, `SaveApplication` | load, ask the PDP, `Save`. GORM's `Save` inserts the row again when the update finds none |
| `CreateApplicationSubmission` | the insert, with the look-up of the previous application |
| `UpdateApplicationSubmission`, `SaveSubmission`, `ReopenSubmission` | load and change a copy; save it, then create the application when the request says `approved`; save the copy as `pending` when that failed |
| `Referenced`, `Storable` | the foreign key `previous_application_id` in `cmd/pb/schema.sql` |
| `HangUp`, `Crash` | a caller that goes away; the process stops, and nothing is resumed |

Properties, with what would break them:

* `ConfirmedIsComplete`: a failed role assignment or grant that is taken for
  success; a compensation that deletes what belongs to another creation; an update
  that writes another client over a row.
* `SelectedFieldsGranted`: an update that saves its row before, or without, the
  PDP's consent, or racing updates whose stale copies get ahead of the PDP.
* `ProvisionedKept`: a compensation that deletes a client it did not make.
* `NoStrayAccount`, `NoStrayRow`, `NoStrayGrant`: a failure path that forgets one of the
  systems. They name the only causes after which something stays: the call was lost, the
  call that should have undone it failed, a late `Save` brought the row back, or
  the process crashed. Nobody takes a grant back, so one stays when its own answer was
  lost, and also when an update of the policy found the row of a creation that then failed and
  asked the PDP for fields of its own (`RegrantFields`).
* `ApprovedHasApplication`: a failed creation that leaves its submission approved.
* `ImplementsCreation`: see [all or nothing](#all-or-nothing).

## The schema saga

Like the application saga, with two systems. A call may besides be *late*: the
client has given up after its 10 s, and the PDP stores the records at some
moment after that, or never.

| TLA+ | Code (`internal/pb/schema/service.go` unless said otherwise) |
|---|---|
| `schemas[x]`, `submissions[s]` | the tables; of an SDL the fields it has records for, or that it does not parse (`Garbled`) |
| `metadata[x]`, `late` | the records the PDP holds; those on their way that nobody waits for |
| `task[r]`, `drawn` | what a request is doing; random ids already used |
| `outlived`, `confirmed`, `mishaps`, `strained` | history, read by properties only |
| `CreateSchema`, `InsertSchema`, `SyncMetadata`, `DeleteSchema` | `CreateSchema` with `sdl.go` and the compensating delete, which the foreign key may refuse |
| `UpdateSchema`, `LoadSchema`, `SaveSchema` | the update and its `Save`, after the handler's look at the owner (`handler.go`) |
| `AlterRecord`, `ListMetadata`, `CallMetadata` | the metadata endpoints: the caller is checked, the list is read, one record is patched or deleted |
| `CreateSchemaSubmission`, `UpdateSchemaSubmission`, `SaveSubmission`, `ReopenSubmission` | as in the application saga |
| `LateSync`, `Crash` | a sync that arrives after all; the process stops |

Properties, with what would break them:

* `ConfirmedInStep`: an answer other than 201 taken for success (the mutant
  `SyncUnchecked`); a failed creation of the same id that undoes somebody else's.
* `NothingStray`: a failure path without its compensation; records of a schema
  without a row.
* `ApprovedHasSchema`: a failed creation that leaves its submission approved.
* `ChangedForOwner`: a handler that does not ask for the owner, or asks for the wrong one.
* `ImplementsCreation`: see [all or nothing](#all-or-nothing).

The properties name their exceptions, and the model shows that each of them is real.
An update of the SDL is never sent to the PDP (`UpdateSchema`), though
`cmd/pb/README.md:3` says that the backend "keeps the Policy Decision Point and the
identity provider in step with what it stores". A `Save` of a copy loaded before
a compensating delete inserts the row again, or makes an id
that was taken by another member change hands. A late sync restores old records.

## All or nothing

`Creation` says what both sagas promise: a creation is asked for, is under way, and ends once,
complete or failed. Complete, all its parts are there, and stay; failed, none is, but for what
a mishap left. The mapping reads each state of a saga as follows.

| `Creation` | Applications | Schemas |
|---|---|---|
| `phase[n]` | *complete* in `confirmed`; else *underway* while a request works on it, from the review that will start it to the last compensation; else *closed* or, not asked for yet, *open* | the same; a failed creation with a chosen id is *open* again (`Reusable`), one with a drawn id is *closed* |
| `there[n]` | account, row and grants; once complete, those that are as asked for: the role assigned, the row for that client, every field asked for granted | row and records; once complete, the row of the member who asked and the records of the row's fields |
| `mayStay[n]` | the parts with a mishap in `KeepsAccount`, `KeepsRow`, `KeepsGrant` | a row by `KeepsRow`, records by a late sync |
| `mayDrift[n]` | nothing: whatever happens, a complete application stays whole | a row that changed hands, records out of step (`OutOfStep`) |
| `Returning` | row and grants, by updates that loaded the row before it was deleted; never an account | row and records, by late saves and late syncs |

What `ImplementsCreation` adds to the invariants is order. A creation that was
answered with success is never taken back, not even by the compensation of another with the same id or
client. One that failed is never resumed (the mutant `TryAgain` starts it again where its submission
should be reopened). A failed
creation ends in one step with nothing there but what a mishap explains, not some time later; and
when two creations choose one id the second, which the primary key refuses, undoes nothing of the first
(the mutant `InsertOrUndo`). A single step may concern every creation, because a
crash ends all that are under way, so `Next` quantifies over the ids.

## The Orchestration Engine

A request is taken apart in two ways. `FederatedResponse` follows one query
through the pure code and asks whether the answer is right. `FederatedRequest`
follows several requests through their calls and asks what they may release; the
plans are constants there, and an assumption of `MCFederatedRequest` compares
them with what `QueryPlan` computes.

| TLA+ | Code (`internal/oe/federator` unless said otherwise) |
|---|---|
| `Schema`, `Possible`, `Mappings`, `OwnerArg` | the compiled schema with its `@sourceInfo` directives, fragment conditions, the configured argument mappings and owner argument |
| `CollectFields`, `NormalFields`, `Build` | `operation/`: fragments, `@skip` and `@include`, merged selections, coerced arguments |
| `DataOwnerID`, `BindArguments`, `PlanField`, `FetchFor`, `BuildPlan` | `plan.go`: one fetch per provider schema and equal arguments |
| `MergeObject`, `MergeField`, `Merge` | `merge.go`: values by path, lists, null propagation, providers' errors |
| `DirectResponse` | nothing: each field read from its own provider by itself, nulls propagated as GraphQL prescribes |
| `Normalise`, `MakePlan`, `Respond` | the stages of `FederateQuery` (`federator.go`) |
| `End`, `Lose` | the result of a fetch; an entry of the shared map that is lost |
| `now`, `lists` | the grants, by `AllowLists` |
| `status`, `party`, `covers` | the consents, by `ConsentLifecycle`, and the fields of each |
| `task[r]` | a request; `granted` and `agreed` are history |
| `Receive`, `Deny`, `Permit` | `FederateQuery` up to the plan; `checkPolicy` (`access.go`), while the PDP reads its lists one after the other |
| `Reuse`, `Request`, `Unasked` | `checkConsent` with what `POST` does at the consent engine |
| `Launch`, `StartWrite`, `EndWrite`, `Store`, `Crash` | `execute.go`: the launching loop, its write without the lock, the goroutines |
| `Respond` | the merge and the answer |

Properties, with what would break them:

* `ReleasedWithinRequest`: a check left out or made for other fields; a fetch before the
  checks. It does not say that the grant holds at the moment of the fetch: it need not,
  and the model has the revocations in between.
* `EveryRequestAnswered`: a goroutine that is waited for in vain.
* `ResponseIsDirect`: fields with different arguments that share a fetch; a value put under
  another alias or list item; a null that does not propagate, or too far.
* `OnlyPlannedData`: a response that holds data of another owner, or a field that no check was made for.

Together: what a consumer sees is about the owner who was asked, and was granted and, where
needed, agreed to since the request came in. `OnlyPlannedData` says that a response holds
only provider fields of the plan, `ReleasedWithinRequest` that the plan's fields
were let through, and the assumption of `MCFederatedRequest` that it is the same plan.

Seen in the model, and neither a promise broken nor kept: a field all of whose
sub-selections are skipped is treated as a leaf; a list of which only
`__typename` is selected asks its provider for nothing; the branch "No valid service
queries" cannot be reached with a PDP, which refuses a decision over no fields
(`internal/pdp/handler/handler.go:166`).

## Token verification

| TLA+ | Code (`internal/authn`) |
|---|---|
| texts and JSON values | what the code tells apart: the words of a string and whether blanks surround it, numbers, arrays, objects, null |
| `Bound`, `Typed`, `Decodes` | the typed decoding (`claim_decode.go`): `encoding/json` binds a name whatever its capitals, the last of those that fit; two names that are the same claim are refused |
| `PayloadMap`, `ValidatedClaims`, `CanonicalClaimName` | the second decoding into a map, the names and values brought into form |
| `Validated` | issuer, audience, times with leeway, required claims, roles |
| `AuthContext`, `ConsumerFromContext`, `OwnerSubject`, `HasScope` | the accessors of the four services |
| `cache`, `fetchedAt`, `holder` | the cached key set, the time of its fetch, who holds the write lock |
| `published`, `retired` | the provider's key set; when a key left it |
| `Arrive`, `ReadCache`, `Acquire`, `AnswerFetch`, `StoreKeys`, `FailFetch`, `LookUp` | `token_parser.go`: the read under the read lock, the fetch under the write lock, the forced fetch for an unknown key |
| `Verify` | signature, claims and what is put in the context |

Properties, with what would break them:

* `FreshKey`: a cache that is dated with the end of the fetch, or never expires.
* `KnownKeyAccepted`: a forced fetch that is left out because somebody else's fetch,
  which may have begun before the rotation, filled the cache.
* `PrincipalIsValidated`: a claim that is validated under one spelling and read under another.

A signature is a flag of the token, and a key id stands for one key: an id reused for new
key material is not fetched again until the cache expires. Every unknown key id
forces a fetch; there is no negative cache. A subject of blanks passes, since only
the empty text is refused.

## The ondx client

| TLA+ | Code (`cmd/ondx/main.go`, `internal/cli`) |
|---|---|
| `config`, `cached[f]` | `config.json` with the profiles and the client each one's settings name; the credentials file `f`; `Torn` when it does not parse |
| `Clients` | registrations at identity providers: issuer or endpoints, client id, callback port that fit together |
| `issued`, `live`, `gone` | the logins and the refresh tokens that replaced others, numbered, each with the login it goes back to: client, file, whether it brought a refresh token; refresh tokens that are accepted; those ended or lost. An access token is known by its login's number |
| `given[f]` | history: the clients that file `f` was given, by the settings of its profile or by a login's flags |
| `task[c]` | a command: its step, client, file, tokens in hand |
| `ProfileUse`, `ProfileSet`, `OpenConfig`, `WriteConfig` | load, change and save, in two steps as `os.WriteFile` does; `profile set` may name another client (`--issuer`, `--auth-url`, `--token-url`, `--client-id`) or leave none that fits, and leaves the credentials file alone |
| `ResolveActiveProfile`, `ClientOf`, `FileOf` | the named or the current profile; the client told by flags or `NDX_ISSUER`, `NDX_TOKEN_URL`, `NDX_CLIENT_ID` or the profile's; `--credentials-path` or the profile's own file |
| `RunLogin`, `RunRequest` | a command starts: client and file are fixed from here on |
| `Listen`, `Callback`, `TakeCallback`, `ExchangeCode` | `auth/login.go`: the callback's server, the first result counts, code and verifier; the answer holds a refresh token or none |
| `LoadToken`, `RefreshToken`, `ReceiveToken`, `KeepRefresh` | `auth/resolve.go` and the refresh, at the endpoint and client the token records |
| `OpenCache`, `WriteCache`, `FailWrite`, `Send`, `Fail` | saving the token; the request; any failure or kill |

Properties, with what would break them:

* `OwnProvidersToken`: what a file keeps, and a command that works with it holds, goes back to a login
  for this file, at a client the file was given. Broken by a token saved for the profile that
  is current when the login ends, instead of in the file the login chose.
* `SessionKept`: a refresh token on file was issued to the client the token records, and is accepted, or lost, or a
  command has its successor; a token has none only when its login brought none. Broken by a refresh that forgets
  the refresh token it used when the answer has none.

`cmd/ondx/README.md:119` says that "switching profiles never reuses another provider's token". That is
what `OwnProvidersToken` keeps, and no more: a file is its profile's, not its provider's.
`profile set` may name another provider for a profile whose file keeps the former one's token
(`main.go:306-313`), and a login told another issuer saves to the profile's file
(`main.go:347-353`), as does a command of another profile with `--credentials-path`. The
next commands send that token to the profile's backend, and refresh it where it came from,
until a login replaces it; all of this the runs do.

`cmd/ondx/README.md:15` says "you log in again only when the refresh token expires". With a
provider that replaces refresh tokens, of two commands that refresh at once the second is refused
and tells the user to log in, and an answer or a save that fails loses the successor: `gone` is the exact
exception in `SessionKept`. A login whose answer holds no refresh token has to be repeated when its access
token expires (`login.go:237-239`). Two concurrent `profile set` lose one update
(`README.md:119`: "changes only the flags you pass"), a refresh may overwrite a newer login, and
a command killed while it writes `config.json` makes every later one fail until the file is removed
(`RemoveConfig`).

Whether an access token has expired is a free choice at each load: the clock decides, and may be set back. A
login at settings that do not fit one registration (one provider's code at another's token endpoint, a client id it
does not know) is refused by the provider and brings no token; the model starts none, and `Fail` ends one
at any step.

## Runs

| Run | Instance | States | Shows |
|---|---|---|---|
| `ce_safety` | 2 requests of every kind, 2 records, 2 field lists, owner and stranger, 1 tick | 338,757 | every safety property of the engine and the refinement |
| `ce_answers` | 2 requests, 3 records, creates and approvals | 55,181 | every request is answered |
| `ce_doc_expiry` | as above, small | until the violation | a sentence of the document that the code does not keep |
| `pdp_grants` | 2 requests out of 13 writing calls, 2 fields, each defined up to twice, 2 applications | 358,445 | the refinement, the truth of answers, deadlocks |
| `pdp_answers` | 2 requests out of syncs, grants, patches and decisions, 1 tick | 102,857 | decisions and answers |
| `app_saga` | 2 requests of every kind, 2 creations, 1 submission, 1 client provisioned outside, 1 fault of any kind at any point | 1,615,494 | every safety property of the saga and the refinement |
| `schema_saga` | 2 requests at a time and 4 in all, a chosen and a random id, 2 members and an operator, 2 fields, 1 fault | 1,540,565 | every safety property of the saga and the refinement |
| `oe_request` | 2 requests, 8 queries over 3 schemas (one without a provider), 2 owners, 3 consents, grants that expire, any call may fail | 64,677 | the release rule; every request is answered |
| `oe_response` | the example queries and all pairs of selections, up to 4 fetches, each whole, partial or failed | 69,310 | the answer is the direct evaluation and holds nothing else |
| `oe_doc_race` | the same, one entry of the map lost | until the violation | a sentence of a comment that the code does not keep |
| `token_keys` | 2 requests, 3 keys (one unusable), rotations, lifetime 2 in 3 ticks, tokens with padded, misspelled, duplicate, missing and ill-typed claims | 1,135,449 | every property of the verifier |
| `cli_session` | 2 commands at once, 2 profiles and their files, each open to the other by flag, 2 clients, one with rotation and a pinned port, 2 logins or a login and a replaced refresh token, any number of refreshes without replacement, changed settings and failures | 5,376,080 | tokens stay in the files they were for, and sessions are kept |

Why these bounds are enough to be interesting. Every race in this code is
between two requests: one reads, the other commits, the first writes. Slots
are reused, so a long history of requests precedes any pair. Two records per
pair allow a replacement with the old record still there; the third one in
`ce_answers` lets two requests replace at once. Deadlines lie within one tick
(`WithinTheTick`): a deadline computed now has passed after the next tick,
which is all that comparisons can tell, and in `ConsentEngineDocExpiry.cfg` (`OneTick`)
one lies a tick ahead. Two fields in a schema are the least for which a grant
can be partial and lock orders can differ; two definitions of a field are the
least for which an id can be stale. `MaxConsents`, `MaxRows` and `MaxTime` are
guards of `BuildConsent`/`BeginReplace`, `InsertRow` and `Tick`; the theorems hold for
any value of them.

In the saga, two creations and an outside client let one creation undo while another has
succeeded with the same client, and two slots let an update or a review run into a
compensation. Ids are not used twice, so `Applications` and `Submissions` bound how many are
drawn. `MaxFaults` is one: each property is about what a single fault can leave. A fault
can also make the compensation fail by itself (a hang-up fails every later call of the
request, a submission that refers to the row makes its delete fail), and those
failures are not counted. What more of them can do together the theorems answer, which hold for any
`MaxFaults`.
In `schema_saga` four requests are the least for which an id is
created, deleted, taken by another member and then hit by a copy of the first.

In `oe_request` the queries are the shapes of plans there are: one fetch or several, with and
without consent, with a schema that has no provider after, before or between others, with
nothing to read, and refused. Two requests of one application about one owner replace
each other's consents; three consents let that happen twice. A consent has a set of fields; that a
list in another order is taken for another one is a choice in `Differs`. In `oe_response` the
pairs of selections put any two fields of the example schema under one query, which is where sharing,
aliases and argument bindings meet. In `token_keys` time has the distances that the code
compares: inside the lifetime, at its end and after it. In `cli_session` two files
let tokens get into the wrong one; logins may be told `other` (`Told`), and `site` is created
with either client and changed to the other (`Settings`). `MaxTokens` counts logins and the refresh tokens that
replace others. Two of them are two logins, at one provider or at two, into one file or two, or a login and the
successor of its refresh token, while a second command still holds the one that was spent. A refresh at a provider that
replaces none (`other`) uses no number, so two logins there may be refreshed, together, any number of times. `Settings`,
`Told` and `MaxTokens` are guards of `Next`, `RunLogin`, `ExchangeCode` and `RefreshToken`; the theorems hold
for any values of them, for any number of commands, and for files that are no profile's own.

The type invariants of the sagas and of the federator are in no run: they are theorems
(`TypeCorrect`). The shapes that the verifier and the client rely on are part of their inductive
invariants.

Deadlock checking is on in all runs but those of systems that stop: `schema_saga` bounds how many
requests are started, and in `oe_request`, `oe_response` and `oe_doc_race` each request or query is
answered once.

Symmetry is used in the safety runs, over request slots, field lists, application
ids, members and commands: they are compared and never ordered. The runs with a liveness property use none.

**Fairness.** `ce_answers` assumes weak fairness of `Proceed(r)`: a goroutine is
scheduled and PostgreSQL answers or fails. `pdp_answers` assumes strong fairness of
`Proceed(r)`, because a transaction waiting for a row is enabled and disabled
again as others take the row, and PostgreSQL serves the waiters of a row in
turn, and weak fairness of `BreakDeadlock(r)`, because it looks for deadlocks after
`deadlock_timeout`. Nobody is obliged to send a request, time need not pass,
no statement is obliged to fail, and no request is obliged to be cancelled. `oe_request`
assumes weak fairness of `Serve(r)`: the clients of the PDP and of the CE time out after
10 s, those of the providers after their configured timeout (10 s by default), so every call
returns. The other modules
have no fairness and no liveness property: requests to the sagas and to the verifier and commands
wait for nobody but callers with timeouts, so that each ends says nothing about the code.

## Proofs

Everything is proved from the named assumptions on the constants alone: the bounds are natural
numbers, durations are sets of natural numbers, and `Nil` or `Absent` is none of the values
it is told apart from; accounts made by the service and accounts made by hand are different
(ids are drawn at random); the cache of keys lasts longer than nothing (it is 5 minutes);
each other spelling of a claim's name is one of a single standard claim and is no standard
name itself; the built-in profile is one of the profiles, each of which has a credentials
file that goes by its name. TLC evaluates these assumptions in every run.

| Theorem | States |
|---|---|
| `ConsentEngineProofs!TypeCorrect` | `TypeOK` |
| `ConsentEngineSafety!OneActive` | `OneActiveConsent` |
| `ConsentEngineSafety!OneWinner` | `ExactlyOneWins` |
| `ConsentEngineSafety!DeadlinesMatchStatus` | `DecisionClearsDeadline` |
| `ConsentEngineSafety!RequestsKept` | `RequestIsImmutable` |
| `ConsentEngineSafety!NeverReactivated` | `NoReactivation` |
| `ConsentEngineSafety!ExpiryIsLate` | `ExpiredPastDeadline` |
| `ConsentEngineSafety!GrantsStartInTime` | `GrantWithinRequest` |
| `ConsentEngineSafety!PortalKeepsToItsOwner` | `PortalTouchesOwnConsents` |
| `ConsentEngineSafety!PostServesAGrant` | `ServedFromGrant` |
| `ConsentEngineSafety!Refinement` | `ImplementsLifecycle` |
| `PolicyDecisionPointProofs!TypeCorrect` | `TypeOK` |
| `PolicyDecisionPointProofs!GrantsNeverDeadlock` | `DeadlockNeedsSync` |
| `PolicyDecisionPointProofs!AnswersAreTrue` | `SuccessMeansStored` |
| `PolicyDecisionPointProofs!LetThroughByGrant` | `LetThroughOnlyWhenGranted` |
| `PolicyDecisionPointProofs!Refinement` | `ImplementsAllowLists` |
| `ApplicationSagaProofs!TypeCorrect` | `TypeOK` |
| `ApplicationSagaProofs!Complete` | `ConfirmedIsComplete` |
| `ApplicationSagaProofs!FieldsGranted` | `SelectedFieldsGranted` |
| `ApplicationSagaProofs!Kept` | `ProvisionedKept` |
| `ApplicationSagaProofs!AccountsAccounted` | `NoStrayAccount` |
| `ApplicationSagaProofs!RowsAccounted` | `NoStrayRow` |
| `ApplicationSagaProofs!ApprovalsHonoured` | `ApprovedHasApplication` |
| `ApplicationSagaProofs!GrantsAccounted` | `NoStrayGrant` |
| `ApplicationSagaProofs!Refinement` | `ImplementsCreation` |
| `SchemaSagaProofs!TypeCorrect` | `TypeOK` |
| `SchemaSagaProofs!SystemsInStep` | `ConfirmedInStep` |
| `SchemaSagaProofs!CreationUndone` | `NothingStray` |
| `SchemaSagaProofs!ApprovalsHaveSchemas` | `ApprovedHasSchema` |
| `SchemaSagaProofs!OwnersChange` | `ChangedForOwner` |
| `SchemaSagaProofs!Refinement` | `ImplementsCreation` |
| `FederatedRequestProofs!TypeCorrect` | `TypeOK` |
| `FederatedRequestProofs!ReleasedWithin` | `ReleasedWithinRequest` |
| `TokenVerifierProofs!KeysAreFresh` | `FreshKey` |
| `TokenVerifierProofs!KnownKeysAccepted` | `KnownKeyAccepted` |
| `TokenVerifierProofs!PrincipalsAreValidated` | `PrincipalIsValidated` |
| `OndxClientProofs!TokensStayWithTheirProvider` | `OwnProvidersToken` |
| `OndxClientProofs!SessionsAreKept` | `SessionKept` |

**Consent Engine.** `TypeOK` is not inductive: a request must remember the row
or draft its next step uses (`MemoryOK`), and a row that was read must still be
there (`RowsOK`). The safety proofs need to know in addition what a *stale* copy can
still say. `DraftsOK` says that an uncommitted draft is a pending record for the
parties of the request under an id no row has; `CopiesOK` says that a copy differs from its row only in
status and deadlines, and that a create works on rows of its own parties. With these,
`TableStep` reduces every action to one of five kinds of write to the table - a
`Save` as expired, the expiry of a list, an insert, a replacement, a decision - or
none. Most safety theorems and the refinement are then proved for five cases
instead of seventeen actions.

Three properties look further back, and need `History` besides. `Follows` says what a copy that may be
stale still proves: if it shows an active status it has the deadline of that status, a copy that
shows "approved" is of a consent whose approval won, and if the row still has the copy's status
the two are equal. So a `Save` as expired writes a deadline that did pass (`ExpiryIsLate`), an approval
whose `UPDATE` found the row pending was checked against the row's own deadline (`GrantsStartInTime`),
and what `POST` answers was granted (`PostServesAGrant`). The rest of `History` says that a portal
request works on a consent of its caller after every reload (`PortalKeepsToItsOwner`).

**Policy Decision Point.** The inductive invariant says, for each kind of
request, what it holds and how its copy relates to the table: a row that a
grant or a revocation has *locked* is still as it read it (`GrantOK`,
`RevokeOK`); everything else it read is yet to be locked; what a sync inserted is still absent
from the table and its id free (`HeldOK`); what a decision has evaluated
was evaluated after the read (`DecideOK`). `Exclusive` - no two transactions
hold the same row - is why the table under a lock does not move.

* `AnswersAreTrue` and `Refinement` follow from "locked means unchanged": what is
  written back is the current list with one entry changed. For a sync the
  written columns leave the list alone, and rows of inserted fields did not exist.
* `GrantsNeverDeadlock`: suppose a circle without a sync. Only grants wait
  while holding something. Among the fields that the members of the circle
  wait for, take a largest one; whoever holds it waits for a field that is larger,
  since a grant locks in increasing order. `Largest` gets that
  element from the well-foundedness of the order on natural numbers.
* `LetThroughByGrant`: when a decision is answered every field was evaluated, and
  "authorized" alone means that each outcome was "allow".

**Application saga.** None of the properties is inductive. What they need in addition:
a request remembers what its step uses (`TaskOK`, with `Fits` for one request); a creation
belongs to one request (`OwnersOK`); rows and accounts are of creations that were
asked for (`RowsOK`, `AccountsOK`); what each step of a creation may rely on in the three
systems (`CreationOK`), in particular that nobody had a row to load, and so to save again,
before the insert (`UpdatesOK`); and that one review at a time works on a submission
that is not strained (`ReviewsOK`). Every step of a creation is an instance of
`CreationMove`, which disturbs the other requests in nothing, and is right about its
own application (`RightFor`); the other steps are turns of one request (`Turns`) that
leave the three systems alone (`Quiet`) or are proved one by one.

**Schema saga.** The invariant speaks of each request, each schema and each submission. A request
remembers what its step uses (`Fits`). Of a schema (`SchemaOK`): its row is explained (`Explained`); a
creation that is past its insert still finds its row, which nobody has confirmed, with the member and the fields it asked for unless
a save changed them, and no records but late ones (`Inserted`); at most one request is at that point; and whoever passed the
owner check may still act for the owner, or the row was deleted or changed hands since (`HasAccess`).
Of a submission (`SubmissionOK`): unless it is strained one review at most works on it, and
if it stands approved there is that review or a schema. `Inserted` is what the compensation
rests on: the delete of a failed creation can only hit a row that was never
confirmed, although ids may come back. `SchemaKept` and `SubmissionKept` say which changes are
harmless (`RowMoves`, `RecordsMove`, `TaskKept`, `ReviewKept`), so that a step is looked at
only where it inserts, confirms, deletes or reviews. `OwnersChange` is the one action property: each of the
five actions that write a schema is done by a request with `Inserted` or `HasAccess`.

**Both sagas implement `Creation`.** The proofs have the same three parts in the two modules.

1. `StepProgress`: every step makes `Progress` on every creation, proved action by action. It
   says in terms of the saga what a step may do to one creation: leave it
   alone, begin it, or go on with it in the hands of the request that owns it; what its history
   records is kept; an account appears, and a creation is confirmed, only while it is under way.
2. An invariant on top of `IInv` (`RInv`): what nobody has asked for has no parts and no
   mishaps; of an application, every grant to the client of a creation that did not succeed has
   its mishap (`NoStrayGrant`); of a schema, the row a success left belongs to its member and records
   without a success are late ones, but for the mishaps on record (`CreationOK`). `Progress` preserves it.
3. `InvSettles`: in a state of `RInv` a complete creation is whole and an ended one is undone
   (`Settled`). A step is then one of four cases by the creation's phase before it
   (`StepRefines`): complete, then it is `Keep`; underway, then it is `Work`, `Complete` or `Fail`; closed, then
   `Rest`; open, then `Begin`, or `Rest` of an id that may be chosen again, or a stutter.

What is hard in it is the third part: the abstract step asks for `Whole` and `Undone` in the state *after* the step, which
no single action establishes; they follow from the invariants of the saga, and that is why those had to be
inductive for every number of requests first. `ImplementsCreation` of schemas needs in addition that a chosen id
is never in `drawn`, so that an open id may have been used before only if it was chosen.

**Token verification.** `FreshKey` and `KnownKeyAccepted` speak of a request that has ended; the
invariant says what each reading of the clock means on the way there. What is cached was published at
the time the cache is dated with, or later (`CacheOK`). The times a request noted are in order, and
the key set it is about to store was published at the time noted before its fetch, or later
(`Formed`). A request that waits for the lock, and will be content with a fetch made
meanwhile, came in before that fetch began; so the fetch brings every key published ever since
the request came in (`Served`, and `ServedBy` while the fetch lasts). `Concluded` is what follows for
those accepted and those refused. For `PrincipalIsValidated` the two decodings of a payload are
shown to agree claim by claim, for every payload over any texts, names and spellings.

**The ondx client.** Two files may hold tokens of one client, so the client does not tell them apart: the number of the
login does, which was for one file (`IssuedFor`). The invariant says of every token, on file
or in hand, that its access token goes back to a login for that file at a client the file was given (`Owned`), and
its refresh token too, or that the login brought none (`Backed`); for this the clients that configuration files
name must have been given to their profiles' files (`ConfigOK`). A file's refresh token is
accepted, gone, or used by a command that has its successor (`Accounted`); the one a command is about to save has
not been used (`Unspent`), because with a provider that replaces refresh tokens nobody else knows it
(`Secret`). A save is the delicate step: it drops the record of the refresh token that was used, which was
on file nowhere else, as it goes back to a login for this file. `Turn` is the lemma for all
steps that issue nothing and save nothing, `Issue` the one for the two that issue.

**Federated requests.** The inductive invariant says three things of the record of each
request: it has the shape its step needs (`Formed`); what is granted and agreed to *now* has been
noted (`Noted`); and how far the request is follows from what has been noted (`Checked`): fields that
passed were granted, past the policy check all fields of the query were, past the
consent check those that need consent were agreed to, and no fetch has begun
before. `Noted` is what makes it inductive: a check reads the lists and the ledger of its moment,
and `Noted` carries that to the history. Steps are of two kinds: those that win nothing for anybody
(`Shrinking`: every turn of a request, revocation, withdrawal, expiry, time), where it is enough to look at the
new record, and a grant or an approval, which the active requests note (`Widened`). Plans, owners,
providers and consents are arbitrary.

Each invariant was first checked with TLC on the instance of its run (for the Policy Decision
Point all but `DecideOK`, which quantifies over all times; for the token verifier
with `TTL = 1` and `MaxTime = 2`).

Every safety property of a run is thereby a theorem, but for the two of `oe_response` and the two sentences
that the code does not keep.

**Only model-checked.** The three `EveryRequestAnswered`: liveness under fairness is out of
the prover's reach. The properties of `FederatedResponse` (`ResponseIsDirect`, `OnlyPlannedData`) with
`QueryPlan` and `ResponseMerge`: what a recursive operator computes
for every input is out of its reach too.

## Where code and documents disagree

Shown by runs (`findings` in `PROJECT.json`):

1. `CONSENT_LIFECYCLE.md:54` says the expiry write is conditional on the
   status that was read. The internal view's is not: its full-record `Save`
   overwrites a decision committed since (`ce_doc_expiry`). `NoReactivation` shows
   the limit of the damage: it only ever makes a consent expired.
2. `internal/oe/federator/merge.go:16` says that a field served by a failed fetch is
   null with an error at its path. The loop of `execute.go` writes the failure of a
   schema without provider into the shared map while goroutines write theirs, without
   their lock; when the entry is lost, the field is null without an error
   (`oe_doc_race`). The runtime may also end the process (`Crash` in `FederatedRequest`).

Stated at the end of the modules, as the documents have it, and without a run of their own:

3. `LatestIsActive`: `internal/ce/models/consent.go:13` says the most recently created
   record is the active one. `created_at` is stamped before the insert
   (`consent_service.go:139` and `:68`): a create builds its record, another builds,
   inserts and is rejected, then the first inserts.
4. `CreateIsIdempotent`: `CONSENT_LIFECYCLE.md:22` and `:27` say `POST` is idempotent. Of two equal
   concurrent ones both find nothing, and the index refuses the second, which is
   answered with an error.
5. `SyncStoresItsRecords`: `POLICY_MODEL.md:20` says a sync deletes the records it omits. Two
   concurrent syncs of a schema read before either inserts, and leave the records of both
   (`policy_metadata_service.go:69` and `:128`).
6. `FailedCreationUndone`: `cmd/pb/README.md:78` says the steps of a creation are undone if a later one
   fails. When the caller hangs up before the insert, the delete of the account uses the
   same cancelled context as the insert and fails with it (`application/service.go:98` and `:103`).
7. `PolicyReplacesAllowList`: `cmd/pb/openapi.yaml:758` says an update of an application's policy
   replaces its allow-list. The PDP only adds: a field that is left out stays granted until the
   grant expires (`application/service.go:251`).

Seen while modelling, without a run: `CONSENT_LIFECYCLE.md:18` calls rejected,
expired and revoked terminal, while the two `Save`s can change one into
another (`Relabel`); `consent.go:44` ties `GrantExpiresAt` to approval, and it is kept
after a revocation; `POLICY_MODEL.md:35` has grants of
30 and 365 days, the code adds a calendar month or year; a patch whose record is
deleted between its read and its update is answered 200; the internal `POST` answers 201
whether it creates or returns a consent (`internal/ce/handlers/internal_handler.go:109`). Those about
schemas and the client are in [their](#the-schema-saga) [sections](#the-ondx-client).

## What is not modelled

* **Consent Engine**: two records stamped in the same microsecond; paging and
  status filters of lists; an answer lost after the commit (the client then
  sees an error for an effect that happened); the statements of the list's
  expiry one by one; validation and JSON.
* **Policy Decision Point**: policy parameters, display texts, source and owner
  (no decision depends on them); the same field twice in one request;
  `ListPolicyMetadata`, which reads only; patches of other columns; an answer
  lost after the commit; the actual month and year of a duration, which are a constant.
  An evaluation that fails may happen to any field: it denies it.
* **Application saga**: names, descriptions, versions and review texts; rows from before
  client ids were stored (`IdpClientID` is nil), which policy updates refuse; the expiry and
  the revocation of grants, so `granted` is what was ever granted; the look-up of the
  member, whose failure is a refusal of the account; two statements of one `Save` (the
  update that finds no row and the insert) are one step. The callers' ownership of what they
  change is checked by the handlers against a member id that never changes.
* **Schema saga**: names, versions and descriptions of schemas; the SDL grammar (of two types that
  refer to each other `processNestedFields`, `sdl.go:137`, never comes back); display and
  ownership columns of the records, which are told apart by their field alone. A caller that hangs up
  changes nothing here: unlike the applications' service, this one passes no context to its calls.
* **Orchestration Engine**: validation of queries against the schema and the compilation of the
  schema, which does not change; the translation of literals; the providers' OAuth2 sign-in; an
  engine without a policy client, which skips the check; consumers that hang up; metadata that changes
  in the PDP under the engine's schema. The owner argument is taken to be a string.
* **Token verification**: cryptography; the HTTP headers and the fetch of the key set but for
  its outcome; discovery of the provider; a time that is a text of digits, which the JWT library takes for the
  number and the model refuses.
* **ondx client**: discovery, printing, and the difference between the commands that send a
  request: one stands for all, and what the backend does with it is the sagas' matter. Nor the settings
  of a profile that no token depends on (scopes, resource, the backend's address), nor logins at
  settings that do not fit, which bring no token though they may hold the callback's port for a while.
* **Portal Backend members**: a create relies on the unique index on the organization
  unit and an update saves a loaded row of its own: nothing there takes more than
  one step to go wrong that `SchemaSaga` does not already show of `Save`.
* **Audit middleware**: fire and forget; an event is sent or dropped and nothing depends on it.
* **All databases**: the isolation of PostgreSQL is taken from its documentation at READ
  COMMITTED, the level the services use: they set none.
* Components with status `not_modelled` in `PROJECT.json`, for the reason given there.

## Plan

Done: the four services and the client, with their properties; the abstract specifications
of the two database services, with the federator over them, and of the creations of both sagas; the
proofs listed above. What is left, in this order:

1. The members and their link to the identity provider's organization units, the caller's
   resolution, and changes of policy metadata under a running federator.
2. The sagas composed with `PolicyDecisionPoint` itself, in place of what they take of it.

No module that theorems are about declares a `RECURSIVE` operator; recursion is in
`QueryPlan`, `ResponseMerge` and `FederatedResponse`, which only TLC uses.
