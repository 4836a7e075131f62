-------------------------- MODULE SchemaSagaProofs --------------------------
(***************************************************************************)
(* Proofs about SchemaSaga: the inductive invariant, and the theorems that *)
(* follow from it.                                                         *)
(***************************************************************************)
EXTENDS SchemaSaga, TLAPS

-----------------------------------------------------------------------------
(* The inductive invariant: what requests remember.                        *)

\* What a request remembers fits the step it is at.
Fits(t) ==
    /\ t.at = "idle" => t = IdleTask
    /\ t.at \in Creating =>
          /\ t.caller = Nil
          /\ t.schema \in Schemas
          /\ IF t.sub = Nil THEN t.draft \in Row ELSE t.draft \in SubmissionRow
    /\ t.at \in {"save submission", "reopen"} =>
          /\ t.caller = Nil
          /\ t.sub \in Submissions
          /\ t.draft \in SubmissionRow
    /\ t.at \in Updating \cup Altering =>
          /\ t.caller \in Callers
          /\ t.schema \in Schemas
          /\ t.sub = Nil
    /\ t.at = "save row" => t.draft \in Row

TaskOK == \A r \in Requests : Fits(task[r])

-----------------------------------------------------------------------------
(* The inductive invariant: each schema.                                   *)

\* Steps at which a creation has its row in the database and has not ended.
Settling == {"sync", "delete row"}

Settles(r, x) == task[r].at \in Settling /\ task[r].schema = x

\* Steps that rely on the owner check at the start of the request.
Works(r, x) == task[r].at \in Updating \cup Altering /\ task[r].schema = x

\* The row a creation has inserted is there until that creation takes it away,
\* and it is as it was asked for unless a save changed it.
Inserted(r, x) ==
    /\ schemas[x] # Nil
    /\ confirmed[x] = Nil
    /\ schemas[x].fields = task[r].draft.fields \/ <<"row", "new SDL">> \in mishaps[x]
    /\ schemas[x].member = task[r].draft.member \/ <<"row", "changed hands">> \in mishaps[x]
    /\ metadata[x] = {} \/ <<"sync", "late">> \in mishaps[x]

\* The owner check still says something about the row, unless the row was
\* deleted since or belongs to somebody else by now.
HasAccess(r, x) ==
    \/ r \in outlived
    \/ <<"row", "changed hands">> \in mishaps[x]
    \/ schemas[x] # Nil /\ CanAccess(task[r].caller, schemas[x].member)

\* A row is explained by its confirmation, by the creation at work on it or by
\* a mishap.
Explained(x) ==
    \/ schemas[x] = Nil
    \/ confirmed[x] # Nil
    \/ \E r \in Requests : Settles(r, x)
    \/ mishaps[x] \cap KeepsRow # {}

InStep(x) ==
    confirmed[x] # Nil =>
       /\ schemas[x] # Nil
       /\ \/ metadata[x] = schemas[x].fields
          \/ mishaps[x] \cap OutOfStep # {}

RecordsExplained(x) ==
    \/ metadata[x] = {}
    \/ schemas[x] # Nil
    \/ <<"sync", "late">> \in mishaps[x]

SchemaOK(x) ==
    /\ Explained(x)
    /\ InStep(x)
    /\ RecordsExplained(x)
    /\ \A r \in Requests : Settles(r, x) => Inserted(r, x)
    /\ \A r, q \in Requests : Settles(r, x) /\ Settles(q, x) => r = q
    /\ \A r \in Requests : Works(r, x) => HasAccess(r, x)

\* Records that are still on their way were given up.
LateOK == \A call \in late : <<"sync", "late">> \in mishaps[call[1]]

-----------------------------------------------------------------------------
(* The inductive invariant: each submission.                               *)

HasSchema(s) == \E x \in Schemas : confirmed[x] # Nil /\ confirmed[x].submission = s

\* A review that has not saved: what is stored has its schema if it is
\* approved, and so has what it is about to save without creating one.
Reviews(r, s) ==
    /\ submissions[s] # Nil
    /\ submissions[s].status = "approved" => HasSchema(s)
    /\ task[r].draft.status = "approved" /\ task[r].schema = Nil => HasSchema(s)

\* Unless it is strained, at most one review of a submission is at work.
SubmissionOK(s) ==
    \/ s \in strained
    \/ /\ \A r, q \in Requests : task[r].sub = s /\ task[q].sub = s => r = q
       /\ \A r \in Requests :
             task[r].sub = s /\ task[r].at = "save submission" => Reviews(r, s)
       /\ \/ submissions[s] = Nil
          \/ submissions[s].status # "approved"
          \/ \E r \in Requests : task[r].sub = s
          \/ HasSchema(s)

SchemasOK == LateOK /\ \A x \in Schemas : SchemaOK(x)

SubmissionsOK == \A s \in Submissions : SubmissionOK(s)

IInv == TypeOK /\ TaskOK /\ SchemasOK /\ SubmissionsOK

-----------------------------------------------------------------------------
(* How a step changes what requests remember.                              *)

\* A request that takes no part in the step may lose the record it holds.
Like(t, u) ==
    /\ u.at = t.at /\ u.caller = t.caller /\ u.schema = t.schema
    /\ u.sub = t.sub /\ u.draft = t.draft
    /\ t.at # "alter record" => u = t

Others(r) ==
    \A q \in Requests \ {r} :
       Like(task[q], task'[q]) /\ (q \in outlived => q \in outlived')

\* Request r is at another step, with what it remembered.
Moved(r, step) ==
    /\ task' \in [Requests -> Task] /\ outlived' \subseteq Requests
    /\ task'[r].at = step
    /\ task'[r].caller = task[r].caller /\ task'[r].schema = task[r].schema
    /\ task'[r].sub = task[r].sub /\ task'[r].draft = task[r].draft
    /\ r \in outlived => r \in outlived'
    /\ Others(r)

\* Request r remembers u.
Becomes(r, u) ==
    /\ task' \in [Requests -> Task] /\ outlived' \subseteq Requests
    /\ task'[r] = u
    /\ Others(r)

\* A request whose memory did not change at all is one of the others.
LEMMA LikeItself ==
    ASSUME NEW t PROVE Like(t, t)
BY DEF Like

\* The idle task is a task, at no step.
LEMMA IdleFacts ==
    /\ IdleTask \in Task
    /\ IdleTask.at = "idle" /\ IdleTask.schema = Nil /\ IdleTask.sub = Nil
    /\ IdleTask.caller = Nil
    /\ "idle" \notin Steps /\ "idle" \notin Settling
    /\ "idle" \notin Creating /\ "idle" \notin Updating \cup Altering
    /\ Fits(IdleTask)
<1>1. IdleTask \in Task
  BY DEF IdleTask, Task
<1>2. /\ IdleTask.at = "idle" /\ IdleTask.schema = Nil /\ IdleTask.sub = Nil
      /\ IdleTask.caller = Nil
  BY DEF IdleTask
<1>3. /\ "idle" \notin Steps /\ "idle" \notin Settling
      /\ "idle" \notin Creating /\ "idle" \notin Updating \cup Altering
  BY DEF Steps, Settling, Creating, Updating, Altering
<1>4. Fits(IdleTask)
  BY <1>2, <1>3 DEF Fits
<1> QED
  BY <1>1, <1>2, <1>3, <1>4

\* GoTo moves.
LEMMA GoToMoves ==
    ASSUME TypeOK, NEW r \in Requests, NEW step \in Steps, GoTo(r, step)
    PROVE  Moved(r, step)
<1>1. task \in [Requests -> Task] /\ outlived \subseteq Requests
  BY DEF TypeOK
<1>2. task' = [task EXCEPT ![r] = [task[r] EXCEPT !.at = step]] /\ outlived' = outlived
  BY DEF GoTo
<1> DEFINE u == [task[r] EXCEPT !.at = step]
<1>3. /\ u \in Task /\ u.at = step
      /\ u.caller = task[r].caller /\ u.schema = task[r].schema
      /\ u.sub = task[r].sub /\ u.draft = task[r].draft
  BY <1>1 DEF Task
<1> HIDE DEF u
<1>4. task'[r] = u /\ task' \in [Requests -> Task] /\ \A q \in Requests \ {r} : task'[q] = task[q]
  BY <1>1, <1>2, <1>3 DEF u
<1> QED
  BY <1>1, <1>2, <1>3, <1>4, LikeItself DEF Moved, Others

\* An assignment to the request's task.
LEMMA BecomesTask ==
    ASSUME TypeOK, NEW r \in Requests, NEW u \in Task, task' = [task EXCEPT ![r] = u],
           \/ outlived' = outlived
           \/ outlived' = outlived \ {r}
    PROVE  Becomes(r, u)
<1>1. task \in [Requests -> Task] /\ outlived \subseteq Requests
  BY DEF TypeOK
<1>2. task'[r] = u /\ task' \in [Requests -> Task] /\ \A q \in Requests \ {r} : task'[q] = task[q]
  BY <1>1
<1> QED
  BY <1>1, <1>2, LikeItself DEF Becomes, Others

\* An answer.
LEMMA AnswerEnds ==
    ASSUME TypeOK, NEW r \in Requests, Answer(r)
    PROVE  Becomes(r, IdleTask)
BY BecomesTask, IdleFacts DEF Answer

\* A creation that fails ends, or goes on to reopen its submission.
LEMMA FailCreationFails ==
    ASSUME TypeOK, NEW r \in Requests, FailCreation(r)
    PROVE  \/ Becomes(r, IdleTask) /\ task[r].sub = Nil
           \/ Moved(r, "reopen") /\ task[r].sub # Nil
<1>1. "reopen" \in Steps
  BY DEF Steps
<1> QED
  BY <1>1, AnswerEnds, GoToMoves DEF FailCreation

\* Records that are removed from under a request.
LEMMA RemovedTasks ==
    ASSUME TypeOK, NEW x, NEW fields
    PROVE  /\ Removed(x, fields) \in [Requests -> Task]
           /\ \A q \in Requests : Like(task[q], Removed(x, fields)[q])
<1>1. ASSUME NEW q \in Requests
      PROVE  Removed(x, fields)[q] \in Task /\ Like(task[q], Removed(x, fields)[q])
  <2>1. task[q] \in Task
    BY DEF TypeOK
  <2>2. CASE task[q].at = "alter record" /\ task[q].schema = x /\ task[q].record \in fields
    <3>1. Removed(x, fields)[q] = [task[q] EXCEPT !.record = Nil]
      BY <2>2 DEF Removed
    <3>2. [task[q] EXCEPT !.record = Nil] \in Task
      BY <2>1 DEF Task
    <3> QED
      BY <2>1, <2>2, <3>1, <3>2 DEF Like, Task
  <2>3. CASE ~(task[q].at = "alter record" /\ task[q].schema = x /\ task[q].record \in fields)
    BY <2>1, <2>3, LikeItself DEF Removed
  <2> QED
    BY <2>2, <2>3
<1> QED
  BY <1>1 DEF Removed

\* A request ends while others lose their records.
LEMMA RemovesAndEnds ==
    ASSUME TypeOK, NEW r \in Requests, NEW x, NEW fields,
           task' = [Removed(x, fields) EXCEPT ![r] = IdleTask],
           outlived' = outlived \ {r}
    PROVE  Becomes(r, IdleTask)
<1>1. /\ Removed(x, fields) \in [Requests -> Task]
      /\ \A q \in Requests : Like(task[q], Removed(x, fields)[q])
  BY RemovedTasks
<1>2. /\ task' \in [Requests -> Task] /\ task'[r] = IdleTask
      /\ \A q \in Requests \ {r} : task'[q] = Removed(x, fields)[q]
  BY <1>1, IdleFacts
<1> QED
  BY <1>1, <1>2 DEF Becomes, Others, TypeOK

\* What fits still fits when a record is lost.
LEMMA LikeFits ==
    ASSUME NEW t, NEW u, Like(t, u), Fits(t)
    PROVE  Fits(u)
<1>1. CASE t.at = "alter record"
  BY <1>1 DEF Like, Fits, Creating, Updating
<1>2. CASE t.at # "alter record"
  BY <1>2 DEF Like
<1> QED
  BY <1>1, <1>2

\* Only the request that takes the step has to be looked at.
LEMMA MemoryKept ==
    ASSUME TaskOK, NEW r \in Requests, Others(r), Fits(task'[r])
    PROVE  TaskOK'
<1>1. ASSUME NEW q \in Requests, q # r
      PROVE  Fits(task'[q])
  BY <1>1, LikeFits DEF TaskOK, Others
<1> QED
  BY <1>1 DEF TaskOK

-----------------------------------------------------------------------------
(* What keeps a schema in order.                                           *)

\* The row stays, is left behind or is saved over; what changed is recorded.
RowMoves(x) ==
    \/ schemas'[x] = schemas[x]
    \/ schemas[x] = Nil /\ schemas'[x] # Nil /\ mishaps'[x] \cap KeepsRow # {}
    \/ /\ schemas[x] # Nil /\ schemas'[x] # Nil
       /\ schemas'[x].fields = schemas[x].fields \/ <<"row", "new SDL">> \in mishaps'[x]
       /\ schemas'[x].member = schemas[x].member \/ <<"row", "changed hands">> \in mishaps'[x]

\* The records stay, are late or are deleted.
RecordsMove(x) ==
    \/ metadata'[x] = metadata[x]
    \/ <<"sync", "late">> \in mishaps'[x]
    \/ metadata'[x] \subseteq metadata[x] /\ <<"record", "deleted">> \in mishaps'[x]

\* The request neither passes the insert of x nor ends its creation, and does
\* not start to work on the row without having been asked for it.
TaskKept(q, x) ==
    /\ task'[q].at \in Settling /\ task'[q].schema = x <=> Settles(q, x)
    /\ Settles(q, x) => task'[q].draft = task[q].draft
    /\ task'[q].at \in Updating \cup Altering /\ task'[q].schema = x =>
          \/ Works(q, x) /\ task'[q].caller = task[q].caller /\ (q \in outlived => q \in outlived')
          \/ /\ schemas[x] # Nil /\ schemas'[x] = schemas[x]
             /\ CanAccess(task'[q].caller, schemas[x].member)

TasksKept(x) == \A q \in Requests : TaskKept(q, x)

\* A step like that leaves the schema in order.
LEMMA SchemaKept ==
    ASSUME NEW x \in Schemas, SchemaOK(x), confirmed'[x] = confirmed[x],
           mishaps[x] \subseteq mishaps'[x], RowMoves(x), RecordsMove(x), TasksKept(x)
    PROVE  SchemaOK(x)'
<1>1. \A q \in Requests : Settles(q, x)' <=> Settles(q, x)
  BY DEF TasksKept, TaskKept, Settles
<1>2. schemas[x] # Nil => schemas'[x] # Nil
  BY DEF RowMoves
<1>3. Explained(x)'
  <2>1. CASE schemas[x] = Nil /\ schemas'[x] # Nil
    BY <2>1 DEF RowMoves, Explained
  <2>2. CASE ~(schemas[x] = Nil /\ schemas'[x] # Nil)
    BY <1>1, <2>2 DEF SchemaOK, Explained
  <2> QED
    BY <2>1, <2>2
<1>4. InStep(x)'
  <2> SUFFICES ASSUME confirmed[x] # Nil
               PROVE  schemas'[x] # Nil /\ (metadata'[x] = schemas'[x].fields
                                              \/ mishaps'[x] \cap OutOfStep # {})
    BY DEF InStep
  <2>1. schemas[x] # Nil /\ (metadata[x] = schemas[x].fields \/ mishaps[x] \cap OutOfStep # {})
    BY DEF SchemaOK, InStep
  <2>2. CASE mishaps[x] \cap OutOfStep # {}
    BY <1>2, <2>1, <2>2
  <2>3. CASE <<"sync", "late">> \in mishaps'[x] \/ <<"row", "new SDL">> \in mishaps'[x]
             \/ <<"record", "deleted">> \in mishaps'[x]
    BY <1>2, <2>1, <2>3 DEF OutOfStep
  <2> QED
    BY <1>2, <2>1, <2>2, <2>3 DEF RowMoves, RecordsMove
<1>5. RecordsExplained(x)'
  BY <1>2 DEF SchemaOK, RecordsExplained, RecordsMove
<1>6. ASSUME NEW q \in Requests, Settles(q, x)'
      PROVE  Inserted(q, x)'
  <2>1. Settles(q, x) /\ Inserted(q, x) /\ task'[q].draft = task[q].draft
    BY <1>1, <1>6 DEF SchemaOK, TasksKept, TaskKept
  <2>2. schemas'[x] # Nil /\ confirmed'[x] = Nil
    BY <1>2, <2>1 DEF Inserted
  <2>3. schemas'[x].fields = task'[q].draft.fields \/ <<"row", "new SDL">> \in mishaps'[x]
    BY <2>1 DEF Inserted, RowMoves
  <2>4. schemas'[x].member = task'[q].draft.member \/ <<"row", "changed hands">> \in mishaps'[x]
    BY <2>1 DEF Inserted, RowMoves
  <2>5. metadata'[x] = {} \/ <<"sync", "late">> \in mishaps'[x]
    BY <2>1 DEF Inserted, RecordsMove
  <2> QED
    BY <2>2, <2>3, <2>4, <2>5 DEF Inserted
<1>7. ASSUME NEW q \in Requests, Works(q, x)'
      PROVE  HasAccess(q, x)'
  <2>1. \/ Works(q, x) /\ task'[q].caller = task[q].caller /\ (q \in outlived => q \in outlived')
        \/ /\ schemas[x] # Nil /\ schemas'[x] = schemas[x]
           /\ CanAccess(task'[q].caller, schemas[x].member)
    BY <1>7 DEF TasksKept, TaskKept, Works
  <2>2. CASE Works(q, x) /\ task'[q].caller = task[q].caller /\ (q \in outlived => q \in outlived')
    <3>1. HasAccess(q, x)
      BY <2>2 DEF SchemaOK
    <3>2. CASE q \in outlived \/ <<"row", "changed hands">> \in mishaps[x]
      BY <2>2, <3>2 DEF HasAccess
    <3>3. CASE schemas[x] # Nil /\ CanAccess(task[q].caller, schemas[x].member)
      BY <2>2, <3>3 DEF HasAccess, RowMoves
    <3> QED
      BY <3>1, <3>2, <3>3 DEF HasAccess
  <2> QED
    BY <2>1, <2>2 DEF HasAccess
<1>8. \A r, q \in Requests : Settles(r, x)' /\ Settles(q, x)' => r = q
  BY <1>1 DEF SchemaOK
<1> QED
  BY <1>3, <1>4, <1>5, <1>6, <1>7, <1>8 DEF SchemaOK

-----------------------------------------------------------------------------
(* What keeps a submission in order.                                       *)

\* The request begins no review of s, and if it ends one it leaves nothing to
\* explain.
ReviewKept(q, s) ==
    /\ task'[q].sub = s => task[q].sub = s
    /\ task'[q].sub = s /\ task'[q].at = "save submission" =>
          /\ task[q].at = "save submission"
          /\ task'[q].draft = task[q].draft /\ task'[q].schema = task[q].schema
    /\ task[q].sub = s => \/ task'[q].sub = s \/ s \in strained' \/ HasSchema(s)'
                          \/ submissions[s] = Nil \/ submissions[s].status # "approved"

ReviewsKept(s) == \A q \in Requests : ReviewKept(q, s)

\* A confirmation is never withdrawn.
ConfirmedStay == \A x \in Schemas : confirmed[x] # Nil => confirmed'[x] = confirmed[x]

\* So a submission keeps its schema.
LEMMA HasSchemaStays ==
    ASSUME NEW s, ConfirmedStay, HasSchema(s)
    PROVE  HasSchema(s)'
BY DEF ConfirmedStay, HasSchema

\* A step like that leaves the submission in order.
LEMMA SubmissionKept ==
    ASSUME NEW s \in Submissions, SubmissionOK(s), submissions'[s] = submissions[s],
           strained \subseteq strained', ConfirmedStay, ReviewsKept(s)
    PROVE  SubmissionOK(s)'
<1> SUFFICES ASSUME s \notin strained'
             PROVE  SubmissionOK(s)'
  BY DEF SubmissionOK
<1>1. /\ \A r, q \in Requests : task[r].sub = s /\ task[q].sub = s => r = q
      /\ \A r \in Requests :
            task[r].sub = s /\ task[r].at = "save submission" => Reviews(r, s)
      /\ \/ submissions[s] = Nil
         \/ submissions[s].status # "approved"
         \/ \E r \in Requests : task[r].sub = s
         \/ HasSchema(s)
  BY DEF SubmissionOK
<1>2. \A r, q \in Requests : task'[r].sub = s /\ task'[q].sub = s => r = q
  BY <1>1 DEF ReviewsKept, ReviewKept
<1>3. ASSUME NEW r \in Requests, task'[r].sub = s, task'[r].at = "save submission"
      PROVE  Reviews(r, s)'
  <2>1. /\ Reviews(r, s)
        /\ task'[r].draft = task[r].draft /\ task'[r].schema = task[r].schema
    BY <1>1, <1>3 DEF ReviewsKept, ReviewKept
  <2> QED
    BY <2>1, HasSchemaStays DEF Reviews
<1>4. \/ submissions'[s] = Nil
      \/ submissions'[s].status # "approved"
      \/ \E r \in Requests : task'[r].sub = s
      \/ HasSchema(s)'
  BY <1>1, HasSchemaStays DEF ReviewsKept, ReviewKept
<1> QED
  BY <1>2, <1>3, <1>4 DEF SubmissionOK

-----------------------------------------------------------------------------
(* What the ways to go on mean for a schema and a submission.              *)

\* A call that took effect, or will, was possible.
LEMMA EndsFacts ==
    ASSUME TypeOK, NEW possible, NEW result, Ends(possible, result)
    PROVE  /\ faults' \in Nat
           /\ result \in {"done", "lost", "late"} => possible
           /\ result \in FaultKinds \cup {"done"}
BY ConstantsAssumption DEF TypeOK, Ends, ConstantsAssumption, FaultKinds

\* What happens to a schema is only added to what has happened.
LEMMA RecordedFacts ==
    ASSUME TypeOK, NEW x \in Schemas, NEW what, Recorded(x, what)
    PROVE  /\ mishaps' \in [Schemas -> SUBSET Mishap]
           /\ \A y \in Schemas : mishaps[y] \subseteq mishaps'[y]
           /\ what \cap Mishap \subseteq mishaps'[x]
<1>1. /\ mishaps \in [Schemas -> SUBSET Mishap]
      /\ mishaps' = [mishaps EXCEPT ![x] = mishaps[x] \cup (what \cap Mishap)]
  BY DEF TypeOK, Recorded
<1> QED
  BY <1>1

\* The pairs that are recorded are mishaps.
LEMMA MishapFacts ==
    /\ <<"insert", "lost">> \in Mishap /\ <<"delete row", "refused">> \in Mishap
    /\ <<"row", "saved again">> \in Mishap /\ <<"process", "crash">> \in Mishap
    /\ <<"sync", "late">> \in Mishap /\ <<"row", "new SDL">> \in Mishap
    /\ <<"record", "deleted">> \in Mishap /\ <<"row", "changed hands">> \in Mishap
BY DEF Mishap, KeepsRow, OutOfStep

\* A request that takes no part in the step.
LEMMA LikeKept ==
    ASSUME NEW q \in Requests, Like(task[q], task'[q]), q \in outlived => q \in outlived'
    PROVE  /\ \A x \in Schemas : TaskKept(q, x)
           /\ \A s \in Submissions : ReviewKept(q, s)
BY DEF Like, TaskKept, ReviewKept, Settles, Works

\* So only the request that takes the step has to be looked at.
LEMMA OthersKept ==
    ASSUME NEW r \in Requests, Others(r)
    PROVE  /\ \A x \in Schemas : TaskKept(r, x) => TasksKept(x)
           /\ \A s \in Submissions : ReviewKept(r, s) => ReviewsKept(s)
BY LikeKept DEF Others, TasksKept, ReviewsKept

\* A request that ends, and was not settling a schema or reviewing.
LEMMA EndKept ==
    ASSUME NEW r \in Requests, Becomes(r, IdleTask)
    PROVE  /\ task[r].at \notin Settling => \A x \in Schemas : TaskKept(r, x)
           /\ task[r].sub = Nil => \A s \in Submissions : ReviewKept(r, s)
<1>1. task'[r] = IdleTask
  BY DEF Becomes
<1> QED
  BY <1>1, IdleFacts, ConstantsAssumption
     DEF TaskKept, ReviewKept, Settles, Works, ConstantsAssumption

\* A request that moves within the steps of its kind.
LEMMA MoveKept ==
    ASSUME NEW r \in Requests, NEW step, Moved(r, step)
    PROVE  /\ \/ task[r].at \notin Settling /\ step \notin Settling \cup Updating \cup Altering
              \/ task[r].at \in Settling /\ step \in Settling
              \/ task[r].at \in Updating \cup Altering /\ step \in Updating \cup Altering
              => \A x \in Schemas : TaskKept(r, x)
           /\ step # "save submission" => \A s \in Submissions : ReviewKept(r, s)
<1>1. /\ task'[r].at = step /\ task'[r].caller = task[r].caller
      /\ task'[r].schema = task[r].schema /\ task'[r].sub = task[r].sub
      /\ task'[r].draft = task[r].draft /\ (r \in outlived => r \in outlived')
  BY DEF Moved
<1>2. Settling \cap (Updating \cup Altering) = {}
  BY DEF Settling, Updating, Altering
<1> QED
  BY <1>1, <1>2 DEF TaskKept, ReviewKept, Settles, Works

\* A request that was idle and is not about a submission or past an insert.
LEMMA StartKept ==
    ASSUME TaskOK, NEW r \in Requests, task[r].at = "idle", NEW u, Becomes(r, u),
           u.at \notin Settling, u.sub = Nil
    PROVE  /\ u.at \notin Updating \cup Altering => \A x \in Schemas : TaskKept(r, x)
           /\ \A s \in Submissions : ReviewKept(r, s)
<1>1. task'[r] = u /\ task[r] = IdleTask
  BY DEF Becomes, TaskOK, Fits
<1> QED
  BY <1>1, IdleFacts, ConstantsAssumption
     DEF TaskKept, ReviewKept, Settles, Works, ConstantsAssumption

-----------------------------------------------------------------------------
(* Steps that leave the schemas or the submissions as they are.            *)

\* Nothing happens to a schema.
LEMMA QuietSchemas ==
    ASSUME SchemasOK, NEW r \in Requests, Others(r), \A x \in Schemas : TaskKept(r, x),
           UNCHANGED <<schemas, metadata, late, confirmed, mishaps>>
    PROVE  SchemasOK'
<1>1. ASSUME NEW x \in Schemas
      PROVE  SchemaOK(x)'
  <2>1. RowMoves(x) /\ RecordsMove(x) /\ TasksKept(x)
    BY OthersKept DEF RowMoves, RecordsMove
  <2> QED
    BY <2>1, SchemaKept DEF SchemasOK
<1>2. LateOK'
  BY DEF SchemasOK, LateOK
<1> QED
  BY <1>1, <1>2 DEF SchemasOK

\* Nothing happens to a submission.
LEMMA QuietSubmissions ==
    ASSUME SubmissionsOK, NEW r \in Requests, Others(r),
           \A s \in Submissions : ReviewKept(r, s),
           submissions' = submissions, strained' = strained, ConfirmedStay
    PROVE  SubmissionsOK'
<1> SUFFICES ASSUME NEW s \in Submissions
             PROVE  SubmissionOK(s)'
  BY DEF SubmissionsOK
<1>1. ReviewsKept(s)
  BY OthersKept
<1> QED
  BY <1>1, SubmissionKept DEF SubmissionsOK

-----------------------------------------------------------------------------
(* Requests that begin.                                                    *)

Database == <<schemas, submissions, metadata, late, confirmed, mishaps, strained>>

\* An idle request takes something up, and nothing else happens.
LEMMA StartOK ==
    ASSUME IInv, NEW r \in Requests, task[r].at = "idle", NEW u \in Task, Becomes(r, u),
           Fits(u), u.at \notin Settling, u.sub = Nil,
           u.at \in Updating \cup Altering =>
              schemas[u.schema] # Nil /\ CanAccess(u.caller, schemas[u.schema].member),
           UNCHANGED Database, drawn' \subseteq Schemas, faults' = faults, started' \in Nat
    PROVE  IInv'
<1>1. TypeOK'
  BY DEF IInv, TypeOK, Becomes, Database
<1>2. TaskOK'
  BY MemoryKept DEF IInv, Becomes
<1>3. ASSUME NEW x \in Schemas
      PROVE  TaskKept(r, x)
  <2>1. CASE u.at \notin Updating \cup Altering
    BY <2>1, StartKept DEF IInv
  <2>2. CASE u.at \in Updating \cup Altering
    <3>1. task'[r] = u /\ task[r].at \notin Settling /\ schemas' = schemas
      BY IdleFacts DEF Becomes, Database
    <3> QED
      BY <2>2, <3>1 DEF TaskKept, Settles
  <2> QED
    BY <2>1, <2>2
<1>4. SchemasOK'
  BY <1>3, QuietSchemas DEF IInv, Becomes, Database
<1>5. SubmissionsOK'
  BY StartKept, QuietSubmissions DEF IInv, Becomes, Database, ConfirmedStay
<1> QED
  BY <1>1, <1>2, <1>4, <1>5 DEF IInv

\* The count of requests.
LEMMA StartsCount ==
    ASSUME TypeOK, Starts
    PROVE  started' \in Nat
BY DEF TypeOK, Starts

\* POST /schemas.
LEMMA CreateSchemaOK ==
    ASSUME IInv, NEW r \in Requests, CreateSchema(r)
    PROVE  IInv'
<1>1. PICK x \in Schemas, fields \in Sdls, member \in Members :
         /\ drawn' = drawn \/ drawn' = drawn \cup {x}
         /\ task' = [task EXCEPT ![r] = [IdleTask EXCEPT !.at = "insert",
                !.schema = x, !.draft = [member |-> member, fields |-> fields]]]
  BY DEF CreateSchema, MayOwn, Draws
<1> DEFINE draft == [member |-> member, fields |-> fields]
           u == [IdleTask EXCEPT !.at = "insert", !.schema = x, !.draft = draft]
<1>2. draft \in Row
  BY ConstantsAssumption DEF ConstantsAssumption, Row
<1> HIDE DEF draft
<1>3. /\ u.at = "insert" /\ u.caller = Nil /\ u.schema = x /\ u.sub = Nil /\ u.draft = draft
  BY DEF IdleTask
<1>4. u \in Task
  BY <1>2, IdleFacts DEF Task, Steps, Creating
<1>5. Fits(u)
  BY <1>2, <1>3 DEF Fits, Creating, Updating, Altering
<1>6. task' = [task EXCEPT ![r] = u]
  BY <1>1 DEF draft
<1> HIDE DEF u
<1>7. Becomes(r, u)
  BY <1>4, <1>6, BecomesTask DEF CreateSchema, IInv
<1>8. u.at \notin Settling /\ u.at \notin Updating \cup Altering
  BY <1>3 DEF Settling, Updating, Altering
<1>9. drawn' \subseteq Schemas /\ started' \in Nat
  BY <1>1, StartsCount DEF IInv, TypeOK, CreateSchema
<1> QED
  BY <1>3, <1>4, <1>5, <1>7, <1>8, <1>9, StartOK DEF CreateSchema, Database

\* The owner check.
LEMMA AuthorizeOK ==
    ASSUME IInv, NEW r \in Requests, task[r].at = "idle",
           NEW step \in {"load", "list"}, NEW sdl \in Sdls \cup {Nil},
           NEW record \in Fields \cup {Nil}, Authorize(r, step, sdl, record),
           UNCHANGED <<Database, drawn, outlived, faults>>, Starts
    PROVE  IInv'
<1>1. PICK caller \in Callers, x \in Existing :
         /\ CanAccess(caller, schemas[x].member)
         /\ task' = [task EXCEPT ![r] = [IdleTask EXCEPT !.at = step,
               !.caller = caller, !.schema = x, !.sdl = sdl, !.record = record]]
  BY DEF Authorize
<1> DEFINE u == [IdleTask EXCEPT !.at = step, !.caller = caller, !.schema = x,
                                 !.sdl = sdl, !.record = record]
<1>2. x \in Schemas /\ schemas[x] # Nil
  BY DEF Existing
<1>3. /\ u.at = step /\ u.caller = caller /\ u.schema = x /\ u.sub = Nil
  BY DEF IdleTask
<1>4. u \in Task
  BY <1>2, IdleFacts, ConstantsAssumption DEF Task, Steps, Updating, Altering, ConstantsAssumption
<1>5. Fits(u)
  BY <1>2, <1>3 DEF Fits, Creating, Updating, Altering
<1>6. task' = [task EXCEPT ![r] = u]
  BY <1>1
<1> HIDE DEF u
<1>7. Becomes(r, u)
  BY <1>4, <1>6, BecomesTask DEF IInv
<1>8. u.at \notin Settling
  BY <1>3 DEF Settling
<1>9. drawn' \subseteq Schemas /\ started' \in Nat
  BY StartsCount DEF IInv, TypeOK
<1> QED
  BY <1>1, <1>2, <1>3, <1>4, <1>5, <1>7, <1>8, <1>9, StartOK DEF Database

\* PUT /schemas/{id}, and PATCH and DELETE of a record.
LEMMA ChangeRequestOK ==
    ASSUME IInv, NEW r \in Requests, UpdateSchema(r) \/ AlterRecord(r)
    PROVE  IInv'
BY AuthorizeOK DEF UpdateSchema, AlterRecord, Database

-----------------------------------------------------------------------------
(* Requests that go on and change no schema.                               *)


\* A request that works on a row remembers something else of it, or ends.
LEMMA WorkOK ==
    ASSUME IInv, NEW r \in Requests, task[r].at \in Updating \cup Altering,
           NEW u, Becomes(r, u), Fits(u), u.sub = Nil,
           \/ u = IdleTask
           \/ /\ u.at \in Updating \cup Altering
              /\ u.schema = task[r].schema /\ u.caller = task[r].caller
              /\ r \in outlived => r \in outlived',
           UNCHANGED <<Database, drawn, started>>, faults' \in Nat
    PROVE  IInv'
<1>1. TypeOK'
  BY DEF IInv, TypeOK, Becomes, Database
<1>2. TaskOK'
  BY MemoryKept DEF IInv, Becomes
<1>3. /\ task'[r] = u /\ task[r].at \notin Settling /\ task[r].sub = Nil
      /\ u.at \notin Settling /\ u.at # "save submission"
  <2>1. task[r].at \notin Settling /\ u.at \notin Settling /\ u.at # "save submission"
    BY IdleFacts DEF Settling, Updating, Altering
  <2>2. task[r].sub = Nil
    BY DEF IInv, TaskOK, Fits
  <2> QED
    BY <2>1, <2>2 DEF Becomes
<1>4. ASSUME NEW x \in Schemas
      PROVE  TaskKept(r, x)
  BY <1>3, IdleFacts DEF TaskKept, Settles, Works
<1>5. ASSUME NEW s \in Submissions
      PROVE  ReviewKept(r, s)
  BY <1>3, ConstantsAssumption DEF ReviewKept, ConstantsAssumption
<1>6. SchemasOK'
  BY <1>4, QuietSchemas DEF IInv, Becomes, Database
<1>7. SubmissionsOK'
  BY <1>5, QuietSubmissions DEF IInv, Becomes, Database, ConfirmedStay
<1> QED
  BY <1>1, <1>2, <1>6, <1>7 DEF IInv

\* It ends.
LEMMA WorkEndOK ==
    ASSUME IInv, NEW r \in Requests, task[r].at \in Updating \cup Altering, Answer(r),
           UNCHANGED <<Database, drawn, started>>, faults' \in Nat
    PROVE  IInv'
BY AnswerEnds, IdleFacts, WorkOK DEF IInv

\* The second load of an update.
LEMMA LoadSchemaOK ==
    ASSUME IInv, NEW r \in Requests, LoadSchema(r)
    PROVE  IInv'
<1> DEFINE x == task[r].schema
           row == schemas[x]
           draft == [row EXCEPT !.fields = Updated(@, task[r].sdl)]
           u == [task[r] EXCEPT !.at = "save row", !.draft = draft]
<1>1. /\ task[r].at = "load" /\ task[r] \in Task /\ x \in Schemas
      /\ task[r].caller \in Callers /\ task[r].sub = Nil
      /\ faults' \in Nat /\ UNCHANGED <<Database, drawn, started>>
  BY DEF LoadSchema, IInv, TypeOK, TaskOK, Fits, Updating, Database
<1>2. CASE Answer(r)
  BY <1>1, <1>2, WorkEndOK DEF Updating
<1>3. CASE /\ row # Nil /\ outlived' = outlived
           /\ task' = [task EXCEPT ![r].at = "save row", ![r].draft = draft]
  <2>1. row \in Row
    BY <1>1, <1>3 DEF IInv, TypeOK
  <2>2. draft \in Row
    BY <1>1, <2>1 DEF Row, Updated, Task
  <2> HIDE DEF draft
  <2>3. /\ u \in Task /\ u.at = "save row" /\ u.draft = draft
        /\ u.caller = task[r].caller /\ u.schema = task[r].schema /\ u.sub = Nil
    BY <1>1, <2>2 DEF Task, Steps, Updating
  <2>4. task' = [task EXCEPT ![r] = u]
    BY <1>3
  <2> HIDE DEF u
  <2>5. Fits(u)
    BY <1>1, <2>2, <2>3 DEF Fits, Creating, Updating, Altering
  <2>6. Becomes(r, u)
    BY <1>3, <2>3, <2>4, BecomesTask DEF IInv
  <2>7. u.at \in Updating \cup Altering /\ task[r].at \in Updating \cup Altering
    BY <1>1, <2>3 DEF Updating
  <2> QED
    BY <1>1, <1>3, <2>3, <2>5, <2>6, <2>7, WorkOK
<1> QED
  BY <1>2, <1>3 DEF LoadSchema

\* The list of the schema's records.
LEMMA ListMetadataOK ==
    ASSUME IInv, NEW r \in Requests, ListMetadata(r)
    PROVE  IInv'
<1>1. PICK result : Ends(task[r].record \in metadata[task[r].schema], result)
  BY DEF ListMetadata
<1>2. /\ task[r].at = "list" /\ task[r].at \in Updating \cup Altering
      /\ task[r] \in Task /\ Fits(task[r])
      /\ faults' \in Nat /\ UNCHANGED <<Database, drawn, started>>
  BY <1>1, EndsFacts DEF ListMetadata, IInv, TypeOK, TaskOK, Altering, Database
<1>3. CASE Answer(r)
  BY <1>2, <1>3, WorkEndOK
<1>4. CASE GoTo(r, "alter record")
  <2> DEFINE u == [task[r] EXCEPT !.at = "alter record"]
  <2>1. /\ u \in Task /\ u.at = "alter record" /\ u.caller = task[r].caller
        /\ u.schema = task[r].schema /\ u.sub = task[r].sub
    BY <1>2 DEF Task, Steps, Altering
  <2>2. task' = [task EXCEPT ![r] = u] /\ outlived' = outlived
    BY <1>4 DEF GoTo
  <2> HIDE DEF u
  <2>3. Becomes(r, u)
    BY <2>1, <2>2, BecomesTask DEF IInv
  <2>4. Fits(u) /\ u.sub = Nil /\ u.at \in Updating \cup Altering
    BY <1>2, <2>1 DEF Fits, Creating, Updating, Altering
  <2> QED
    BY <1>2, <2>1, <2>2, <2>3, <2>4, WorkOK
<1> QED
  BY <1>3, <1>4 DEF ListMetadata

-----------------------------------------------------------------------------
(* Steps that change one schema.                                           *)

\* The other schemas are left as they were.
LEMMA OneSchema ==
    ASSUME SchemasOK, NEW x \in Schemas, SchemaOK(x)', LateOK',
           \A y \in Schemas \ {x} :
              /\ schemas'[y] = schemas[y] /\ metadata'[y] = metadata[y]
              /\ confirmed'[y] = confirmed[y] /\ mishaps[y] \subseteq mishaps'[y]
              /\ TasksKept(y)
    PROVE  SchemasOK'
<1>1. ASSUME NEW y \in Schemas \ {x}
      PROVE  SchemaOK(y)'
  <2>1. RowMoves(y) /\ RecordsMove(y)
    BY DEF RowMoves, RecordsMove
  <2> QED
    BY <2>1, SchemaKept DEF SchemasOK
<1> QED
  BY <1>1 DEF SchemasOK

\* What was given up stays recorded.
LEMMA LateStays ==
    ASSUME TypeOK, LateOK, late' \subseteq late, \A y \in Schemas : mishaps[y] \subseteq mishaps'[y]
    PROVE  LateOK'
<1>1. \A call \in late : call[1] \in Schemas
  BY DEF TypeOK
<1> QED
  BY <1>1 DEF LateOK

\* gorm's Save of an updated row.
LEMMA SaveSchemaOK ==
    ASSUME IInv, NEW r \in Requests, SaveSchema(r)
    PROVE  IInv'
<1> DEFINE x == task[r].schema
           draft == task[r].draft
<1>1. /\ task[r].at = "save row" /\ x \in Schemas /\ draft \in Row /\ task[r].sub = Nil
      /\ UNCHANGED <<submissions, metadata, late, drawn, confirmed, strained, started>>
  BY DEF SaveSchema, IInv, TaskOK, Fits, Updating
<1>2. PICK result \in Endings \ {"late"} :
         /\ Ends(TRUE, result)
         /\ schemas' = IF TookEffect(result) THEN [schemas EXCEPT ![x] = draft] ELSE schemas
         /\ Recorded(x, IF TookEffect(result) THEN SavedOver(schemas[x], draft) ELSE {})
  BY DEF SaveSchema
<1>3. /\ mishaps' \in [Schemas -> SUBSET Mishap] /\ faults' \in Nat
      /\ \A y \in Schemas : mishaps[y] \subseteq mishaps'[y]
      /\ TookEffect(result) => SavedOver(schemas[x], draft) \cap Mishap \subseteq mishaps'[x]
  BY <1>1, <1>2, RecordedFacts, EndsFacts DEF IInv
<1>4. Becomes(r, IdleTask)
  BY AnswerEnds DEF SaveSchema, IInv
<1>5. draft # Nil
  BY <1>1, ConstantsAssumption DEF ConstantsAssumption
<1>6. TypeOK'
  BY <1>1, <1>2, <1>3, <1>4 DEF IInv, TypeOK, Becomes
<1>7. TaskOK'
  BY <1>4, MemoryKept, IdleFacts DEF IInv, Becomes
<1>8. ASSUME NEW y \in Schemas
      PROVE  RowMoves(y)
  <2>1. CASE ~TookEffect(result) \/ y # x
    BY <1>2, <2>1 DEF RowMoves, IInv, TypeOK
  <2>2. CASE TookEffect(result) /\ y = x
    <3>1. schemas'[x] = draft
      BY <1>1, <1>2, <2>2 DEF IInv, TypeOK
    <3>2. SavedOver(schemas[x], draft) \cap Mishap \subseteq mishaps'[x]
      BY <1>3, <2>2
    <3>3. schemas[x] = Nil => <<"row", "saved again">> \in mishaps'[x]
      BY <3>2, MishapFacts DEF SavedOver
    <3>4. schemas[x] # Nil /\ schemas[x].fields # draft.fields
             => <<"row", "new SDL">> \in mishaps'[x]
      BY <3>2, MishapFacts DEF SavedOver
    <3>5. schemas[x] # Nil /\ schemas[x].member # draft.member
             => <<"row", "changed hands">> \in mishaps'[x]
      BY <3>2, MishapFacts DEF SavedOver
    <3> QED
      BY <1>5, <2>2, <3>1, <3>3, <3>4, <3>5 DEF RowMoves, KeepsRow
  <2> QED
    BY <2>1, <2>2
<1>9. \A y \in Schemas : TasksKept(y)
  BY <1>1, <1>4, EndKept, OthersKept DEF Settling, Becomes
<1>10. SchemasOK'
  <2>1. \A y \in Schemas : SchemaOK(y)'
    BY <1>1, <1>3, <1>8, <1>9, SchemaKept DEF IInv, SchemasOK, RecordsMove
  <2> QED
    BY <1>1, <1>3, <2>1, LateStays DEF IInv, SchemasOK
<1>11. SubmissionsOK'
  BY <1>1, <1>4, EndKept, QuietSubmissions DEF IInv, Becomes, ConfirmedStay
<1> QED
  BY <1>6, <1>7, <1>10, <1>11 DEF IInv

\* The call that changes a record.
LEMMA CallMetadataOK ==
    ASSUME IInv, NEW r \in Requests, CallMetadata(r)
    PROVE  IInv'
<1> DEFINE x == task[r].schema
           f == task[r].record
<1>1. /\ task[r].at = "alter record" /\ x \in Schemas /\ task[r].sub = Nil
      /\ UNCHANGED <<schemas, submissions, late, drawn, confirmed, strained, started>>
      /\ outlived' = outlived \ {r}
  BY DEF CallMetadata, IInv, TaskOK, Fits, Altering
<1>2. /\ \/ /\ metadata' = [metadata EXCEPT ![x] = @ \ {f}]
            /\ task' = [Removed(x, {f}) EXCEPT ![r] = IdleTask]
            /\ Recorded(x, {<<"record", "deleted">>})
         \/ task' = [task EXCEPT ![r] = IdleTask] /\ UNCHANGED <<metadata, mishaps>>
      /\ faults' \in Nat
  BY EndsFacts DEF CallMetadata, IInv
<1>3. Becomes(r, IdleTask)
  BY <1>1, <1>2, BecomesTask, RemovesAndEnds, IdleFacts DEF IInv
<1>4. /\ mishaps' \in [Schemas -> SUBSET Mishap]
      /\ \A y \in Schemas : mishaps[y] \subseteq mishaps'[y]
      /\ metadata' = metadata \/ <<"record", "deleted">> \in mishaps'[x]
  BY <1>1, <1>2, RecordedFacts, MishapFacts DEF IInv, TypeOK
<1>5. /\ metadata' \in [Schemas -> SUBSET Fields]
      /\ metadata'[x] \subseteq metadata[x]
      /\ \A y \in Schemas \ {x} : metadata'[y] = metadata[y]
  <2>1. metadata \in [Schemas -> SUBSET Fields] /\ metadata[x] \ {f} \in SUBSET Fields
    BY <1>1 DEF IInv, TypeOK
  <2>2. CASE metadata' = [metadata EXCEPT ![x] = @ \ {f}]
    <3>1. metadata' = [metadata EXCEPT ![x] = metadata[x] \ {f}]
      BY <2>2
    <3> HIDE DEF x, f
    <3> QED
      BY <1>1, <2>1, <3>1
  <2> QED
    BY <1>2, <2>1, <2>2
<1>6. TypeOK'
  BY <1>1, <1>2, <1>3, <1>4, <1>5 DEF IInv, TypeOK, Becomes
<1>7. TaskOK'
  BY <1>3, MemoryKept, IdleFacts DEF IInv, Becomes
<1>8. \A y \in Schemas : TasksKept(y)
  BY <1>1, <1>3, EndKept, OthersKept DEF Settling, Becomes
<1>9. \A y \in Schemas : RowMoves(y) /\ RecordsMove(y)
  BY <1>1, <1>4, <1>5 DEF RowMoves, RecordsMove
<1>10. SchemasOK'
  <2>1. \A y \in Schemas : SchemaOK(y)'
    BY <1>1, <1>4, <1>8, <1>9, SchemaKept DEF IInv, SchemasOK
  <2> QED
    BY <1>1, <1>4, <2>1, LateStays DEF IInv, SchemasOK
<1>11. SubmissionsOK'
  BY <1>1, <1>3, EndKept, QuietSubmissions DEF IInv, Becomes, ConfirmedStay
<1> QED
  BY <1>6, <1>7, <1>10, <1>11 DEF IInv

\* Records that arrive after the client has given up.
LEMMA LateSyncOK ==
    ASSUME IInv, LateSync
    PROVE  IInv'
<1>1. PICK call \in late :
         /\ late' = late \ {call}
         /\ Stores(call[1], call[2])
  BY DEF LateSync
<1> DEFINE x == call[1]
<1>2. /\ x \in Schemas /\ call[2] \in SUBSET Fields
      /\ <<"sync", "late">> \in mishaps[x]
  BY DEF IInv, TypeOK, SchemasOK, LateOK
<1>3. /\ metadata' = [metadata EXCEPT ![x] = call[2]]
      /\ task' = Removed(x, metadata[x] \ call[2])
      /\ UNCHANGED <<schemas, submissions, drawn, outlived, confirmed, mishaps,
                     strained, faults, started>>
  BY <1>1 DEF LateSync, Stores
<1>4. /\ task' \in [Requests -> Task]
      /\ \A q \in Requests : Like(task[q], task'[q])
  BY <1>3, RemovedTasks DEF IInv
<1>5. TypeOK'
  BY <1>1, <1>2, <1>3, <1>4 DEF IInv, TypeOK
<1>6. TaskOK'
  BY <1>4, LikeFits DEF IInv, TaskOK
<1>7. /\ \A y \in Schemas : TasksKept(y)
      /\ \A s \in Submissions : ReviewsKept(s)
  BY <1>3, <1>4, LikeKept DEF TasksKept, ReviewsKept
<1>8. \A y \in Schemas : RowMoves(y) /\ RecordsMove(y)
  BY <1>2, <1>3 DEF RowMoves, RecordsMove, IInv, TypeOK
<1>9. SchemasOK'
  <2>1. \A y \in Schemas : SchemaOK(y)'
    BY <1>3, <1>7, <1>8, SchemaKept DEF IInv, SchemasOK
  <2> QED
    BY <1>1, <1>3, <2>1, LateStays DEF IInv, SchemasOK
<1>10. SubmissionsOK'
  BY <1>3, <1>7, SubmissionKept DEF IInv, SubmissionsOK, ConfirmedStay
<1> QED
  BY <1>5, <1>6, <1>9, <1>10 DEF IInv

-----------------------------------------------------------------------------
(* The creation of a schema.                                               *)

\* What the creation of a schema remembers.
LEMMA CreationFacts ==
    ASSUME IInv, NEW r \in Requests, task[r].at \in Creating
    PROVE  /\ task[r].schema \in Schemas
           /\ task[r].sub \in Submissions \cup {Nil}
           /\ task[r].draft.member \in Members /\ task[r].draft.fields \in Sdl
           /\ task[r].at \notin Updating \cup Altering
           /\ task[r].at # "save submission"
<1>1. task[r] \in Task /\ Fits(task[r])
  BY DEF IInv, TypeOK, TaskOK
<1>2. task[r].sub \in Submissions \cup {Nil}
  BY <1>1 DEF Task
<1>3. task[r].draft \in Row \/ task[r].draft \in SubmissionRow
  BY <1>1 DEF Fits
<1>4. task[r].draft.member \in Members /\ task[r].draft.fields \in Sdl
  BY <1>3 DEF Row, SubmissionRow
<1>5. task[r].at \notin Updating \cup Altering /\ task[r].at # "save submission"
  BY DEF Creating, Updating, Altering
<1> QED
  BY <1>1, <1>2, <1>4, <1>5 DEF Fits

\* A step of a creation says nothing about other schemas.
LEMMA TaskElsewhere ==
    ASSUME NEW r \in Requests, NEW y \in Schemas, y # task[r].schema,
           task'[r].schema \in {task[r].schema, Nil}
    PROVE  TaskKept(r, y)
BY ConstantsAssumption DEF TaskKept, Settles, ConstantsAssumption

\* A creation goes on.
LEMMA CreationGoesOn ==
    ASSUME IInv, NEW r \in Requests, task[r].at \in Creating, NEW step \in Settling,
           Moved(r, step)
    PROVE  /\ TaskOK'
           /\ \A s \in Submissions : ReviewKept(r, s)
           /\ \A y \in Schemas \ {task[r].schema} : TasksKept(y)
           /\ Settles(r, task[r].schema)' /\ task'[r].draft = task[r].draft
<1>1. /\ task'[r].at = step /\ task'[r].caller = task[r].caller
      /\ task'[r].schema = task[r].schema /\ task'[r].sub = task[r].sub
      /\ task'[r].draft = task[r].draft /\ Others(r)
  BY DEF Moved
<1>2. step # "save submission" /\ step # "idle" /\ step # "reopen" /\ step # "save row"
      /\ step \in Creating /\ step \notin Updating \cup Altering
  BY DEF Settling, Creating, Updating, Altering
<1>3. Fits(task'[r])
  BY <1>1, <1>2 DEF Fits, IInv, TaskOK
<1>4. TaskOK'
  BY <1>1, <1>3, MemoryKept DEF IInv
<1>5. \A y \in Schemas \ {task[r].schema} : TasksKept(y)
  BY <1>1, TaskElsewhere, OthersKept
<1>6. \A s \in Submissions : ReviewKept(r, s)
  BY <1>2, MoveKept
<1> QED
  BY <1>1, <1>4, <1>5, <1>6 DEF Settles

\* A creation fails: it ends, or goes on to reopen its submission.
LEMMA CreationFails ==
    ASSUME IInv, NEW r \in Requests, task[r].at \in Creating,
           \/ Becomes(r, IdleTask) /\ task[r].sub = Nil
           \/ Moved(r, "reopen") /\ task[r].sub # Nil
    PROVE  /\ TaskOK' /\ task' \in [Requests -> Task] /\ outlived' \subseteq Requests
           /\ Others(r)
           /\ task'[r].at \notin Settling \cup Updating \cup Altering
           /\ \A s \in Submissions : ReviewKept(r, s)
           /\ \A y \in Schemas \ {task[r].schema} : TasksKept(y)
           /\ task[r].at = "insert" => \A y \in Schemas : TasksKept(y)
<1>1. /\ Fits(task[r]) /\ task[r].sub \in Submissions \cup {Nil}
  BY CreationFacts DEF IInv, TaskOK
<1>2. "reopen" \notin Settling \cup Updating \cup Altering
      /\ "reopen" \notin Creating /\ "reopen" # "save submission"
  BY DEF Settling, Updating, Altering, Creating
<1>3. CASE Becomes(r, IdleTask) /\ task[r].sub = Nil
  <2>1. task'[r] = IdleTask /\ Others(r)
    BY <1>3 DEF Becomes
  <2>2. TaskOK'
    BY <2>1, IdleFacts, MemoryKept DEF IInv
  <2>3. \A y \in Schemas \ {task[r].schema} : TasksKept(y)
    BY <2>1, IdleFacts, TaskElsewhere, OthersKept
  <2>4. task[r].at = "insert" => \A y \in Schemas : TasksKept(y)
    BY <1>3, <2>1, EndKept, OthersKept DEF Settling
  <2> QED
    BY <1>3, <2>1, <2>2, <2>3, <2>4, IdleFacts, EndKept DEF Becomes
<1>4. CASE Moved(r, "reopen") /\ task[r].sub # Nil
  <2>1. /\ task'[r].at = "reopen" /\ task'[r].caller = task[r].caller
        /\ task'[r].schema = task[r].schema /\ task'[r].sub = task[r].sub
        /\ task'[r].draft = task[r].draft /\ Others(r)
    BY <1>4 DEF Moved
  <2>2. Fits(task'[r])
    BY <1>1, <1>2, <1>4, <2>1 DEF Fits
  <2>3. TaskOK'
    BY <2>1, <2>2, MemoryKept DEF IInv
  <2>4. \A y \in Schemas \ {task[r].schema} : TasksKept(y)
    BY <2>1, TaskElsewhere, OthersKept
  <2>5. \A s \in Submissions : ReviewKept(r, s)
    BY <1>2, <1>4, MoveKept
  <2>6. task[r].at = "insert" => \A y \in Schemas : TasksKept(y)
    BY <1>2, <1>4, <2>1, MoveKept, OthersKept DEF Settling
  <2> QED
    BY <1>2, <1>4, <2>1, <2>3, <2>4, <2>5, <2>6 DEF Moved
<1> QED
  BY <1>3, <1>4

\* The row of the schema, inserted.
LEMMA InsertSchemaOK ==
    ASSUME IInv, NEW r \in Requests, InsertSchema(r)
    PROVE  IInv'
<1> DEFINE row == [member |-> task[r].draft.member, fields |-> task[r].draft.fields]
<1>0. PICK x \in Schemas : x = task[r].schema
  BY CreationFacts DEF InsertSchema, Creating
<1>1. /\ task[r].at = "insert" /\ task[r].at \in Creating /\ task[r].schema = x
      /\ UNCHANGED <<submissions, metadata, late, drawn, confirmed, strained, started>>
  BY <1>0, CreationFacts DEF InsertSchema, Creating
<1>2. row \in Row /\ row # Nil
  <2>1. row \in Row
    BY <1>1, CreationFacts DEF Row
  <2> QED
    BY <2>1, ConstantsAssumption DEF ConstantsAssumption
<1>3. PICK result \in Endings \ {"late"} :
         /\ Ends(schemas[x] = Nil, result)
         /\ Recorded(x, {<<"insert", result>>})
         /\ schemas' = IF ~ TookEffect(result) THEN schemas
                       ELSE [schemas EXCEPT ![x] = row]
         /\ IF result = "done" THEN GoTo(r, "sync") ELSE FailCreation(r)
  BY <1>1 DEF InsertSchema
<1> HIDE DEF row
<1>4. /\ mishaps' \in [Schemas -> SUBSET Mishap] /\ faults' \in Nat
      /\ \A y \in Schemas : mishaps[y] \subseteq mishaps'[y]
      /\ {<<"insert", result>>} \cap Mishap \subseteq mishaps'[x]
      /\ TookEffect(result) => schemas[x] = Nil
  <2>1. TypeOK
    BY DEF IInv
  <2>2. /\ mishaps' \in [Schemas -> SUBSET Mishap]
        /\ \A y \in Schemas : mishaps[y] \subseteq mishaps'[y]
        /\ {<<"insert", result>>} \cap Mishap \subseteq mishaps'[x]
    BY <1>1, <1>3, <2>1, RecordedFacts
  <2>3. faults' \in Nat /\ (TookEffect(result) => schemas[x] = Nil)
    BY <1>3, <2>1, EndsFacts DEF TookEffect
  <2> QED
    BY <2>2, <2>3
<1>5. /\ schemas' \in [Schemas -> Row \cup {Nil}]
      /\ \A y \in Schemas \ {x} : schemas'[y] = schemas[y]
      /\ schemas'[x] = IF TookEffect(result) THEN row ELSE schemas[x]
  BY <1>1, <1>2, <1>3 DEF IInv, TypeOK
<1>6. LateOK'
  BY <1>1, <1>4, LateStays DEF IInv, SchemasOK
<1>7. SchemaOK(x)
  BY <1>1 DEF IInv, SchemasOK
<1>8. CASE result # "done"
  <2>1. FailCreation(r)
    BY <1>3, <1>8
  <2>2. /\ TaskOK' /\ task' \in [Requests -> Task] /\ outlived' \subseteq Requests
        /\ Others(r)
        /\ \A s \in Submissions : ReviewKept(r, s)
        /\ \A y \in Schemas : TasksKept(y)
    BY <1>1, <2>1, FailCreationFails, CreationFails DEF IInv
  <2>3. TypeOK'
    BY <1>1, <1>4, <1>5, <2>2 DEF IInv, TypeOK
  <2>4. RowMoves(x)
    <3>1. CASE TookEffect(result)
      <4>1. <<"insert", "lost">> \in mishaps'[x]
        BY <1>4, <1>8, <3>1, MishapFacts DEF TookEffect
      <4> QED
        BY <1>2, <1>4, <1>5, <3>1, <4>1 DEF RowMoves, KeepsRow
    <3>2. CASE ~ TookEffect(result)
      BY <1>5, <3>2 DEF RowMoves
    <3> QED
      BY <3>1, <3>2
  <2>5. \A y \in Schemas : RowMoves(y) /\ RecordsMove(y)
    BY <1>1, <1>5, <2>4 DEF RowMoves, RecordsMove
  <2>6. SchemasOK'
    <3>1. \A y \in Schemas : SchemaOK(y)'
      BY <1>1, <1>4, <2>2, <2>5, SchemaKept DEF IInv, SchemasOK
    <3> QED
      BY <1>6, <3>1 DEF SchemasOK
  <2>7. SubmissionsOK'
    BY <1>1, <2>2, QuietSubmissions DEF IInv, ConfirmedStay
  <2> QED
    BY <2>2, <2>3, <2>6, <2>7 DEF IInv
<1>9. CASE result = "done"
  <2>1. "sync" \in Settling /\ "sync" \in Steps
    BY DEF Settling, Steps, Creating
  <2>2. Moved(r, "sync")
    BY <1>3, <1>9, <2>1, GoToMoves DEF IInv
  <2>3. /\ TaskOK' /\ task' \in [Requests -> Task] /\ outlived' \subseteq Requests
        /\ Others(r)
        /\ \A s \in Submissions : ReviewKept(r, s)
        /\ \A y \in Schemas \ {x} : TasksKept(y)
        /\ Settles(r, x)' /\ task'[r].draft = task[r].draft /\ task'[r].at = "sync"
    BY <1>1, <2>1, <2>2, CreationGoesOn DEF Moved
  <2>4. TypeOK'
    BY <1>1, <1>4, <1>5, <2>3 DEF IInv, TypeOK
  <2>5. schemas[x] = Nil /\ schemas'[x] = row /\ schemas'[x] # Nil /\ confirmed[x] = Nil
    <3>1. schemas[x] = Nil /\ schemas'[x] = row
      BY <1>4, <1>5, <1>9 DEF TookEffect
    <3> QED
      BY <1>2, <1>7, <3>1 DEF SchemaOK, InStep
  <2>6. \A q \in Requests : ~ Settles(q, x)
    BY <1>7, <2>5 DEF SchemaOK, Inserted
  <2>7. \A q \in Requests : Settles(q, x)' => q = r
    BY <2>3, <2>6 DEF Others, Like, Settles
  <2>8. Inserted(r, x)'
    <3>1. schemas'[x].fields = task'[r].draft.fields /\ schemas'[x].member = task'[r].draft.member
      BY <2>3, <2>5 DEF row
    <3>2. metadata[x] = {} \/ <<"sync", "late">> \in mishaps[x]
      BY <1>7, <2>5 DEF SchemaOK, RecordsExplained
    <3> QED
      BY <1>1, <1>4, <2>5, <3>1, <3>2 DEF Inserted
  <2>9. ASSUME NEW q \in Requests, Works(q, x)'
        PROVE  HasAccess(q, x)'
    <3>1. q # r
      BY <2>3, <2>9 DEF Works, Updating, Altering
    <3>2. Like(task[q], task'[q]) /\ (q \in outlived => q \in outlived')
      BY <2>3, <3>1 DEF Others
    <3>3. Works(q, x)
      BY <2>9, <3>2 DEF Like, Works
    <3>4. q \in outlived \/ <<"row", "changed hands">> \in mishaps[x]
      BY <1>7, <2>5, <3>3 DEF SchemaOK, HasAccess
    <3> QED
      BY <1>1, <1>4, <3>2, <3>4 DEF HasAccess
  <2>10. SchemaOK(x)'
    <3>1. Explained(x)' /\ InStep(x)' /\ RecordsExplained(x)'
      BY <1>1, <2>3, <2>5 DEF Explained, InStep, RecordsExplained
    <3> QED
      BY <2>7, <2>8, <2>9, <3>1 DEF SchemaOK
  <2>11. SchemasOK'
    BY <1>1, <1>4, <1>5, <1>6, <2>3, <2>10, OneSchema DEF IInv
  <2>12. SubmissionsOK'
    BY <1>1, <2>3, QuietSubmissions DEF IInv, ConfirmedStay
  <2> QED
    BY <2>3, <2>4, <2>11, <2>12 DEF IInv
<1> QED
  BY <1>8, <1>9

\* The records of the schema, sent to the PDP.
LEMMA SyncMetadataOK ==
    ASSUME IInv, NEW r \in Requests, SyncMetadata(r)
    PROVE  IInv'
<1>0. PICK x \in Schemas : x = task[r].schema
  BY CreationFacts DEF SyncMetadata, Creating
<1>1. PICK draft : draft = task[r].draft
  OBVIOUS
<1>2. /\ task[r].at = "sync" /\ task[r].at \in Creating /\ task[r].at \in Settling
      /\ task[r].schema = x /\ Settles(r, x)
      /\ draft.member \in Members /\ draft.fields \in Sdl
      /\ task[r].sub \in Submissions \cup {Nil}
      /\ UNCHANGED <<schemas, submissions, drawn, strained, started>>
  <2>1. task[r].at = "sync" /\ task[r].at \in Creating /\ task[r].at \in Settling
    BY DEF SyncMetadata, Creating, Settling
  <2> QED
    BY <1>0, <1>1, <2>1, CreationFacts DEF SyncMetadata, Settles
<1>3. PICK result \in Endings \ {"lost"} :
         /\ Ends(draft.fields # Invalid, result)
         /\ IF result = "done"
            THEN /\ metadata' = [metadata EXCEPT ![x] = draft.fields]
                 /\ task' = [Removed(x, metadata[x] \ draft.fields) EXCEPT ![r] = IdleTask]
                 /\ outlived' = outlived \ {r}
                 /\ confirmed' = [confirmed EXCEPT ![x] =
                       [member |-> draft.member, submission |-> task[r].sub]]
            ELSE GoTo(r, "delete row") /\ UNCHANGED <<metadata, confirmed>>
         /\ late' = IF result = "late" THEN late \cup {<<x, draft.fields>>} ELSE late
         /\ Recorded(x, {<<"sync", result>>})
  BY <1>1, <1>2 DEF SyncMetadata
<1>4. TypeOK /\ SchemaOK(x) /\ Inserted(r, x)
  BY <1>2 DEF IInv, SchemasOK, SchemaOK
<1>5. /\ mishaps' \in [Schemas -> SUBSET Mishap]
      /\ \A y \in Schemas : mishaps[y] \subseteq mishaps'[y]
      /\ {<<"sync", result>>} \cap Mishap \subseteq mishaps'[x]
  BY <1>3, <1>4, RecordedFacts
<1>6. faults' \in Nat /\ (result \in {"done", "late"} => draft.fields # Invalid)
  BY <1>3, <1>4, EndsFacts
<1>7. draft.fields # Invalid => draft.fields \in SUBSET Fields
  BY <1>2 DEF Sdl
<1>8. LateOK' /\ late' \subseteq Schemas \X SUBSET Fields
  <2>1. LateOK /\ late \subseteq Schemas \X SUBSET Fields
    BY DEF IInv, TypeOK, SchemasOK
  <2>2. CASE result = "late"
    <3>1. late' = late \cup {<<x, draft.fields>>} /\ draft.fields \in SUBSET Fields
      BY <1>3, <1>6, <1>7, <2>2
    <3>2. <<"sync", "late">> \in mishaps'[x]
      BY <1>5, <2>2, MishapFacts
    <3> QED
      BY <1>5, <2>1, <3>1, <3>2 DEF LateOK
  <2>3. CASE result # "late"
    BY <1>3, <1>4, <1>5, <2>1, <2>3, LateStays
  <2> QED
    BY <2>2, <2>3
<1>9. CASE result # "done"
  <2>1. GoTo(r, "delete row") /\ UNCHANGED <<metadata, confirmed>>
    BY <1>3, <1>9
  <2>2. "delete row" \in Settling /\ "delete row" \in Steps
    BY DEF Settling, Steps, Creating
  <2>3. Moved(r, "delete row")
    BY <1>4, <2>1, <2>2, GoToMoves
  <2>4. /\ TaskOK' /\ task' \in [Requests -> Task] /\ outlived' \subseteq Requests
        /\ Others(r)
        /\ \A s \in Submissions : ReviewKept(r, s)
        /\ \A y \in Schemas : TasksKept(y)
    BY <1>2, <2>2, <2>3, CreationGoesOn, MoveKept, OthersKept DEF Moved
  <2>5. TypeOK'
    BY <1>2, <1>4, <1>5, <1>6, <1>8, <2>1, <2>4 DEF TypeOK
  <2>6. SchemasOK'
    <3>1. \A y \in Schemas : RowMoves(y) /\ RecordsMove(y)
      BY <1>2, <2>1 DEF RowMoves, RecordsMove
    <3>2. \A y \in Schemas : SchemaOK(y)'
      BY <1>5, <2>1, <2>4, <3>1, SchemaKept DEF IInv, SchemasOK
    <3> QED
      BY <1>8, <3>2 DEF SchemasOK
  <2>7. SubmissionsOK'
    BY <1>2, <2>1, <2>4, QuietSubmissions DEF IInv, ConfirmedStay
  <2> QED
    BY <2>4, <2>5, <2>6, <2>7 DEF IInv
<1>10. CASE result = "done"
  <2> DEFINE report == [member |-> draft.member, submission |-> task[r].sub]
  <2>1. /\ metadata' = [metadata EXCEPT ![x] = draft.fields]
        /\ task' = [Removed(x, metadata[x] \ draft.fields) EXCEPT ![r] = IdleTask]
        /\ outlived' = outlived \ {r}
        /\ confirmed' = [confirmed EXCEPT ![x] = report]
    BY <1>3, <1>10
  <2>2. report \in Confirmation /\ report # Nil /\ report.submission = task[r].sub
    <3>1. report \in Confirmation
      BY <1>2 DEF Confirmation
    <3> QED
      BY <3>1, ConstantsAssumption DEF ConstantsAssumption
  <2> HIDE DEF report
  <2>3. draft.fields \in SUBSET Fields
    BY <1>6, <1>7, <1>10
  <2>4. /\ metadata' \in [Schemas -> SUBSET Fields] /\ metadata'[x] = draft.fields
        /\ \A y \in Schemas \ {x} : metadata'[y] = metadata[y]
    BY <1>4, <2>1, <2>3 DEF TypeOK
  <2>5. /\ confirmed' \in [Schemas -> Confirmation \cup {Nil}] /\ confirmed'[x] = report
        /\ \A y \in Schemas \ {x} : confirmed'[y] = confirmed[y]
    BY <1>4, <2>1, <2>2 DEF TypeOK
  <2>6. Becomes(r, IdleTask)
    BY <1>4, <2>1, RemovesAndEnds
  <2>7. /\ task'[r] = IdleTask /\ Others(r)
        /\ task' \in [Requests -> Task] /\ outlived' \subseteq Requests
    BY <2>6 DEF Becomes
  <2>8. TypeOK'
    BY <1>2, <1>4, <1>5, <1>6, <1>8, <2>4, <2>5, <2>7 DEF TypeOK
  <2>9. TaskOK'
    BY <2>7, IdleFacts, MemoryKept DEF IInv
  <2>10. \A y \in Schemas \ {x} : TasksKept(y)
    BY <1>2, <2>7, IdleFacts, TaskElsewhere, OthersKept
  <2>11. ASSUME NEW q \in Requests
         PROVE  ~ Settles(q, x)'
    <3> SUFFICES ASSUME Settles(q, x)'
                 PROVE  FALSE
      OBVIOUS
    <3>1. q # r
      BY <2>7, IdleFacts DEF Settles
    <3>2. Settles(q, x)
      BY <2>7, <3>1 DEF Others, Like, Settles
    <3> QED
      BY <1>2, <1>4, <3>1, <3>2 DEF SchemaOK
  <2>12. ASSUME NEW q \in Requests, Works(q, x)'
         PROVE  HasAccess(q, x)'
    <3>1. q # r
      BY <2>7, <2>12, IdleFacts DEF Works
    <3>2. Like(task[q], task'[q]) /\ (q \in outlived => q \in outlived')
      BY <2>7, <3>1 DEF Others
    <3>3. Works(q, x) /\ HasAccess(q, x) /\ task'[q].caller = task[q].caller
      BY <1>4, <2>12, <3>2 DEF SchemaOK, Like, Works
    <3> QED
      BY <1>2, <1>5, <3>2, <3>3 DEF HasAccess
  <2>13. SchemaOK(x)'
    <3>1. schemas'[x] # Nil /\ confirmed'[x] # Nil
      BY <1>2, <1>4, <2>2, <2>5 DEF Inserted
    <3>2. metadata'[x] = schemas'[x].fields \/ mishaps'[x] \cap OutOfStep # {}
      <4>1. schemas[x].fields = draft.fields \/ <<"row", "new SDL">> \in mishaps'[x]
        BY <1>1, <1>4, <1>5 DEF Inserted
      <4> QED
        BY <1>2, <2>4, <4>1 DEF OutOfStep
    <3>3. Explained(x)' /\ InStep(x)' /\ RecordsExplained(x)'
      BY <3>1, <3>2 DEF Explained, InStep, RecordsExplained
    <3> QED
      BY <2>11, <2>12, <3>3 DEF SchemaOK
  <2>14. SchemasOK'
    BY <1>2, <1>5, <1>8, <2>4, <2>5, <2>10, <2>13, OneSchema DEF IInv
  <2>15. ConfirmedStay
    BY <1>4, <2>5 DEF ConfirmedStay, Inserted
  <2>16. ASSUME NEW s \in Submissions
         PROVE  ReviewKept(r, s)
    <3>1. task'[r].sub # s
      BY <2>7, IdleFacts, ConstantsAssumption DEF ConstantsAssumption
    <3>2. task[r].sub = s => HasSchema(s)'
      BY <2>2, <2>5 DEF HasSchema
    <3> QED
      BY <3>1, <3>2 DEF ReviewKept
  <2>17. SubmissionsOK'
    BY <1>2, <2>7, <2>15, <2>16, QuietSubmissions DEF IInv
  <2> QED
    BY <2>8, <2>9, <2>14, <2>17 DEF IInv
<1> QED
  BY <1>9, <1>10

\* The delete that undoes the insert.
LEMMA DeleteSchemaOK ==
    ASSUME IInv, NEW r \in Requests, DeleteSchema(r)
    PROVE  IInv'
<1>0. PICK x \in Schemas : x = task[r].schema
  BY CreationFacts DEF DeleteSchema, Creating
<1>1. /\ task[r].at = "delete row" /\ task[r].at \in Creating
      /\ task[r].schema = x /\ Settles(r, x)
      /\ UNCHANGED <<submissions, metadata, late, drawn, confirmed, strained, started>>
  BY <1>0 DEF DeleteSchema, Creating, Settling, Settles
<1>2. PICK result \in Endings \ {"late"} :
         /\ Ends(~ Referenced(x), result)
         /\ Recorded(x, {<<"delete row", result>>})
         /\ schemas' = IF TookEffect(result) THEN [schemas EXCEPT ![x] = Nil] ELSE schemas
         /\ outlived' = IF ~ TookEffect(result) THEN outlived
               ELSE outlived \cup {q \in Requests :
                       task[q].schema = x /\ task[q].at \in Updating \cup Altering}
  BY <1>1 DEF DeleteSchema
<1>3. TypeOK /\ SchemaOK(x) /\ Inserted(r, x)
  BY <1>1 DEF IInv, SchemasOK, SchemaOK
<1>4. /\ mishaps' \in [Schemas -> SUBSET Mishap]
      /\ \A y \in Schemas : mishaps[y] \subseteq mishaps'[y]
      /\ {<<"delete row", result>>} \cap Mishap \subseteq mishaps'[x]
  BY <1>2, <1>3, RecordedFacts
<1>5. faults' \in Nat
  BY <1>2, <1>3, EndsFacts
<1>6. /\ schemas' \in [Schemas -> Row \cup {Nil}]
      /\ \A y \in Schemas \ {x} : schemas'[y] = schemas[y]
      /\ schemas'[x] = IF TookEffect(result) THEN Nil ELSE schemas[x]
  BY <1>2, <1>3 DEF TypeOK
<1>7. outlived \subseteq outlived' /\ outlived' \subseteq Requests
  BY <1>2, <1>3 DEF TypeOK
<1>8. \/ Becomes(r, IdleTask) /\ task[r].sub = Nil
      \/ Moved(r, "reopen") /\ task[r].sub # Nil
  <2> DEFINE u == IF task[r].sub = Nil THEN IdleTask ELSE [task[r] EXCEPT !.at = "reopen"]
  <2>1. task \in [Requests -> Task] /\ task' = [task EXCEPT ![r] = u]
    BY <1>3 DEF TypeOK, DeleteSchema
  <2>2. u \in Task
    BY <2>1, IdleFacts DEF Task, Steps
  <2>3. task[r].sub = Nil => u = IdleTask
    OBVIOUS
  <2>4. task[r].sub # Nil =>
           /\ u.at = "reopen" /\ u.caller = task[r].caller /\ u.schema = task[r].schema
           /\ u.sub = task[r].sub /\ u.draft = task[r].draft
    BY <2>1 DEF Task
  <2> HIDE DEF u
  <2>5. /\ task'[r] = u /\ task' \in [Requests -> Task]
        /\ \A q \in Requests \ {r} : task'[q] = task[q]
    BY <2>1, <2>2
  <2>6. Others(r)
    BY <1>7, <2>5, LikeItself DEF Others
  <2> QED
    BY <1>7, <2>3, <2>4, <2>5, <2>6 DEF Becomes, Moved
<1>9. /\ TaskOK' /\ task' \in [Requests -> Task] /\ Others(r)
      /\ task'[r].at \notin Settling \cup Updating \cup Altering
      /\ \A s \in Submissions : ReviewKept(r, s)
      /\ \A y \in Schemas \ {x} : TasksKept(y)
  BY <1>1, <1>8, CreationFails
<1>10. TypeOK'
  BY <1>1, <1>3, <1>4, <1>5, <1>6, <1>7, <1>9 DEF TypeOK
<1>11. ASSUME NEW q \in Requests
       PROVE  ~ Settles(q, x)'
  <2> SUFFICES ASSUME Settles(q, x)'
               PROVE  FALSE
    OBVIOUS
  <2>1. q # r
    BY <1>9 DEF Settles
  <2>2. Settles(q, x)
    BY <1>9, <2>1 DEF Others, Like, Settles
  <2> QED
    BY <1>1, <1>3, <2>1, <2>2 DEF SchemaOK
<1>12. ASSUME NEW q \in Requests, Works(q, x)'
       PROVE  HasAccess(q, x)'
  <2>1. q # r
    BY <1>9, <1>12 DEF Works
  <2>2. Like(task[q], task'[q]) /\ (q \in outlived => q \in outlived')
    BY <1>9, <2>1 DEF Others
  <2>3. Works(q, x) /\ HasAccess(q, x) /\ task'[q].caller = task[q].caller
    BY <1>3, <1>12, <2>2 DEF SchemaOK, Like, Works
  <2>4. CASE TookEffect(result)
    BY <1>2, <2>3, <2>4 DEF HasAccess, Works
  <2>5. CASE ~ TookEffect(result)
    BY <1>4, <1>6, <2>2, <2>3, <2>5 DEF HasAccess
  <2> QED
    BY <2>4, <2>5
<1>13. SchemaOK(x)'
  <2>1. confirmed'[x] = Nil /\ schemas[x] # Nil
        /\ (metadata'[x] = {} \/ <<"sync", "late">> \in mishaps'[x])
    BY <1>1, <1>3, <1>4 DEF Inserted
  <2>2. schemas'[x] = Nil \/ <<"delete row", "refused">> \in mishaps'[x]
    <3>1. CASE ~ TookEffect(result)
      <4>1. result = "refused"
        BY <3>1 DEF TookEffect, Endings
      <4> QED
        BY <1>4, <4>1, MishapFacts
    <3> QED
      BY <1>6, <3>1
  <2>3. Explained(x)' /\ InStep(x)' /\ RecordsExplained(x)'
    BY <2>1, <2>2 DEF Explained, InStep, RecordsExplained, KeepsRow
  <2> QED
    BY <1>11, <1>12, <2>3 DEF SchemaOK
<1>14. SchemasOK'
  <2>1. LateOK'
    BY <1>1, <1>3, <1>4, LateStays DEF IInv, SchemasOK
  <2> QED
    BY <1>1, <1>4, <1>6, <1>9, <1>13, <2>1, OneSchema DEF IInv
<1>15. SubmissionsOK'
  BY <1>1, <1>9, QuietSubmissions DEF IInv, ConfirmedStay
<1> QED
  BY <1>9, <1>10, <1>14, <1>15 DEF IInv

-----------------------------------------------------------------------------
(* The submissions.                                                        *)

\* Nothing happens to the schemas, and no request moves.
LEMMA CreateSchemaSubmissionOK ==
    ASSUME IInv, CreateSchemaSubmission
    PROVE  IInv'
<1>1. PICK s \in Submissions, member \in Members, fields \in Sdls,
           previous \in Existing \cup {Nil} :
         /\ submissions[s] = Nil
         /\ submissions' = [submissions EXCEPT ![s] = [member |-> member,
               fields |-> fields, status |-> "pending", previous |-> previous]]
  BY DEF CreateSchemaSubmission, MayOwn
<1> DEFINE row == [member |-> member, fields |-> fields, status |-> "pending",
                   previous |-> previous]
<1>2. row \in SubmissionRow /\ row.status = "pending"
  BY ConstantsAssumption DEF SubmissionRow, Statuses, Existing, ConstantsAssumption
<1> HIDE DEF row
<1>3. submissions' = [submissions EXCEPT ![s] = row]
  BY <1>1 DEF row
<1>4. /\ UNCHANGED <<schemas, metadata, late, task, drawn, outlived, confirmed,
                     mishaps, strained, faults>>
      /\ started' \in Nat
  BY StartsCount DEF CreateSchemaSubmission, IInv
<1>5. /\ submissions' \in [Submissions -> SubmissionRow \cup {Nil}]
      /\ submissions'[s] = row
      /\ \A z \in Submissions \ {s} : submissions'[z] = submissions[z]
  BY <1>2, <1>3 DEF IInv, TypeOK
<1>6. TypeOK'
  BY <1>4, <1>5 DEF IInv, TypeOK
<1>7. TaskOK'
  BY <1>4 DEF IInv, TaskOK
<1>8. \A q \in Requests : Like(task[q], task'[q]) /\ (q \in outlived => q \in outlived')
  BY <1>4, LikeItself
<1>9. SchemasOK'
  <2>1. \A y \in Schemas : TasksKept(y) /\ RowMoves(y) /\ RecordsMove(y)
    BY <1>4, <1>8, LikeKept DEF TasksKept, RowMoves, RecordsMove
  <2>2. \A y \in Schemas : SchemaOK(y)'
    BY <1>4, <2>1, SchemaKept DEF IInv, SchemasOK
  <2> QED
    BY <1>4, <2>2 DEF IInv, SchemasOK, LateOK
<1>10. ASSUME NEW z \in Submissions, z # s
       PROVE  SubmissionOK(z)'
  BY <1>4, <1>5, <1>8, <1>10, LikeKept, SubmissionKept
     DEF IInv, SubmissionsOK, ConfirmedStay, ReviewsKept
<1>11. SubmissionOK(s)'
  <2> SUFFICES ASSUME s \notin strained
               PROVE  SubmissionOK(s)'
    BY <1>4 DEF SubmissionOK
  <2>1. /\ \A r, q \in Requests : task[r].sub = s /\ task[q].sub = s => r = q
        /\ \A r \in Requests :
              task[r].sub = s /\ task[r].at = "save submission" => Reviews(r, s)
    BY DEF IInv, SubmissionsOK, SubmissionOK
  <2>2. \A r \in Requests : ~(task[r].sub = s /\ task[r].at = "save submission")
    BY <1>1, <2>1 DEF Reviews
  <2>3. submissions'[s].status # "approved"
    BY <1>2, <1>5
  <2> QED
    BY <1>4, <2>1, <2>2, <2>3 DEF SubmissionOK
<1>12. SubmissionsOK'
  BY <1>10, <1>11 DEF SubmissionsOK
<1> QED
  BY <1>6, <1>7, <1>9, <1>12 DEF IInv

\* A review of a submission begins: its row is loaded and changed in memory.
LEMMA UpdateSchemaSubmissionOK ==
    ASSUME IInv, NEW r \in Requests, UpdateSchemaSubmission(r)
    PROVE  IInv'
<1>1. PICK caller \in Callers, s \in Submissions, status \in Statuses \cup {Nil},
           fields \in Sdls \cup {Nil}, previous \in Existing \cup {Nil},
           x \in Schemas \cup {Nil} :
         LET loaded == submissions[s]
             draft  == [loaded EXCEPT !.status   = Updated(@, status),
                                      !.fields   = Updated(@, fields),
                                      !.previous = Updated(@, previous)]
         IN
         /\ loaded # Nil
         /\ CanAccess(caller, loaded.member)
         /\ IF status = "approved" THEN x # Nil /\ Draws(x) ELSE x = Nil /\ UNCHANGED drawn
         /\ task' = [task EXCEPT ![r] = [IdleTask EXCEPT !.at = "save submission",
               !.schema = x, !.sub = s, !.draft = draft]]
         /\ strained' = IF \E q \in Requests : task[q].sub = s
                        THEN strained \cup {s} ELSE strained
  BY Zenon DEF UpdateSchemaSubmission
<1> DEFINE loaded == submissions[s]
           draft  == [loaded EXCEPT !.status   = Updated(@, status),
                                    !.fields   = Updated(@, fields),
                                    !.previous = Updated(@, previous)]
           u == [IdleTask EXCEPT !.at = "save submission",
                    !.schema = x, !.sub = s, !.draft = draft]
<1>2. /\ task[r].at = "idle" /\ task[r] = IdleTask /\ TypeOK /\ started' \in Nat
      /\ UNCHANGED <<schemas, submissions, metadata, late, outlived, confirmed,
                     mishaps, faults>>
  BY StartsCount DEF UpdateSchemaSubmission, IInv, TaskOK, Fits
<1>3. loaded \in SubmissionRow
  BY <1>1, <1>2 DEF TypeOK
<1>4. draft \in SubmissionRow /\ draft.status = Updated(loaded.status, status)
  <2>1. /\ Updated(loaded.status, status) \in Statuses
        /\ Updated(loaded.fields, fields) \in Sdl
        /\ Updated(loaded.previous, previous) \in Schemas \cup {Nil}
    BY <1>3, ConstantsAssumption DEF Updated, SubmissionRow, Existing, ConstantsAssumption
  <2> QED
    BY <1>3, <2>1 DEF SubmissionRow
<1> HIDE DEF draft
<1>5. /\ u \in Task /\ u.at = "save submission" /\ u.caller = Nil /\ u.schema = x
      /\ u.sub = s /\ u.draft = draft
  <2>1. /\ u.at = "save submission" /\ u.caller = Nil /\ u.schema = x
        /\ u.sub = s /\ u.draft = draft
    BY DEF IdleTask
  <2>2. u \in Task
    BY <1>4, IdleFacts DEF Task, Steps
  <2> QED
    BY <2>1, <2>2
<1>6. task' = [task EXCEPT ![r] = u]
  BY <1>1 DEF draft
<1> HIDE DEF u
<1>7. Becomes(r, u)
  BY <1>2, <1>5, <1>6, BecomesTask
<1>8. task'[r] = u /\ Others(r) /\ task' \in [Requests -> Task] /\ outlived' \subseteq Requests
  BY <1>7 DEF Becomes
<1>9. /\ drawn' \subseteq Schemas /\ strained \subseteq strained' /\ strained' \subseteq Submissions
      /\ s \notin strained' => \A q \in Requests : task[q].sub # s
  <2>1. drawn' \subseteq Schemas
    BY <1>1, <1>2 DEF Draws, TypeOK
  <2>2. strained \subseteq Submissions
    BY <1>2 DEF TypeOK
  <2>3. strained' = IF \E q \in Requests : task[q].sub = s THEN strained \cup {s} ELSE strained
    BY <1>1
  <2> QED
    BY <2>1, <2>2, <2>3
<1>10. TypeOK'
  BY <1>2, <1>8, <1>9 DEF TypeOK
<1>11. TaskOK'
  <2>1. Fits(u)
    BY <1>4, <1>5 DEF Fits, Creating, Updating, Altering
  <2> QED
    BY <1>8, <2>1, MemoryKept DEF IInv
<1>12. SchemasOK'
  <2>1. ASSUME NEW y \in Schemas
        PROVE  TaskKept(r, y)
    BY <1>2, <1>5, <1>8, IdleFacts DEF TaskKept, Settles, Settling, Updating, Altering
  <2> QED
    BY <1>2, <1>8, <2>1, QuietSchemas DEF IInv
<1>13. ASSUME NEW z \in Submissions, z # s
       PROVE  SubmissionOK(z)'
  <2>1. ReviewKept(r, z)
    BY <1>2, <1>5, <1>8, <1>13, IdleFacts, ConstantsAssumption DEF ReviewKept, ConstantsAssumption
  <2>2. ReviewsKept(z)
    BY <1>8, <2>1, OthersKept
  <2> QED
    BY <1>2, <1>9, <2>2, SubmissionKept DEF IInv, SubmissionsOK, ConfirmedStay
<1>14. SubmissionOK(s)'
  <2> SUFFICES ASSUME s \notin strained'
               PROVE  SubmissionOK(s)'
    BY DEF SubmissionOK
  <2>1. \A q \in Requests \ {r} : task'[q].sub # s
    BY <1>8, <1>9 DEF Others, Like
  <2>2. loaded.status = "approved" => HasSchema(s)
    BY <1>1, <1>9 DEF IInv, SubmissionsOK, SubmissionOK
  <2>3. draft.status = "approved" /\ x = Nil => HasSchema(s)
    BY <1>1, <1>4, <2>2 DEF Updated
  <2>4. HasSchema(s)' <=> HasSchema(s)
    BY <1>2 DEF HasSchema
  <2>5. Reviews(r, s)'
    BY <1>1, <1>2, <1>5, <1>8, <2>2, <2>3, <2>4 DEF Reviews
  <2> QED
    BY <1>5, <1>8, <2>1, <2>5 DEF SubmissionOK
<1>15. SubmissionsOK'
  BY <1>13, <1>14 DEF SubmissionsOK
<1> QED
  BY <1>10, <1>11, <1>12, <1>15 DEF IInv

\* A review that has saved, or ends, leaves its submission explained.
LEMMA ReviewEnds ==
    ASSUME IInv, NEW r \in Requests, NEW s \in Submissions, task[r].sub = s,
           Others(r), task'[r].sub \in {s, Nil}, task'[r].at # "save submission",
           confirmed' = confirmed, strained \subseteq strained',
           \A z \in Submissions \ {s} : submissions'[z] = submissions[z],
           \/ s \in strained' \/ task'[r].sub = s \/ submissions'[s] = Nil
           \/ submissions'[s].status # "approved" \/ HasSchema(s)
    PROVE  SubmissionsOK'
<1>1. ASSUME NEW z \in Submissions, z # s
      PROVE  SubmissionOK(z)'
  <2>1. ReviewKept(r, z)
    BY <1>1, ConstantsAssumption DEF ReviewKept, ConstantsAssumption
  <2>2. ReviewsKept(z)
    BY <2>1, OthersKept
  <2> QED
    BY <1>1, <2>2, SubmissionKept DEF IInv, SubmissionsOK, ConfirmedStay
<1>2. SubmissionOK(s)'
  <2> SUFFICES ASSUME s \notin strained'
               PROVE  SubmissionOK(s)'
    BY DEF SubmissionOK
  <2>1. \A q \in Requests : task[q].sub = s => q = r
    BY DEF IInv, SubmissionsOK, SubmissionOK
  <2>2. \A q \in Requests : task'[q].sub = s => q = r
    BY <2>1 DEF Others, Like
  <2>3. HasSchema(s)' <=> HasSchema(s)
    BY DEF HasSchema
  <2> QED
    BY <2>2, <2>3 DEF SubmissionOK
<1> QED
  BY <1>1, <1>2 DEF SubmissionsOK

\* What is said of a review follows from the submission it is about.
LEMMA ReviewFacts ==
    ASSUME IInv, NEW r \in Requests, task[r].at \in {"save submission", "reopen"}
    PROVE  /\ task[r].sub \in Submissions /\ task[r].sub # Nil
           /\ task[r].caller = Nil /\ task[r].draft \in SubmissionRow
           /\ task[r].schema \in Schemas \cup {Nil}
           /\ task[r].at \notin Settling \cup Updating \cup Altering
<1>1. task[r] \in Task /\ Fits(task[r])
  BY DEF IInv, TypeOK, TaskOK
<1>2. task[r].at \notin Settling \cup Updating \cup Altering
  BY DEF Settling, Updating, Altering
<1>3. task[r].schema \in Schemas \cup {Nil}
  BY <1>1 DEF Task
<1> QED
  BY <1>1, <1>2, <1>3, ConstantsAssumption DEF Fits, ConstantsAssumption

\* The review saves its copy, and creates the schema it approves.
LEMMA SaveSubmissionOK ==
    ASSUME IInv, NEW r \in Requests, SaveSubmission(r)
    PROVE  IInv'
<1>0. PICK s \in Submissions : s = task[r].sub
  BY ReviewFacts DEF SaveSubmission
<1>1. PICK draft \in SubmissionRow : draft = task[r].draft
  BY ReviewFacts DEF SaveSubmission
<1>2. /\ task[r].at = "save submission" /\ task[r].sub = s /\ TypeOK /\ s # Nil
      /\ task[r].at \notin Settling \cup Updating \cup Altering
      /\ UNCHANGED <<schemas, metadata, late, drawn, confirmed, mishaps, started>>
  BY <1>0, ReviewFacts DEF SaveSubmission, IInv
<1>3. PICK result \in Endings \ {"late"} :
         /\ Ends(Storable(draft), result)
         /\ submissions' = IF TookEffect(result)
               THEN [submissions EXCEPT ![s] = draft] ELSE submissions
         /\ strained' = IF result = "lost" THEN strained \cup {s} ELSE strained
         /\ IF result = "done" /\ task[r].schema # Nil THEN GoTo(r, "insert") ELSE Answer(r)
  BY <1>1, <1>2 DEF SaveSubmission
<1>4. faults' \in Nat
  BY <1>2, <1>3, EndsFacts
<1>5. /\ submissions' \in [Submissions -> SubmissionRow \cup {Nil}]
      /\ submissions'[s] = IF TookEffect(result) THEN draft ELSE submissions[s]
      /\ \A z \in Submissions \ {s} : submissions'[z] = submissions[z]
  BY <1>2, <1>3 DEF TypeOK
<1>6. /\ strained \subseteq strained' /\ strained' \subseteq Submissions
      /\ result = "lost" => s \in strained'
  BY <1>2, <1>3 DEF TypeOK
<1>7. CASE result = "done" /\ task[r].schema # Nil
  <2>1. "insert" \in Steps /\ "insert" \notin Settling \cup Updating \cup Altering
    BY DEF Steps, Creating, Settling, Updating, Altering
  <2>2. Moved(r, "insert")
    BY <1>2, <1>3, <1>7, <2>1, GoToMoves
  <2>3. /\ task'[r].at = "insert" /\ task'[r].caller = task[r].caller
        /\ task'[r].schema = task[r].schema /\ task'[r].sub = s
        /\ task'[r].draft = draft /\ Others(r)
        /\ task' \in [Requests -> Task] /\ outlived' \subseteq Requests
    BY <1>1, <1>2, <2>2 DEF Moved
  <2>4. TypeOK'
    BY <1>2, <1>4, <1>5, <1>6, <2>3 DEF TypeOK
  <2>5. TaskOK'
    <3>1. task[r].caller = Nil /\ task[r].schema \in Schemas
      BY <1>2, <1>7, ReviewFacts
    <3>2. Fits(task'[r])
      BY <1>2, <2>1, <2>3, <3>1 DEF Fits
    <3> QED
      BY <2>3, <3>2, MemoryKept DEF IInv
  <2>6. SchemasOK'
    BY <1>2, <2>1, <2>2, <2>3, MoveKept, QuietSchemas DEF IInv
  <2>7. SubmissionsOK'
    BY <1>2, <1>5, <1>6, <2>3, ReviewEnds
  <2> QED
    BY <2>4, <2>5, <2>6, <2>7 DEF IInv
<1>8. CASE ~(result = "done" /\ task[r].schema # Nil)
  <2>1. Becomes(r, IdleTask)
    BY <1>2, <1>3, <1>8, AnswerEnds
  <2>2. /\ task'[r] = IdleTask /\ Others(r)
        /\ task' \in [Requests -> Task] /\ outlived' \subseteq Requests
    BY <2>1 DEF Becomes
  <2>3. TypeOK'
    BY <1>2, <1>4, <1>5, <1>6, <2>2 DEF TypeOK
  <2>4. TaskOK'
    BY <2>2, IdleFacts, MemoryKept DEF IInv
  <2>5. SchemasOK'
    BY <1>2, <2>1, <2>2, EndKept, QuietSchemas DEF IInv
  <2>6. \/ s \in strained' \/ submissions'[s] = Nil
        \/ submissions'[s].status # "approved" \/ HasSchema(s)
    <3> SUFFICES ASSUME s \notin strained'
                 PROVE  submissions'[s].status # "approved" \/ HasSchema(s)
      OBVIOUS
    <3>1. Reviews(r, s) /\ result # "lost"
      BY <1>2, <1>6 DEF IInv, SubmissionsOK, SubmissionOK
    <3> QED
      BY <1>1, <1>5, <1>8, <3>1 DEF Reviews, TookEffect
  <2>7. task'[r].sub \in {s, Nil} /\ task'[r].at # "save submission"
    BY <2>2, IdleFacts
  <2>8. SubmissionsOK'
    BY <1>2, <1>5, <1>6, <2>2, <2>6, <2>7, ReviewEnds
  <2> QED
    BY <2>3, <2>4, <2>5, <2>8 DEF IInv
<1> QED
  BY <1>7, <1>8

\* The review that failed saves its copy again, as pending.
LEMMA ReopenSubmissionOK ==
    ASSUME IInv, NEW r \in Requests, ReopenSubmission(r)
    PROVE  IInv'
<1>0. PICK s \in Submissions : s = task[r].sub
  BY ReviewFacts DEF ReopenSubmission
<1>1. PICK draft \in SubmissionRow : draft = task[r].draft
  BY ReviewFacts DEF ReopenSubmission
<1> DEFINE row == [draft EXCEPT !.status = "pending"]
<1>2. /\ task[r].sub = s /\ TypeOK /\ Answer(r)
      /\ task[r].at \notin Settling \cup Updating \cup Altering
      /\ UNCHANGED <<schemas, metadata, late, drawn, confirmed, mishaps, started>>
  BY <1>0, ReviewFacts DEF ReopenSubmission, IInv
<1>3. PICK result \in Endings \ {"late"} :
         /\ Ends(Storable(draft), result)
         /\ submissions' = IF ~ TookEffect(result) THEN submissions
               ELSE [submissions EXCEPT ![s] = row]
         /\ strained' = IF TookEffect(result) THEN strained ELSE strained \cup {s}
  BY <1>1, <1>2 DEF ReopenSubmission
<1>4. row \in SubmissionRow /\ row.status # "approved"
  BY DEF SubmissionRow, Statuses
<1> HIDE DEF row
<1>5. faults' \in Nat
  BY <1>2, <1>3, EndsFacts
<1>6. /\ submissions' \in [Submissions -> SubmissionRow \cup {Nil}]
      /\ TookEffect(result) => submissions'[s] = row
      /\ \A z \in Submissions \ {s} : submissions'[z] = submissions[z]
  BY <1>2, <1>3, <1>4 DEF TypeOK
<1>7. /\ strained \subseteq strained' /\ strained' \subseteq Submissions
      /\ ~ TookEffect(result) => s \in strained'
  BY <1>2, <1>3 DEF TypeOK
<1>8. Becomes(r, IdleTask)
  BY <1>2, AnswerEnds
<1>9. /\ task'[r] = IdleTask /\ Others(r)
      /\ task' \in [Requests -> Task] /\ outlived' \subseteq Requests
  BY <1>8 DEF Becomes
<1>10. TypeOK'
  BY <1>2, <1>5, <1>6, <1>7, <1>9 DEF TypeOK
<1>11. TaskOK'
  BY <1>9, IdleFacts, MemoryKept DEF IInv
<1>12. SchemasOK'
  BY <1>2, <1>8, <1>9, EndKept, QuietSchemas DEF IInv
<1>13. SubmissionsOK'
  <2>1. task'[r].sub \in {s, Nil} /\ task'[r].at # "save submission"
    BY <1>9, IdleFacts
  <2>2. s \in strained' \/ submissions'[s].status # "approved"
    BY <1>4, <1>6, <1>7
  <2> QED
    BY <1>2, <1>6, <1>7, <1>9, <2>1, <2>2, ReviewEnds
<1> QED
  BY <1>10, <1>11, <1>12, <1>13 DEF IInv

-----------------------------------------------------------------------------
(* The invariant.                                                          *)

\* A crash ends every request, and is recorded where one was at work.
LEMMA CrashOK ==
    ASSUME IInv, Crash
    PROVE  IInv'
<1>1. /\ TypeOK /\ task' = [r \in Requests |-> IdleTask] /\ outlived' = {}
      /\ mishaps' = [x \in Schemas |-> mishaps[x] \cup
            {w \in {<<"process", "crash">>} : \E r \in Requests : task[r].schema = x}]
      /\ strained' = strained \cup {s \in Submissions : \E r \in Requests : task[r].sub = s}
      /\ faults' = faults + 1
      /\ UNCHANGED <<schemas, submissions, metadata, late, drawn, confirmed, started>>
  BY DEF Crash, IInv
<1>2. /\ mishaps' \in [Schemas -> SUBSET Mishap]
      /\ \A x \in Schemas : mishaps[x] \subseteq mishaps'[x]
      /\ \A x \in Schemas : (\E r \in Requests : task[r].schema = x)
            => <<"process", "crash">> \in mishaps'[x]
  BY <1>1, MishapFacts DEF TypeOK
<1>3. \A r \in Requests : task'[r] = IdleTask
  BY <1>1
<1>4. TypeOK'
  <2>1. task' \in [Requests -> Task] /\ strained' \subseteq Submissions /\ faults' \in Nat
    BY <1>1, IdleFacts DEF TypeOK
  <2> QED
    BY <1>1, <1>2, <2>1 DEF TypeOK
<1>5. TaskOK'
  BY <1>3, IdleFacts DEF TaskOK
<1>6. ASSUME NEW x \in Schemas
      PROVE  SchemaOK(x)'
  <2>1. SchemaOK(x)
    BY DEF IInv, SchemasOK
  <2>2. \A r \in Requests : ~ Settles(r, x)' /\ ~ Works(r, x)'
    BY <1>3, IdleFacts DEF Settles, Works
  <2>3. Explained(x)'
    <3>1. CASE \E r \in Requests : Settles(r, x)
      BY <1>2, <3>1 DEF Explained, Settles, KeepsRow
    <3>2. CASE ~ \E r \in Requests : Settles(r, x)
      BY <1>1, <1>2, <2>1, <3>2 DEF SchemaOK, Explained
    <3> QED
      BY <3>1, <3>2
  <2>4. InStep(x)' /\ RecordsExplained(x)'
    BY <1>1, <1>2, <2>1 DEF SchemaOK, InStep, RecordsExplained
  <2> QED
    BY <2>2, <2>3, <2>4 DEF SchemaOK
<1>7. SchemasOK'
  BY <1>1, <1>2, <1>6, LateStays DEF IInv, SchemasOK
<1>8. ASSUME NEW s \in Submissions
      PROVE  SubmissionOK(s)'
  <2> SUFFICES ASSUME s \notin strained'
               PROVE  SubmissionOK(s)'
    BY DEF SubmissionOK
  <2>1. \A r \in Requests : task[r].sub # s /\ task'[r].sub # s
    BY <1>1, <1>3, IdleFacts, ConstantsAssumption DEF ConstantsAssumption
  <2>2. \/ submissions[s] = Nil
        \/ submissions[s].status # "approved"
        \/ HasSchema(s)
    BY <1>1, <2>1 DEF IInv, SubmissionsOK, SubmissionOK
  <2>3. HasSchema(s)' <=> HasSchema(s)
    BY <1>1 DEF HasSchema
  <2> QED
    BY <1>1, <2>1, <2>2, <2>3 DEF SubmissionOK
<1>9. SubmissionsOK'
  BY <1>8 DEF SubmissionsOK
<1> QED
  BY <1>4, <1>5, <1>7, <1>9 DEF IInv

\* At first there are no rows, no records and no requests.
LEMMA InitOK == Init => IInv
<1> SUFFICES ASSUME Init
             PROVE  IInv
  OBVIOUS
<1>1. \A r \in Requests : task[r] = IdleTask
  BY DEF Init
<1>2. TypeOK
  BY IdleFacts DEF Init, TypeOK
<1>3. TaskOK
  BY <1>1, IdleFacts DEF TaskOK
<1>4. SchemasOK
  <2>1. \A x \in Schemas : SchemaOK(x)
    BY <1>1, IdleFacts DEF Init, SchemaOK, Explained, InStep, RecordsExplained, Settles, Works
  <2>2. LateOK
    BY DEF Init, LateOK
  <2> QED
    BY <2>1, <2>2 DEF SchemasOK
<1>5. SubmissionsOK
  BY <1>1, IdleFacts, ConstantsAssumption
     DEF Init, SubmissionsOK, SubmissionOK, ConstantsAssumption
<1> QED
  BY <1>2, <1>3, <1>4, <1>5 DEF IInv

\* Nothing changes.
LEMMA StutterOK ==
    ASSUME IInv, UNCHANGED vars
    PROVE  IInv'
<1>1. UNCHANGED <<schemas, submissions, metadata, late, task, drawn, outlived,
                  confirmed, mishaps, strained, faults, started>>
  BY DEF vars
<1>2. TypeOK' /\ TaskOK'
  BY <1>1 DEF IInv, TypeOK, TaskOK
<1>3. LateOK'
  BY <1>1 DEF IInv, SchemasOK, LateOK
<1>4. \A q \in Requests : Like(task[q], task'[q]) /\ (q \in outlived => q \in outlived')
  BY <1>1, LikeItself
<1>5. \A x \in Schemas : RowMoves(x) /\ RecordsMove(x) /\ TasksKept(x)
  BY <1>1, <1>4, LikeKept DEF RowMoves, RecordsMove, TasksKept
<1>6. \A x \in Schemas : SchemaOK(x)'
  BY <1>1, <1>5, SchemaKept DEF IInv, SchemasOK
<1>7. \A s \in Submissions : SubmissionOK(s)'
  BY <1>1, <1>4, LikeKept, SubmissionKept DEF IInv, SubmissionsOK, ConfirmedStay, ReviewsKept
<1> QED
  BY <1>2, <1>3, <1>6, <1>7 DEF IInv, SchemasOK, SubmissionsOK

\* Every step keeps the invariant.
LEMMA NextOK == IInv /\ [Next]_vars => IInv'
<1> SUFFICES ASSUME IInv, [Next]_vars
             PROVE  IInv'
  OBVIOUS
<1>1. CASE UNCHANGED vars
  BY <1>1, StutterOK
<1>2. ASSUME NEW r \in Requests,
             \/ CreateSchema(r) \/ InsertSchema(r) \/ SyncMetadata(r) \/ DeleteSchema(r)
             \/ UpdateSchema(r) \/ LoadSchema(r) \/ SaveSchema(r)
      PROVE  IInv'
  BY <1>2, CreateSchemaOK, InsertSchemaOK, SyncMetadataOK, DeleteSchemaOK,
     ChangeRequestOK, LoadSchemaOK, SaveSchemaOK
<1>3. ASSUME NEW r \in Requests,
             \/ AlterRecord(r) \/ ListMetadata(r) \/ CallMetadata(r)
             \/ UpdateSchemaSubmission(r) \/ SaveSubmission(r) \/ ReopenSubmission(r)
      PROVE  IInv'
  BY <1>3, ChangeRequestOK, ListMetadataOK, CallMetadataOK, UpdateSchemaSubmissionOK,
     SaveSubmissionOK, ReopenSubmissionOK
<1> QED
  BY <1>1, <1>2, <1>3, LateSyncOK, CreateSchemaSubmissionOK, CrashOK DEF Next

\* The inductive invariant holds of every reachable state.
THEOREM Invariance == Spec => []IInv
<1>1. Init => IInv
  BY InitOK
<1>2. IInv /\ [Next]_vars => IInv'
  BY NextOK
<1> QED
  BY <1>1, <1>2, PTL DEF Spec

-----------------------------------------------------------------------------
(* What follows from it.                                                   *)

\* The variables have their types: in particular what a late sync carries, and
\* what the PDP stores, are records of an SDL that parses (CreatePolicyMetadata).
THEOREM TypeCorrect == Spec => []TypeOK
<1>1. IInv => TypeOK
  BY DEF IInv
<1> QED
  BY <1>1, Invariance, PTL

\* A schema whose creation was reported keeps its row, whatever the failed
\* creations of the same id undo, and the PDP holds the fields the row
\* declares, but for the recorded causes (CreateSchema, UpdateSchema).
THEOREM SystemsInStep == Spec => []ConfirmedInStep
<1>1. IInv => ConfirmedInStep
  BY DEF IInv, SchemasOK, SchemaOK, InStep, ConfirmedInStep
<1> QED
  BY <1>1, Invariance, PTL

\* A creation that failed leaves no row and no records behind, but for the
\* recorded causes (CreateSchema, its compensation and the PDP client).
THEOREM CreationUndone == Spec => []NothingStray
<1>1. ASSUME IInv
      PROVE  NoStraySchema
  <2>1. Settling \subseteq Creating
    BY DEF Settling, Creating
  <2>2. ASSUME NEW x \in Schemas
        PROVE  \/ schemas[x] = Nil \/ confirmed[x] # Nil \/ InCreation(x)
               \/ mishaps[x] \cap KeepsRow # {}
    <3>1. Explained(x)
      BY <1>1 DEF IInv, SchemasOK, SchemaOK
    <3> QED
      BY <2>1, <3>1 DEF Explained, Settles, InCreation
  <2> QED
    BY <2>2 DEF NoStraySchema
<1>2. ASSUME IInv
      PROVE  NoStrayMetadata
  BY <1>2 DEF IInv, SchemasOK, SchemaOK, RecordsExplained, NoStrayMetadata
<1>3. IInv => NothingStray
  BY <1>1, <1>2 DEF NothingStray
<1> QED
  BY <1>3, Invariance, PTL

\* A submission that stands approved has led to a schema, but for reviews at
\* work, crashes, failed saves and overlapping reviews (UpdateSchemaSubmission).
THEOREM ApprovalsHaveSchemas == Spec => []ApprovedHasSchema
<1>1. IInv => ApprovedHasSchema
  BY DEF IInv, SubmissionsOK, SubmissionOK, ApprovedHasSchema, HasSchema
<1> QED
  BY <1>1, Invariance, PTL

-----------------------------------------------------------------------------
(* Who changes a schema.                                                   *)

\* What ChangedForOwner asks of a step, for one schema.
Rightful(x) ==
    \/ schemas'[x] = schemas[x] /\ metadata'[x] = metadata[x]
    \/ late' # late
    \/ <<"row", "changed hands">> \in mishaps[x]
    \/ \E r \in Requests :
          /\ task[r].schema = x
          /\ task'[r].at # task[r].at
          /\ (ActsFor(r, schemas[x].member) \/ r \in outlived)

\* A creation acts for the member whose row it inserted.
LEMMA CreatorActs ==
    ASSUME IInv, NEW r \in Requests, NEW x \in Schemas, Settles(r, x),
           task'[r].at # task[r].at
    PROVE  Rightful(x)
<1>1. task[r].caller = Nil /\ task[r].schema = x
  BY DEF IInv, TaskOK, Fits, Settles, Settling, Creating
<1>2. Inserted(r, x)
  BY DEF IInv, SchemasOK, SchemaOK
<1> QED
  BY <1>1, <1>2 DEF Rightful, Inserted, ActsFor

\* A request that was asked for its rights acts for the owner, or the row it
\* looked up is no longer what it was.
LEMMA WorkerActs ==
    ASSUME IInv, NEW r \in Requests, NEW x \in Schemas, Works(r, x),
           schemas[x] # Nil, task'[r].at # task[r].at
    PROVE  Rightful(x)
<1>1. task[r].caller # Nil /\ task[r].schema = x
  BY ConstantsAssumption DEF IInv, TaskOK, Fits, Works, ConstantsAssumption
<1>2. HasAccess(r, x)
  BY DEF IInv, SchemasOK, SchemaOK
<1> QED
  BY <1>1, <1>2 DEF Rightful, HasAccess, ActsFor

\* A creation changes its own schema only; the insert finds no row.
LEMMA CreationRightful ==
    ASSUME IInv, NEW r \in Requests, InsertSchema(r) \/ SyncMetadata(r) \/ DeleteSchema(r),
           NEW y \in Existing
    PROVE  Rightful(y)
<1>0. y \in Schemas /\ schemas[y] # Nil /\ TypeOK
  BY DEF Existing, IInv
<1>1. PICK x \in Schemas : x = task[r].schema
  BY CreationFacts DEF InsertSchema, SyncMetadata, DeleteSchema, Creating
<1>2. CASE InsertSchema(r)
  <2>1. PICK result, row :
           /\ Ends(schemas[x] = Nil, result)
           /\ schemas' = IF ~ TookEffect(result) THEN schemas ELSE [schemas EXCEPT ![x] = row]
           /\ metadata' = metadata
    BY <1>1, <1>2 DEF InsertSchema
  <2>2. TookEffect(result) => schemas[x] = Nil
    BY <1>0, <2>1, EndsFacts DEF TookEffect
  <2> QED
    BY <1>0, <2>1, <2>2 DEF Rightful, TypeOK
<1>3. CASE SyncMetadata(r)
  <2>1. /\ task[r].at = "sync" /\ Settles(r, x) /\ schemas' = schemas
    BY <1>1, <1>3 DEF SyncMetadata, Settles, Settling
  <2>2. PICK result \in Endings \ {"lost"} :
           IF result = "done"
           THEN /\ metadata' = [metadata EXCEPT ![x] = task[r].draft.fields]
                /\ task' = [Removed(x, metadata[x] \ task[r].draft.fields)
                               EXCEPT ![r] = IdleTask]
                /\ outlived' = outlived \ {r}
           ELSE GoTo(r, "delete row") /\ UNCHANGED <<metadata, confirmed>>
    BY <1>1, <1>3 DEF SyncMetadata
  <2>3. CASE result # "done" \/ y # x
    BY <1>0, <2>1, <2>2, <2>3 DEF Rightful, TypeOK
  <2>4. CASE result = "done" /\ y = x
    <3>1. Becomes(r, IdleTask)
      BY <1>0, <2>2, <2>4, RemovesAndEnds
    <3>2. task'[r].at # task[r].at
      BY <2>1, <3>1, IdleFacts DEF Becomes
    <3> QED
      BY <2>1, <2>4, <3>2, CreatorActs
  <2> QED
    BY <2>3, <2>4
<1>4. CASE DeleteSchema(r)
  <2>1. /\ task[r].at = "delete row" /\ Settles(r, x) /\ metadata' = metadata
    BY <1>1, <1>4 DEF DeleteSchema, Settles, Settling
  <2>2. /\ schemas' = schemas \/ schemas' = [schemas EXCEPT ![x] = Nil]
        /\ task' = [task EXCEPT ![r] = IF task[r].sub = Nil THEN IdleTask
                                       ELSE [@ EXCEPT !.at = "reopen"]]
    BY <1>1, <1>4 DEF DeleteSchema
  <2>3. CASE y # x
    BY <1>0, <2>1, <2>2, <2>3 DEF Rightful, TypeOK
  <2>4. CASE y = x
    <3>1. task[r] \in Task /\ task'[r] = IF task[r].sub = Nil THEN IdleTask
                                         ELSE [task[r] EXCEPT !.at = "reopen"]
      BY <1>0, <2>2 DEF TypeOK
    <3>2. task'[r].at \in {"idle", "reopen"}
      BY <3>1, IdleFacts DEF Task
    <3> QED
      BY <2>1, <2>4, <3>2, CreatorActs
  <2> QED
    BY <2>3, <2>4
<1> QED
  BY <1>2, <1>3, <1>4

\* An update or a change of a record is made for the owner.
LEMMA WorkRightful ==
    ASSUME IInv, NEW r \in Requests, SaveSchema(r) \/ CallMetadata(r), NEW y \in Existing
    PROVE  Rightful(y)
<1>0. y \in Schemas /\ schemas[y] # Nil /\ TypeOK
  BY DEF Existing, IInv
<1>1. /\ task[r].at \in {"save row", "alter record"}
      /\ task[r].at \in Updating \cup Altering
  BY DEF SaveSchema, CallMetadata, Updating, Altering
<1>2. PICK x \in Schemas : x = task[r].schema
  BY <1>1 DEF IInv, TaskOK, Fits
<1>3. Works(r, x)
  BY <1>1, <1>2 DEF Works
<1>4. task'[r] = IdleTask
  <2>1. CASE SaveSchema(r)
    BY <1>0, <2>1, AnswerEnds DEF SaveSchema, Becomes
  <2>2. CASE CallMetadata(r)
    <3>1. \/ task' = [Removed(task[r].schema, {task[r].record}) EXCEPT ![r] = IdleTask]
          \/ task' = [task EXCEPT ![r] = IdleTask]
      BY <2>2 DEF CallMetadata
    <3>2. outlived' = outlived \ {r}
      BY <2>2 DEF CallMetadata
    <3> QED
      BY <1>0, <3>1, <3>2, RemovesAndEnds, BecomesTask, IdleFacts DEF Becomes
  <2> QED
    BY <2>1, <2>2
<1>5. CASE y = x
  <2>1. task'[r].at # task[r].at
    BY <1>1, <1>4, IdleFacts
  <2> QED
    BY <1>0, <1>3, <1>5, <2>1, WorkerActs
<1>6. CASE y # x
  <2>1. /\ schemas' = schemas \/ schemas' = [schemas EXCEPT ![x] = task[r].draft]
        /\ metadata' = metadata \/ metadata' = [metadata EXCEPT ![x] = @ \ {task[r].record}]
    BY <1>2 DEF SaveSchema, CallMetadata
  <2> QED
    BY <1>0, <1>6, <2>1 DEF Rightful, TypeOK
<1> QED
  BY <1>5, <1>6

\* The row and the records of a schema are changed only for the member that it
\* belongs to; the exceptions are a row that was deleted or changed hands since
\* the owner check, and the sync that arrives late (handler.go, service.go).
THEOREM OwnersChange == Spec => ChangedForOwner
<1>1. ASSUME IInv, [Next]_vars, NEW x \in Existing
      PROVE  Rightful(x)
  <2>1. CASE schemas' = schemas /\ metadata' = metadata
    BY <2>1 DEF Rightful
  <2>2. CASE LateSync
    BY <2>2 DEF LateSync, Rightful
  <2>3. CASE UNCHANGED vars
    BY <2>1, <2>3 DEF vars
  <2>4. CASE Crash \/ CreateSchemaSubmission
    BY <2>1, <2>4 DEF Crash, CreateSchemaSubmission
  <2>5. ASSUME NEW r \in Requests,
               \/ CreateSchema(r) \/ UpdateSchema(r) \/ LoadSchema(r) \/ AlterRecord(r)
        PROVE  Rightful(x)
    BY <2>1, <2>5 DEF CreateSchema, UpdateSchema, LoadSchema, AlterRecord
  <2>6. ASSUME NEW r \in Requests,
               \/ ListMetadata(r) \/ UpdateSchemaSubmission(r)
               \/ SaveSubmission(r) \/ ReopenSubmission(r)
        PROVE  Rightful(x)
    BY <2>1, <2>6 DEF ListMetadata, UpdateSchemaSubmission, SaveSubmission, ReopenSubmission
  <2>7. ASSUME NEW r \in Requests,
               \/ InsertSchema(r) \/ SyncMetadata(r) \/ DeleteSchema(r)
               \/ SaveSchema(r) \/ CallMetadata(r)
        PROVE  Rightful(x)
    BY <1>1, <2>7, CreationRightful, WorkRightful
  <2> QED
    BY <1>1, <2>2, <2>3, <2>4, <2>5, <2>6, <2>7 DEF Next
<1>2. IInv /\ [Next]_vars => [\A x \in Existing : Rightful(x)]_vars
  BY <1>1
<1>3. [\A x \in Existing : Rightful(x)]_vars
         <=> [\A x \in Existing :
                \/ schemas'[x] = schemas[x] /\ metadata'[x] = metadata[x]
                \/ late' # late
                \/ <<"row", "changed hands">> \in mishaps[x]
                \/ \E r \in Requests :
                      /\ task[r].schema = x
                      /\ task'[r].at # task[r].at
                      /\ (ActsFor(r, schemas[x].member) \/ r \in outlived)]_vars
  BY DEF Rightful
<1> QED
  BY <1>2, <1>3, Invariance, PTL DEF Spec, ChangedForOwner
-----------------------------------------------------------------------------
(* What a step may do to one creation.                                     *)

\* Steps of requests that own the creation they are about.
Owning == Creating \cup {"save submission"}

\* A request is about x, or records of x are on their way.
Known(x) ==
    \/ \E q \in Requests : task[q].schema = x
    \/ \E call \in late : call[1] = x

Untouched(x) ==
    /\ schemas'[x] = schemas[x]
    /\ metadata'[x] = metadata[x]
    /\ confirmed'[x] = confirmed[x]
    /\ mishaps'[x] = mishaps[x]

\* Outcomes and mishaps stay, a success is that of a creation under way and as
\* it was asked for, and what changed without one is recorded.
Evolves(x) ==
    /\ mishaps[x] \subseteq mishaps'[x]
    /\ confirmed[x] # Nil =>
          /\ confirmed'[x] = confirmed[x]
          /\ \/ schemas'[x].member = schemas[x].member
             \/ <<"row", "changed hands">> \in mishaps'[x]
    /\ confirmed'[x] # confirmed[x] =>
          /\ Underway(x)
          /\ \/ schemas'[x].member = confirmed'[x].member
             \/ <<"row", "changed hands">> \in mishaps'[x]
    /\ \/ metadata'[x] \subseteq metadata[x]
       \/ confirmed'[x] # Nil
       \/ <<"sync", "late">> \in mishaps'[x]

\* Requests are about x no more than before, unless they found its row.
GoesOn(x) ==
    /\ x \in drawn' <=> x \in drawn
    /\ Underway(x)' => Underway(x)
    /\ Known(x)' => Known(x) \/ schemas[x] # Nil
    /\ ~ Known(x) => Untouched(x)

\* A creation of x begins, and does nothing yet.
Begins(x) ==
    /\ Untouched(x)
    /\ Underway(x)'
    /\ \/ x \in Chosen /\ (x \in drawn' <=> x \in drawn)
       \/ x \notin Chosen \cup drawn /\ x \in drawn'

Progress(x) == Evolves(x) /\ (GoesOn(x) \/ Begins(x))

\* The creations that are under way are those that requests own.
LEMMA OwningIsUnderway ==
    ASSUME NEW x \in Schemas
    PROVE  /\ Underway(x) <=> \E q \in Requests : task[q].schema = x /\ task[q].at \in Owning
           /\ Underway(x)' <=> \E q \in Requests : task'[q].schema = x /\ task'[q].at \in Owning
BY DEF Underway, Owning

\* What is left alone evolves.
LEMMA UntouchedEvolves ==
    ASSUME NEW x \in Schemas, Untouched(x)
    PROVE  Evolves(x)
BY DEF Untouched, Evolves

\* Only the request that takes the step has to be looked at.
LEMMA GoingOn ==
    ASSUME NEW r \in Requests, Others(r),
           task'[r].schema \in {task[r].schema, Nil},
           task'[r].at \in Owning => task[r].at \in Owning,
           drawn' = drawn,
           \A call \in late' : call \in late \/ call[1] = task[r].schema,
           NEW x \in Schemas, ~ Known(x) => Untouched(x)
    PROVE  GoesOn(x)
<1>1. \A q \in Requests :
         /\ task'[q].schema = x => task[q].schema = x
         /\ task'[q].schema = x /\ task'[q].at \in Owning => task[q].at \in Owning
  BY ConstantsAssumption DEF Others, Like, ConstantsAssumption
<1>2. Underway(x)' => Underway(x)
  BY <1>1, OwningIsUnderway
<1>3. Known(x)' => Known(x)
  BY <1>1 DEF Known
<1> QED
  BY <1>2, <1>3 DEF GoesOn

\* A request that ends, and one that moves on.
LEMMA EndGoesOn ==
    ASSUME NEW r \in Requests, Becomes(r, IdleTask), drawn' = drawn,
           \A call \in late' : call \in late \/ call[1] = task[r].schema,
           NEW x \in Schemas, ~ Known(x) => Untouched(x)
    PROVE  GoesOn(x)
<1>1. "idle" \notin Owning
  BY IdleFacts DEF Owning
<1> QED
  BY <1>1, IdleFacts, GoingOn DEF Becomes

LEMMA MoveGoesOn ==
    ASSUME NEW r \in Requests, NEW step, Moved(r, step), drawn' = drawn,
           step \in Owning => task[r].at \in Owning,
           \A call \in late' : call \in late \/ call[1] = task[r].schema,
           NEW x \in Schemas, ~ Known(x) => Untouched(x)
    PROVE  GoesOn(x)
BY GoingOn DEF Moved

\* A request begins: the creation of a schema, or a change to one that exists.
LEMMA StartProgress ==
    ASSUME NEW r \in Requests, NEW u, Becomes(r, u),
           UNCHANGED <<schemas, metadata, late, confirmed, mishaps>>, NEW x \in Schemas,
           \/ u.schema # x /\ (x \in drawn' <=> x \in drawn)
           \/ /\ u.schema = x /\ u.at \in Owning
              /\ \/ x \in Chosen /\ (x \in drawn' <=> x \in drawn)
                 \/ x \notin Chosen \cup drawn /\ x \in drawn'
           \/ /\ u.schema = x /\ u.at \notin Owning
              /\ schemas[x] # Nil /\ drawn' = drawn
    PROVE  Progress(x)
<1>1. Untouched(x) /\ Evolves(x)
  BY UntouchedEvolves DEF Untouched
<1>2. /\ task'[r] = u
      /\ \A q \in Requests \ {r} :
            task'[q].schema = task[q].schema /\ task'[q].at = task[q].at
  BY DEF Becomes, Others, Like
<1>3. CASE u.schema # x /\ (x \in drawn' <=> x \in drawn)
  <2>1. (Underway(x)' => Underway(x)) /\ (Known(x)' => Known(x))
    BY <1>2, <1>3, OwningIsUnderway DEF Known
  <2> QED
    BY <2>1, <1>1, <1>3 DEF Progress, GoesOn
<1>4. CASE /\ u.schema = x /\ u.at \in Owning
           /\ \/ x \in Chosen /\ (x \in drawn' <=> x \in drawn)
              \/ x \notin Chosen \cup drawn /\ x \in drawn'
  BY <1>1, <1>2, <1>4, OwningIsUnderway DEF Progress, Begins
<1>5. CASE /\ u.schema = x /\ u.at \notin Owning
           /\ schemas[x] # Nil /\ drawn' = drawn
  <2>1. Underway(x)' => Underway(x)
    BY <1>2, <1>5, OwningIsUnderway
  <2> QED
    BY <2>1, <1>1, <1>5 DEF Progress, GoesOn
<1> QED
  BY <1>3, <1>4, <1>5

\* Requests that begin.
LEMMA BeginProgress ==
    ASSUME IInv, NEW r \in Requests, NEW x \in Schemas,
           \/ CreateSchema(r) \/ UpdateSchema(r) \/ AlterRecord(r)
           \/ UpdateSchemaSubmission(r)
    PROVE  Progress(x)
<1>t. TypeOK
  BY DEF IInv
<1>1. CASE CreateSchema(r)
  <2>1. PICK y \in Schemas, fields \in Sdls, member \in Members :
           /\ (y \in Chosen /\ UNCHANGED drawn) \/ Draws(y)
           /\ task' = [task EXCEPT ![r] = [IdleTask EXCEPT !.at = "insert",
                  !.schema = y, !.draft = [member |-> member, fields |-> fields]]]
    BY <1>1 DEF CreateSchema, MayOwn
  <2> DEFINE draft == [member |-> member, fields |-> fields]
             u == [IdleTask EXCEPT !.at = "insert", !.schema = y, !.draft = draft]
  <2>2. draft \in Row
    BY ConstantsAssumption DEF ConstantsAssumption, Row
  <2> HIDE DEF draft
  <2>3. u.at = "insert" /\ u.schema = y
    BY DEF IdleTask
  <2>4. u \in Task
    BY <2>2, IdleFacts DEF Task, Steps, Creating
  <2>5. task' = [task EXCEPT ![r] = u]
    BY <2>1 DEF draft
  <2> HIDE DEF u
  <2>6. Becomes(r, u)
    BY <1>t, <1>1, <2>4, <2>5, BecomesTask DEF CreateSchema
  <2>7. u.at \in Owning
    BY <2>3 DEF Owning, Creating
  <2> QED
    BY <1>1, <2>1, <2>3, <2>6, <2>7, StartProgress DEF CreateSchema, Draws
<1>2. CASE UpdateSchema(r) \/ AlterRecord(r)
  <2>1. PICK step \in {"load", "list"}, sdl \in Sdls \cup {Nil}, record \in Fields \cup {Nil} :
           Authorize(r, step, sdl, record)
    BY <1>2 DEF UpdateSchema, AlterRecord
  <2>2. PICK caller \in Callers, y \in Existing :
           task' = [task EXCEPT ![r] = [IdleTask EXCEPT !.at = step,
                 !.caller = caller, !.schema = y, !.sdl = sdl, !.record = record]]
    BY <2>1 DEF Authorize
  <2> DEFINE u == [IdleTask EXCEPT !.at = step, !.caller = caller, !.schema = y,
                                   !.sdl = sdl, !.record = record]
  <2>3. y \in Schemas /\ schemas[y] # Nil
    BY DEF Existing
  <2>4. u.at = step /\ u.schema = y
    BY DEF IdleTask
  <2>5. u \in Task
    BY <2>3, IdleFacts, ConstantsAssumption
       DEF Task, Steps, Updating, Altering, ConstantsAssumption
  <2>6. task' = [task EXCEPT ![r] = u]
    BY <2>2
  <2> HIDE DEF u
  <2>7. Becomes(r, u)
    BY <1>t, <1>2, <2>5, <2>6, BecomesTask DEF UpdateSchema, AlterRecord
  <2>8. u.at \notin Owning
    BY <2>4 DEF Owning, Creating
  <2>9. UNCHANGED <<schemas, metadata, late, confirmed, mishaps, drawn>>
    BY <1>2 DEF UpdateSchema, AlterRecord
  <2> QED
    BY <2>3, <2>4, <2>7, <2>8, <2>9, StartProgress
<1>3. CASE UpdateSchemaSubmission(r)
  <2>1. PICK caller \in Callers, s \in Submissions, status \in Statuses \cup {Nil},
             fields \in Sdls \cup {Nil}, previous \in Existing \cup {Nil},
             y \in Schemas \cup {Nil} :
           LET loaded == submissions[s]
               draft  == [loaded EXCEPT !.status   = Updated(@, status),
                                        !.fields   = Updated(@, fields),
                                        !.previous = Updated(@, previous)]
           IN
           /\ loaded # Nil
           /\ CanAccess(caller, loaded.member)
           /\ IF status = "approved" THEN y # Nil /\ Draws(y) ELSE y = Nil /\ UNCHANGED drawn
           /\ task' = [task EXCEPT ![r] = [IdleTask EXCEPT !.at = "save submission",
                 !.schema = y, !.sub = s, !.draft = draft]]
           /\ strained' = IF \E q \in Requests : task[q].sub = s
                          THEN strained \cup {s} ELSE strained
    BY <1>3, Zenon DEF UpdateSchemaSubmission
  <2> DEFINE loaded == submissions[s]
             draft  == [loaded EXCEPT !.status   = Updated(@, status),
                                      !.fields   = Updated(@, fields),
                                      !.previous = Updated(@, previous)]
             u == [IdleTask EXCEPT !.at = "save submission",
                      !.schema = y, !.sub = s, !.draft = draft]
  <2>2. loaded \in SubmissionRow
    BY <1>t, <2>1 DEF TypeOK
  <2>3. draft \in SubmissionRow
    <3>1. /\ Updated(loaded.status, status) \in Statuses
          /\ Updated(loaded.fields, fields) \in Sdl
          /\ Updated(loaded.previous, previous) \in Schemas \cup {Nil}
      BY <2>2, ConstantsAssumption DEF Updated, SubmissionRow, Existing, ConstantsAssumption
    <3> QED
      BY <2>2, <3>1 DEF SubmissionRow
  <2> HIDE DEF draft
  <2>4. u.at = "save submission" /\ u.schema = y
    BY DEF IdleTask
  <2>5. u \in Task
    BY <2>3, IdleFacts DEF Task, Steps
  <2>6. task' = [task EXCEPT ![r] = u]
    BY <2>1 DEF draft
  <2>7. \/ y \in Schemas /\ Draws(y)
        \/ y = Nil /\ drawn' = drawn
    BY <2>1
  <2> HIDE DEF u
  <2>8. UNCHANGED <<schemas, metadata, late, confirmed, mishaps, outlived>>
    BY <1>3 DEF UpdateSchemaSubmission
  <2>9. Becomes(r, u)
    BY <1>t, <2>5, <2>6, <2>8, BecomesTask
  <2>10. u.at \in Owning /\ x # Nil
    BY <2>4, ConstantsAssumption DEF Owning, ConstantsAssumption
  <2> QED
    BY <2>4, <2>7, <2>8, <2>9, <2>10, StartProgress DEF Draws
<1> QED
  BY <1>1, <1>2, <1>3

\* Requests that go on without a call that changes a schema.
LEMMA QuietProgress ==
    ASSUME IInv, NEW r \in Requests, NEW x \in Schemas,
           \/ LoadSchema(r) \/ ListMetadata(r) \/ SaveSubmission(r) \/ ReopenSubmission(r)
    PROVE  Progress(x)
<1>t. TypeOK
  BY DEF IInv
<1>1. UNCHANGED <<schemas, metadata, late, drawn, confirmed, mishaps>>
  BY DEF LoadSchema, ListMetadata, SaveSubmission, ReopenSubmission
<1>2. Untouched(x) /\ Evolves(x)
  BY <1>1, UntouchedEvolves DEF Untouched
<1>3. CASE Answer(r)
  BY <1>t, <1>1, <1>2, <1>3, AnswerEnds, EndGoesOn DEF Progress
<1>4. CASE \E step \in {"alter record", "insert"} :
             GoTo(r, step) /\ (step = "insert" => task[r].at = "save submission")
  <2>1. PICK step \in {"alter record", "insert"} :
          GoTo(r, step) /\ (step = "insert" => task[r].at = "save submission")
    BY <1>4
  <2>2. Moved(r, step)
    BY <1>t, <2>1, GoToMoves DEF Steps, Creating, Altering
  <2>3. step \in Owning => task[r].at \in Owning
    BY <2>1 DEF Owning, Creating
  <2> QED
    BY <1>1, <1>2, <2>2, <2>3, MoveGoesOn DEF Progress
<1>5. CASE LoadSchema(r) /\ ~ Answer(r)
  <2>1. PICK draft :
          task' = [task EXCEPT ![r].at = "save row", ![r].draft = draft]
    BY <1>5 DEF LoadSchema
  <2>2. task'[r] = [task[r] EXCEPT !.at = "save row", !.draft = draft]
        /\ \A q \in Requests \ {r} : task'[q] = task[q]
    BY <1>t, <2>1 DEF TypeOK
  <2>3. task[r] \in Task
    BY <1>t DEF TypeOK
  <2>4. task'[r].at = "save row" /\ task'[r].schema = task[r].schema
    BY <2>2, <2>3 DEF Task
  <2>5. outlived' = outlived
    BY <1>5 DEF LoadSchema
  <2>6. Others(r)
    BY <2>2, <2>5, LikeItself DEF Others
  <2>7. "save row" \notin Owning
    BY DEF Owning, Creating
  <2> QED
    BY <1>1, <1>2, <2>4, <2>6, <2>7, GoingOn DEF Progress
<1> QED
  BY <1>3, <1>4, <1>5 DEF LoadSchema, ListMetadata, SaveSubmission, ReopenSubmission

\* Mishaps are only added, and only to the schema that the step is about.
LEMMA RecordedElsewhere ==
    ASSUME TypeOK, NEW y \in Schemas, NEW what, Recorded(y, what), NEW x \in Schemas
    PROVE  /\ mishaps[x] \subseteq mishaps'[x]
           /\ x # y => mishaps'[x] = mishaps[x]
           /\ x = y => what \cap Mishap \subseteq mishaps'[x]
<1>1. /\ mishaps \in [Schemas -> SUBSET Mishap]
      /\ mishaps' = [mishaps EXCEPT ![y] = mishaps[y] \cup (what \cap Mishap)]
  BY DEF TypeOK, Recorded
<1> QED
  BY <1>1

\* The steps of a creation.
LEMMA CreationProgress ==
    ASSUME IInv, NEW r \in Requests, NEW x \in Schemas,
           \/ InsertSchema(r) \/ SyncMetadata(r) \/ DeleteSchema(r)
    PROVE  Progress(x)
<1>t. TypeOK /\ SchemaOK(x)
  BY DEF IInv, SchemasOK
<1>0. task[r].at \in Creating
  BY DEF InsertSchema, SyncMetadata, DeleteSchema, Creating
<1>1. PICK y \in Schemas : y = task[r].schema
  BY <1>0, CreationFacts
<1>2. task[r].at \in Owning /\ Known(y) /\ Underway(y)
  BY <1>0, <1>1, OwningIsUnderway DEF Owning, Known
<1>3. drawn' = drawn
  BY DEF InsertSchema, SyncMetadata, DeleteSchema
<1>4. \E what : Recorded(y, what)
  BY <1>1 DEF InsertSchema, SyncMetadata, DeleteSchema
<1>5. mishaps[x] \subseteq mishaps'[x] /\ (x # y => mishaps'[x] = mishaps[x])
  BY <1>t, <1>4, RecordedElsewhere
<1>6. CASE InsertSchema(r)
  <2>1. PICK result \in Endings \ {"late"} :
          /\ Ends(schemas[y] = Nil, result)
          /\ \/ schemas' = schemas /\ ~ TookEffect(result)
             \/ /\ TookEffect(result)
                /\ \E row : schemas' = [schemas EXCEPT ![y] = row]
          /\ GoTo(r, "sync") \/ FailCreation(r)
    BY <1>1, <1>6 DEF InsertSchema
  <2>2. UNCHANGED <<metadata, late, confirmed>>
    BY <1>6 DEF InsertSchema
  <2>3. schemas'[x] = schemas[x] \/ (x = y /\ schemas[x] = Nil)
    BY <1>t, <2>1, EndsFacts DEF TypeOK, TookEffect
  <2>4. Evolves(x)
    <3>1. confirmed[x] # Nil => schemas[x] # Nil
      BY <1>t DEF SchemaOK, InStep
    <3> QED
      BY <1>5, <2>2, <2>3, <3>1 DEF Evolves
  <2>5. ~ Known(x) => Untouched(x)
    BY <1>2, <1>5, <2>2, <2>3 DEF Untouched
  <2>6. \/ Becomes(r, IdleTask) \/ Moved(r, "reopen") \/ Moved(r, "sync")
    BY <1>t, <2>1, GoToMoves, FailCreationFails DEF Steps, Creating
  <2>7. GoesOn(x)
    BY <1>2, <1>3, <2>2, <2>5, <2>6, EndGoesOn, MoveGoesOn
  <2> QED
    BY <2>4, <2>7 DEF Progress
<1>7. CASE SyncMetadata(r)
  <2>1. PICK draft : draft = task[r].draft
    OBVIOUS
  <2>2. PICK result \in Endings \ {"lost"} :
         /\ IF result = "done"
            THEN /\ metadata' = [metadata EXCEPT ![y] = draft.fields]
                 /\ task' = [Removed(y, metadata[y] \ draft.fields) EXCEPT ![r] = IdleTask]
                 /\ outlived' = outlived \ {r}
                 /\ confirmed' = [confirmed EXCEPT ![y] =
                       [member |-> draft.member, submission |-> task[r].sub]]
            ELSE GoTo(r, "delete row") /\ UNCHANGED <<metadata, confirmed>>
         /\ late' = IF result = "late" THEN late \cup {<<y, draft.fields>>} ELSE late
    BY <1>1, <1>7, <2>1 DEF SyncMetadata
  <2>3. schemas' = schemas
    BY <1>7 DEF SyncMetadata
  <2>4. x # y => metadata'[x] = metadata[x] /\ confirmed'[x] = confirmed[x]
    <3>1. \/ UNCHANGED <<metadata, confirmed>>
          \/ /\ metadata' = [metadata EXCEPT ![y] = draft.fields]
             /\ confirmed' = [confirmed EXCEPT ![y] =
                   [member |-> draft.member, submission |-> task[r].sub]]
      BY <2>2
    <3> DEFINE success == [member |-> draft.member, submission |-> task[r].sub]
    <3> HIDE DEF success
    <3>2. \/ UNCHANGED <<metadata, confirmed>>
          \/ /\ metadata' = [metadata EXCEPT ![y] = draft.fields]
             /\ confirmed' = [confirmed EXCEPT ![y] = success]
      BY <3>1 DEF success
    <3> QED
      BY <1>t, <3>2 DEF TypeOK
  <2>5. \A call \in late' : call \in late \/ call[1] = task[r].schema
    <3>1. late' \subseteq late \cup {<<y, draft.fields>>}
      BY <2>2
    <3>2. <<y, draft.fields>>[1] = y
      OBVIOUS
    <3> QED
      BY <1>1, <3>1, <3>2
  <2>6. ~ Known(x) => Untouched(x)
    BY <1>2, <1>5, <2>3, <2>4 DEF Untouched
  <2>7. CASE result = "done"
    <3>1. Becomes(r, IdleTask)
      BY <1>t, <2>2, <2>7, RemovesAndEnds
    <3>2. GoesOn(x)
      BY <1>3, <2>5, <2>6, <3>1, EndGoesOn
    <3>3. CASE x = y
      <4>1. Inserted(r, x)
        BY <1>t, <1>1, <1>7, <3>3 DEF SchemaOK, Settles, Settling, SyncMetadata
      <4>2. confirmed'[x] = [member |-> draft.member, submission |-> task[r].sub]
        BY <1>t, <2>2, <2>7, <3>3 DEF TypeOK
      <4>3. confirmed'[x].member = draft.member
        BY <4>2
      <4>4. confirmed'[x] # Nil
        <5>1. draft.member \in Members /\ task[r].sub \in Submissions \cup {Nil}
          BY <1>0, <2>1, CreationFacts
        <5>2. confirmed'[x] \in Confirmation
          BY <4>2, <5>1 DEF Confirmation
        <5> QED
          BY <5>2, ConstantsAssumption DEF ConstantsAssumption
      <4>5. confirmed[x] = Nil
        BY <4>1 DEF Inserted
      <4>6. schemas'[x].member = confirmed'[x].member
            \/ <<"row", "changed hands">> \in mishaps'[x]
        BY <1>5, <2>1, <2>3, <4>1, <4>3 DEF Inserted
      <4> QED
        BY <1>2, <1>5, <3>2, <3>3, <4>4, <4>5, <4>6 DEF Evolves, Progress
    <3>4. CASE x # y
      BY <1>5, <2>3, <2>4, <3>2, <3>4 DEF Evolves, Progress
    <3> QED
      BY <3>3, <3>4
  <2>8. CASE result # "done"
    <3>1. Moved(r, "delete row")
      BY <1>t, <2>2, <2>8, GoToMoves DEF Steps, Creating
    <3>2. GoesOn(x)
      BY <1>2, <1>3, <2>5, <2>6, <3>1, MoveGoesOn
    <3>3. Evolves(x)
      BY <1>5, <2>2, <2>3, <2>8 DEF Evolves
    <3> QED
      BY <3>2, <3>3 DEF Progress
  <2> QED
    BY <2>7, <2>8
<1>8. CASE DeleteSchema(r)
  <2>1. /\ UNCHANGED <<metadata, late, confirmed>>
        /\ task[r].at = "delete row"
        /\ \/ schemas' = schemas
           \/ schemas' = [schemas EXCEPT ![y] = Nil]
        /\ outlived \subseteq outlived'
    BY <1>1, <1>8 DEF DeleteSchema
  <2>2. x # y => schemas'[x] = schemas[x]
    BY <1>t, <2>1 DEF TypeOK
  <2>3. x = y => confirmed[x] = Nil
    BY <1>t, <1>1, <2>1 DEF SchemaOK, Settles, Settling, Inserted
  <2>4. Evolves(x)
    BY <1>5, <2>1, <2>2, <2>3 DEF Evolves
  <2>5. ~ Known(x) => Untouched(x)
    BY <1>2, <1>5, <2>1, <2>2 DEF Untouched
  <2>6. /\ task' = [task EXCEPT ![r] = IF task[r].sub = Nil THEN IdleTask
                                       ELSE [task[r] EXCEPT !.at = "reopen"]]
        /\ task \in [Requests -> Task]
    BY <1>t, <1>8 DEF DeleteSchema, TypeOK
  <2>7. task'[r].schema \in {task[r].schema, Nil}
    <3>1. task'[r] = IF task[r].sub = Nil THEN IdleTask ELSE [task[r] EXCEPT !.at = "reopen"]
      BY <2>6
    <3>2. [task[r] EXCEPT !.at = "reopen"].schema = task[r].schema
      BY <2>6 DEF Task
    <3> QED
      BY <3>1, <3>2, IdleFacts
  <2>8. \A q \in Requests \ {r} : task'[q] = task[q]
    BY <2>6
  <2>9. Others(r)
    BY <2>1, <2>8, LikeItself DEF Others
  <2>10. GoesOn(x)
    BY <1>2, <1>3, <2>1, <2>5, <2>7, <2>9, GoingOn
  <2> QED
    BY <2>4, <2>10 DEF Progress
<1> QED
  BY <1>6, <1>7, <1>8

\* The save of an updated row.
LEMMA SaveProgress ==
    ASSUME IInv, NEW r \in Requests, SaveSchema(r), NEW x \in Schemas
    PROVE  Progress(x)
<1>t. TypeOK /\ SchemaOK(x)
  BY DEF IInv, SchemasOK
<1>1. PICK y \in Schemas : y = task[r].schema
  BY DEF IInv, TaskOK, Fits, SaveSchema, Updating
<1>2. PICK draft : draft = task[r].draft
  OBVIOUS
<1>3. PICK result \in Endings \ {"late"} :
         /\ schemas' = IF TookEffect(result) THEN [schemas EXCEPT ![y] = draft] ELSE schemas
         /\ Recorded(y, IF TookEffect(result) THEN SavedOver(schemas[y], draft) ELSE {})
  BY <1>1, <1>2 DEF SaveSchema
<1>4. UNCHANGED <<metadata, late, confirmed, drawn>>
  BY DEF SaveSchema
<1>5. /\ mishaps[x] \subseteq mishaps'[x]
      /\ x # y => mishaps'[x] = mishaps[x]
      /\ x = y /\ TookEffect(result) => SavedOver(schemas[y], draft) \cap Mishap \subseteq mishaps'[x]
  BY <1>t, <1>3, RecordedElsewhere
<1>6. x # y => schemas'[x] = schemas[x]
  BY <1>t, <1>3 DEF TypeOK
<1>7. Known(y)
  BY <1>1 DEF Known
<1>8. ~ Known(x) => Untouched(x)
  BY <1>4, <1>5, <1>6, <1>7 DEF Untouched
<1>9. GoesOn(x)
  BY <1>t, <1>4, <1>8, AnswerEnds, EndGoesOn DEF SaveSchema
<1>10. ASSUME confirmed[x] # Nil
       PROVE  \/ schemas'[x].member = schemas[x].member
              \/ <<"row", "changed hands">> \in mishaps'[x]
  <2>1. schemas[x] # Nil
    BY <1>t, <1>10 DEF SchemaOK, InStep
  <2>2. CASE x = y /\ TookEffect(result)
    <3>1. schemas'[x] = draft
      BY <1>t, <1>3, <2>2 DEF TypeOK
    <3>2. schemas[x].member # draft.member
             => <<"row", "changed hands">> \in SavedOver(schemas[y], draft)
      BY <2>1, <2>2 DEF SavedOver
    <3> QED
      BY <1>5, <2>2, <3>1, <3>2, MishapFacts
  <2>3. CASE ~ (x = y /\ TookEffect(result))
    BY <1>3, <1>6, <2>3
  <2> QED
    BY <2>2, <2>3
<1> QED
  BY <1>4, <1>5, <1>9, <1>10 DEF Progress, Evolves

\* The call that changes a record.
LEMMA CallProgress ==
    ASSUME IInv, NEW r \in Requests, CallMetadata(r), NEW x \in Schemas
    PROVE  Progress(x)
<1>t. TypeOK
  BY DEF IInv
<1>1. PICK y \in Schemas : y = task[r].schema
  BY DEF IInv, TaskOK, Fits, CallMetadata, Altering
<1>2. PICK f : f = task[r].record
  OBVIOUS
<1>3. \/ /\ metadata' = [metadata EXCEPT ![y] = metadata[y] \ {f}]
         /\ task' = [Removed(y, {f}) EXCEPT ![r] = IdleTask]
         /\ Recorded(y, {<<"record", "deleted">>})
      \/ task' = [task EXCEPT ![r] = IdleTask] /\ UNCHANGED <<metadata, mishaps>>
  BY <1>1, <1>2 DEF CallMetadata
<1>4. UNCHANGED <<schemas, late, confirmed, drawn>> /\ outlived' = outlived \ {r}
  BY DEF CallMetadata
<1>5. mishaps[x] \subseteq mishaps'[x] /\ (x # y => mishaps'[x] = mishaps[x])
  BY <1>t, <1>3, RecordedElsewhere
<1>6. metadata'[x] \subseteq metadata[x] /\ (x # y => metadata'[x] = metadata[x])
  BY <1>t, <1>3 DEF TypeOK
<1>7. Known(y)
  BY <1>1 DEF Known
<1>8. Becomes(r, IdleTask)
  BY <1>t, <1>3, <1>4, BecomesTask, RemovesAndEnds, IdleFacts
<1>9. GoesOn(x)
  BY <1>4, <1>5, <1>6, <1>7, <1>8, EndGoesOn DEF Untouched
<1> QED
  BY <1>4, <1>5, <1>6, <1>9 DEF Progress, Evolves

\* Records that arrive late, and a crash.
LEMMA EventProgress ==
    ASSUME IInv, LateSync \/ Crash, NEW x \in Schemas
    PROVE  Progress(x)
<1>t. TypeOK
  BY DEF IInv
<1>1. CASE LateSync
  <2>1. PICK call \in late :
          /\ late' = late \ {call}
          /\ Stores(call[1], call[2])
    BY <1>1 DEF LateSync
  <2>2. /\ metadata' = [metadata EXCEPT ![call[1]] = call[2]]
        /\ task' = Removed(call[1], metadata[call[1]] \ call[2])
        /\ UNCHANGED <<schemas, drawn, confirmed, mishaps>>
    BY <1>1, <2>1 DEF LateSync, Stores
  <2>3. x = call[1] => Known(x) /\ <<"sync", "late">> \in mishaps'[x]
    BY <2>2 DEF Known, IInv, SchemasOK, LateOK
  <2>4. x # call[1] => metadata'[x] = metadata[x]
    BY <1>t, <2>2 DEF TypeOK
  <2>5. \A q \in Requests : task'[q].at = task[q].at /\ task'[q].schema = task[q].schema
    <3>1. \A q \in Requests : Like(task[q], task'[q])
      BY <1>t, <2>2, RemovedTasks
    <3> QED
      BY <3>1 DEF Like
  <2>6. (Underway(x)' => Underway(x)) /\ (Known(x)' => Known(x))
    BY <2>1, <2>5, OwningIsUnderway DEF Known
  <2> QED
    BY <2>2, <2>3, <2>4, <2>6 DEF Progress, Evolves, GoesOn, Untouched
<1>2. CASE Crash
  <2>1. /\ UNCHANGED <<schemas, metadata, late, drawn, confirmed>>
        /\ \A q \in Requests : task'[q] = IdleTask
        /\ mishaps[x] \subseteq mishaps'[x]
        /\ (\E q \in Requests : task[q].schema = x) \/ mishaps'[x] = mishaps[x]
    BY <1>2 DEF Crash
  <2>2. ~ (\E q \in Requests : task'[q].schema = x)
    BY <2>1, IdleFacts, ConstantsAssumption DEF ConstantsAssumption
  <2>3. ~ Underway(x)' /\ (Known(x)' => Known(x))
    BY <2>1, <2>2, OwningIsUnderway DEF Known
  <2> QED
    BY <2>1, <2>3 DEF Progress, Evolves, GoesOn, Untouched, Known
<1> QED
  BY <1>1, <1>2

\* Every step is progress of every creation, if only by leaving it alone.
LEMMA StepProgress ==
    ASSUME IInv, [Next]_vars, NEW x \in Schemas
    PROVE  Progress(x)
<1>1. CASE CreateSchemaSubmission \/ UNCHANGED vars
  <2>1. UNCHANGED <<schemas, metadata, late, task, drawn, confirmed, mishaps>>
    BY <1>1 DEF CreateSchemaSubmission, vars
  <2>2. (Underway(x)' => Underway(x)) /\ (Known(x)' => Known(x))
    BY <2>1 DEF Underway, Known
  <2> QED
    BY <2>1, <2>2 DEF Progress, Evolves, GoesOn, Untouched
<1>2. CASE LateSync \/ Crash
  BY <1>2, EventProgress
<1>3. ASSUME NEW r \in Requests,
             \/ CreateSchema(r)
             \/ InsertSchema(r)
             \/ SyncMetadata(r)
             \/ DeleteSchema(r)
             \/ UpdateSchema(r)
             \/ LoadSchema(r)
             \/ SaveSchema(r)
             \/ AlterRecord(r)
             \/ ListMetadata(r)
             \/ CallMetadata(r)
             \/ UpdateSchemaSubmission(r)
             \/ SaveSubmission(r)
             \/ ReopenSubmission(r)
      PROVE  Progress(x)
  BY <1>3, BeginProgress, QuietProgress, CreationProgress, SaveProgress, CallProgress
<1> QED
  BY <1>1, <1>2, <1>3 DEF Next

-----------------------------------------------------------------------------
(* The invariant of single creations.                                      *)

\* What there is of a schema that nobody has asked for, whose row a success
\* left, and whose records there are without one.
CreationOK(x) ==
    /\ x \in drawn => x \notin Chosen
    /\ x \notin Chosen \cup drawn =>
          /\ ~ Known(x)
          /\ schemas[x] = Nil /\ metadata[x] = {} /\ confirmed[x] = Nil /\ mishaps[x] = {}
    /\ confirmed[x] # Nil =>
          \/ schemas[x].member = confirmed[x].member
          \/ <<"row", "changed hands">> \in mishaps[x]
    /\ \/ metadata[x] = {}
       \/ confirmed[x] # Nil
       \/ <<"sync", "late">> \in mishaps[x]

RInv == IInv /\ \A x \in Schemas : CreationOK(x)

LEMMA RInvStep ==
    ASSUME RInv, [Next]_vars
    PROVE  RInv'
<1>1. IInv'
  BY NextOK DEF RInv
<1>2. ASSUME NEW x \in Schemas
      PROVE  CreationOK(x)'
  <2>1. CreationOK(x) /\ Evolves(x) /\ (GoesOn(x) \/ Begins(x))
    BY StepProgress DEF RInv, Progress
  <2>2. x \in drawn' => x \notin Chosen
    BY <2>1 DEF CreationOK, GoesOn, Begins
  <2>3. ASSUME x \notin Chosen \cup drawn'
        PROVE  /\ ~ Known(x)'
               /\ schemas'[x] = Nil /\ metadata'[x] = {} /\ confirmed'[x] = Nil
               /\ mishaps'[x] = {}
    <3>1. GoesOn(x) /\ x \notin Chosen \cup drawn
      BY <2>1, <2>3 DEF GoesOn, Begins
    <3> QED
      BY <2>1, <3>1 DEF CreationOK, GoesOn, Untouched
  <2>4. confirmed'[x] # Nil =>
           \/ schemas'[x].member = confirmed'[x].member
           \/ <<"row", "changed hands">> \in mishaps'[x]
    BY <2>1 DEF CreationOK, Evolves
  <2>5. \/ metadata'[x] = {}
        \/ confirmed'[x] # Nil
        \/ <<"sync", "late">> \in mishaps'[x]
    BY <2>1 DEF CreationOK, Evolves
  <2> QED
    BY <2>2, <2>3, <2>4, <2>5 DEF CreationOK
<1> QED
  BY <1>1, <1>2 DEF RInv

LEMMA RInvInitially == Init => RInv
<1>1. Init => \A x \in Schemas : CreationOK(x)
  <2> SUFFICES ASSUME Init, NEW x \in Schemas
               PROVE  CreationOK(x)
    OBVIOUS
  <2>1. ~ Known(x)
    BY IdleFacts, ConstantsAssumption DEF Init, Known, ConstantsAssumption
  <2> QED
    BY <2>1 DEF Init, CreationOK
<1> QED
  BY <1>1, InitOK DEF RInv

LEMMA RInvInvariant == Spec => []RInv
<1>1. Init => RInv
  BY RInvInitially
<1>2. RInv /\ [Next]_vars => RInv'
  BY RInvStep
<1> QED
  BY <1>1, <1>2, PTL DEF Spec

-----------------------------------------------------------------------------
(* The saga implements all-or-nothing creation.                            *)

\* What Creation sees of x.
There(x) == IF confirmed[x] # Nil THEN AsAsked(x) ELSE Found(x)

\* The parts, one by one.
LEMMA PartByPart ==
    ASSUME NEW x \in Schemas
    PROVE  /\ Found(x) \subseteq Parts
           /\ "row" \in Found(x) <=> schemas[x] # Nil
           /\ "records" \in Found(x) <=> metadata[x] # {}
           /\ "row" \in MayStay(x) <=> mishaps[x] \cap KeepsRow # {}
           /\ "records" \in MayStay(x) <=> mishaps[x] \cap {<<"sync", "late">>} # {}
           /\ "row" \in MayDrift(x) <=> mishaps[x] \cap {<<"row", "changed hands">>} # {}
           /\ "records" \in MayDrift(x) <=> mishaps[x] \cap OutOfStep # {}
BY DEF Found, MayStay, MayDrift, Parts

\* What RInv says of one creation.
Settled(x) ==
    /\ Found(x) \subseteq Parts
    /\ x \in drawn => x \notin Chosen
    /\ Underway(x) => x \in Chosen \cup drawn
    /\ x \notin Chosen \cup drawn => ~ Known(x)
    /\ confirmed[x] # Nil => Parts \subseteq There(x) \cup MayDrift(x)
    /\ confirmed[x] = Nil /\ ~ Underway(x) => There(x) \subseteq MayStay(x)

LEMMA InvSettles ==
    ASSUME NEW x \in Schemas
    PROVE  RInv => Settled(x)
<1> SUFFICES ASSUME RInv
             PROVE  Settled(x)
  OBVIOUS
<1>1. SchemaOK(x) /\ CreationOK(x)
  BY DEF RInv, IInv, SchemasOK
<1>2. Underway(x) => Known(x)
  BY DEF Underway, Known
<1>3. ASSUME confirmed[x] # Nil
      PROVE  Parts \subseteq There(x) \cup MayDrift(x)
  <2>1. /\ schemas[x] # Nil
        /\ metadata[x] = schemas[x].fields \/ mishaps[x] \cap OutOfStep # {}
    BY <1>1, <1>3 DEF SchemaOK, InStep
  <2>2. \/ schemas[x].member = confirmed[x].member
        \/ <<"row", "changed hands">> \in mishaps[x]
    BY <1>1, <1>3 DEF CreationOK
  <2>3. There(x) = AsAsked(x)
    BY <1>3 DEF There
  <2>4. "row" \in There(x) \cup MayDrift(x)
    BY <2>1, <2>2, <2>3, PartByPart DEF AsAsked, Parts
  <2>5. "records" \in There(x) \cup MayDrift(x)
    BY <2>1, <2>3, PartByPart DEF AsAsked, Parts
  <2> QED
    BY <2>4, <2>5 DEF Parts
<1>4. ASSUME confirmed[x] = Nil, ~ Underway(x)
      PROVE  There(x) \subseteq MayStay(x)
  <2>1. \A r \in Requests : ~ Settles(r, x)
    BY <1>4 DEF Underway, Settles, Settling, Creating
  <2>2. schemas[x] # Nil => mishaps[x] \cap KeepsRow # {}
    BY <1>1, <1>4, <2>1 DEF SchemaOK, Explained
  <2>3. metadata[x] # {} => <<"sync", "late">> \in mishaps[x]
    BY <1>1, <1>4 DEF CreationOK
  <2> QED
    BY <1>4, <2>2, <2>3, PartByPart DEF There, Parts
<1> QED
  BY <1>1, <1>2, <1>3, <1>4, PartByPart DEF Settled, CreationOK

LEMMA SettlesAgain ==
    ASSUME NEW x \in Schemas
    PROVE  (RInv => Settled(x))'
<1>1. RInv => Settled(x)
  BY InvSettles
<1> QED
  BY <1>1, PTL

\* Mishaps are remembered, and with them the parts that may stay or drift.
LEMMA MishapsGrow ==
    ASSUME NEW x \in Schemas, mishaps[x] \subseteq mishaps'[x]
    PROVE  MayStay(x) \subseteq MayStay(x)' /\ MayDrift(x) \subseteq MayDrift(x)'
BY DEF MayStay, MayDrift, Parts

\* What is left alone looks the same.
LEMMA UntouchedSame ==
    ASSUME NEW x \in Schemas, Untouched(x)
    PROVE  /\ There(x)' = There(x)
           /\ MayStay(x)' = MayStay(x)
           /\ MayDrift(x)' = MayDrift(x)
BY DEF Untouched, There, AsAsked, Found, MayStay, MayDrift

\* Every step of the saga is, for each creation, one that Creation allows.
LEMMA StepRefines ==
    ASSUME RInv, RInv', [Next]_vars, NEW x \in Schemas
    PROVE  AllOrNothing!Step(x)
<1>p. Evolves(x) /\ (GoesOn(x) \/ Begins(x))
  BY StepProgress DEF RInv, Progress
<1>s. Settled(x) /\ Settled(x)'
  BY InvSettles, SettlesAgain
<1>m. MayStay(x) \subseteq MayStay(x)' /\ MayDrift(x) \subseteq MayDrift(x)'
  BY <1>p, MishapsGrow DEF Evolves
<1>d. x \in drawn => x \in drawn'
  BY <1>p DEF GoesOn, Begins
<1>1. CASE confirmed[x] # Nil
  <2>1. PhaseOf(x) = "complete" /\ PhaseOf(x)' = "complete" /\ confirmed'[x] # Nil
    BY <1>1, <1>p DEF PhaseOf, Evolves
  <2>2. Parts \subseteq There(x)' \cup MayDrift(x)'
    BY <2>1, <1>s DEF Settled
  <2>3. AllOrNothing!Keep(x)
    BY <2>1, <2>2, <1>m DEF AllOrNothing!Keep, AllOrNothing!Remembers, AllOrNothing!Whole, There
  <2> QED
    BY <2>3 DEF AllOrNothing!Step
<1>2. CASE confirmed[x] = Nil /\ Underway(x)
  <2>1. PhaseOf(x) = "underway" /\ x \in Chosen \cup drawn
    BY <1>2, <1>s DEF PhaseOf, Settled
  <2>2. CASE confirmed'[x] # Nil
    <3>1. PhaseOf(x)' = "complete"
      BY <2>2 DEF PhaseOf
    <3>2. Parts \subseteq There(x)' \cup MayDrift(x)'
      BY <2>2, <1>s DEF Settled
    <3>3. AllOrNothing!Complete(x)
      BY <2>1, <3>1, <3>2, <1>m
         DEF AllOrNothing!Complete, AllOrNothing!Remembers, AllOrNothing!Whole, There
    <3> QED
      BY <3>3 DEF AllOrNothing!Step
  <2>3. CASE confirmed'[x] = Nil /\ Underway(x)'
    <3>1. PhaseOf(x)' = "underway"
      BY <2>3 DEF PhaseOf
    <3>2. AllOrNothing!Work(x)
      BY <2>1, <3>1, <1>m DEF AllOrNothing!Work, AllOrNothing!Remembers
    <3> QED
      BY <3>2 DEF AllOrNothing!Step
  <2>4. CASE confirmed'[x] = Nil /\ ~ Underway(x)'
    <3>1. PhaseOf(x)' = IF x \in Chosen THEN "open" ELSE "closed"
      BY <2>1, <2>4, <1>d, <1>s DEF PhaseOf, Settled
    <3>2. There(x)' \subseteq MayStay(x)'
      BY <2>4, <1>s DEF Settled
    <3>3. AllOrNothing!Fail(x)
      BY <2>1, <3>1, <3>2, <1>m
         DEF AllOrNothing!Fail, AllOrNothing!Remembers, AllOrNothing!Undone, There
    <3> QED
      BY <3>3 DEF AllOrNothing!Step
  <2> QED
    BY <2>2, <2>3, <2>4
<1>3. CASE confirmed[x] = Nil /\ ~ Underway(x) /\ Begins(x)
  <2>1. confirmed'[x] = Nil /\ Underway(x)' /\ x \notin drawn
    BY <1>3, <1>s DEF Begins, Untouched, Settled
  <2>2. PhaseOf(x) = "open" /\ PhaseOf(x)' = "underway"
    BY <1>3, <2>1 DEF PhaseOf
  <2>3. AllOrNothing!Begin(x)
    BY <1>3, <2>2, UntouchedSame DEF AllOrNothing!Begin, AllOrNothing!Same, There, Begins
  <2> QED
    BY <2>3 DEF AllOrNothing!Step
<1>4. CASE confirmed[x] = Nil /\ ~ Underway(x) /\ GoesOn(x)
  <2>1. confirmed'[x] = Nil /\ ~ Underway(x)' /\ (x \in drawn' <=> x \in drawn)
    BY <1>4, <1>p DEF Evolves, GoesOn
  <2>2. PhaseOf(x)' = PhaseOf(x) /\ PhaseOf(x) = IF x \in drawn THEN "closed" ELSE "open"
    BY <1>4, <2>1 DEF PhaseOf
  <2>3. CASE x \in Chosen \cup drawn
    <3>1. There(x)' \subseteq MayStay(x)'
      BY <2>1, <1>s DEF Settled
    <3>2. There(x)' \subseteq There(x) \cup {"row", "records"}
      BY <2>1, <1>s DEF Settled, There, Parts
    <3>3. AllOrNothing!Rest(x)
      BY <2>2, <2>3, <3>1, <3>2, <1>m
         DEF AllOrNothing!Rest, AllOrNothing!Remembers, AllOrNothing!Undone, There
    <3> QED
      BY <3>3 DEF AllOrNothing!Step
  <2>4. CASE x \notin Chosen \cup drawn
    <3>1. Untouched(x)
      BY <2>4, <1>4, <1>s DEF Settled, GoesOn
    <3> QED
      BY <2>2, <3>1, UntouchedSame DEF AllOrNothing!Step, AllOrNothing!Same, There
  <2> QED
    BY <2>3, <2>4
<1> QED
  BY <1>1, <1>2, <1>3, <1>4, <1>p

\* Every call of every request, every late sync and every crash is a step of the
\* all-or-nothing creation: a schema that was created keeps its row and records
\* whatever creations of the same id undo, and what failed is taken back but for
\* the mishaps on record.
THEOREM Refinement == Spec => ImplementsCreation
<1>1. Init => AllOrNothing!Init
  <2> SUFFICES ASSUME Init
               PROVE  \A x \in Schemas :
                         /\ PhaseOf(x) = "open"
                         /\ There(x) = {}
                         /\ MayStay(x) = {} /\ MayDrift(x) = {}
    BY DEF AllOrNothing!Init, There
  <2> TAKE x \in Schemas
  <2>1. /\ schemas[x] = Nil /\ metadata[x] = {} /\ confirmed[x] = Nil /\ mishaps[x] = {}
        /\ drawn = {}
    BY DEF Init
  <2>2. ~ Underway(x)
    BY IdleFacts, ConstantsAssumption DEF Init, Underway, ConstantsAssumption
  <2>3. PhaseOf(x) = "open"
    BY <2>1, <2>2 DEF PhaseOf
  <2>4. There(x) = {}
    BY <2>1, PartByPart DEF There, Parts
  <2>5. MayStay(x) = {} /\ MayDrift(x) = {}
    BY <2>1 DEF MayStay, MayDrift, Parts
  <2> QED
    BY <2>3, <2>4, <2>5
<1>2. RInv /\ RInv' /\ [Next]_vars => [AllOrNothing!Next]_(AllOrNothing!vars)
  BY StepRefines DEF AllOrNothing!Next
<1> QED
  BY <1>1, <1>2, RInvInvariant, PTL DEF Spec, ImplementsCreation, AllOrNothing!Spec

=============================================================================
