----------------------- MODULE ApplicationSagaProofs -----------------------
(***************************************************************************)
(* Proofs about ApplicationSaga: the inductive invariant, and the theorems *)
(* that follow from it.                                                    *)
(***************************************************************************)
EXTENDS ApplicationSaga, TLAPS

-----------------------------------------------------------------------------
(* The inductive invariant.                                                *)

\* Steps of a request that owns the application it is about.
Owning == Forward \cup Undoing \cup {"save submission"}

\* Owning steps before which there has never been a row.
Early == {"save submission", "account", "role", "discard", "insert"}

\* What a request remembers fits the step it is at, the orders and the grants.
Fits(t, orders, grants) ==
    /\ t.at = "idle" => t = IdleTask
    /\ t.at \in Forward \cup Undoing =>
          /\ t.app \in Applications
          /\ t.sub = orders[t.app].submission
          /\ t.sub # Nil => t.draft \in SubmissionRow
    /\ t.at \in {"save submission", "reopen"} =>
          /\ t.sub \in Submissions
          /\ t.draft \in SubmissionRow
    /\ t.at = "save submission" /\ t.app # Nil =>
          t.sub = orders[t.app].submission
    /\ t.at \in {"regrant", "save row"} =>
          /\ t.app \in Applications
          /\ t.sub = Nil
          /\ t.draft \in Row
          /\ t.draft.client = orders[t.app].client
    /\ t.at = "save row" =>
          t.draft.fields \subseteq grants[orders[t.app].client] \cup orders[t.app].fields

TaskOK == \A r \in Requests : Fits(task[r], order, granted)

\* Ids in use have been drawn, for an account of their own or one made by hand,
\* and a creation belongs to one request.
OwnersOK ==
    /\ \A n \in Applications : order[n] # Nil => order[n].client \in {n} \cup Provisioned
    /\ \A r \in Requests : task[r].app # Nil => order[task[r].app] # Nil
    /\ \A r, q \in Requests :
          /\ task[r].at \in Owning
          /\ task[q].at \in Owning
          /\ task[r].app = task[q].app
          /\ task[r].app # Nil
          => r = q

\* Rows and confirmed applications are of creations, the former as asked or updated.
RowsOK ==
    \A n \in Applications :
       /\ applications[n] # Nil =>
             /\ order[n] # Nil
             /\ applications[n].client = order[n].client
             /\ applications[n].fields \subseteq
                   granted[order[n].client] \cup order[n].fields
       /\ n \in confirmed => order[n] # Nil

\* The accounts are those made by hand and those of creations that make one.
AccountsOK ==
    /\ Provisioned \subseteq accounts
    /\ \A n \in accounts \cap Applications :
          order[n] # Nil /\ ~ ExternallyProvisioned(n)

\* What holds of the three systems while a creation is at each of its steps.
CreationOK ==
    \A r \in Requests :
       LET n == task[r].app IN
       task[r].at \in Owning /\ n # Nil =>
          /\ n \notin confirmed
          /\ task[r].at \in {"save submission", "account", "role", "discard",
                             "delete account"} => ~ ExternallyProvisioned(n)
          /\ task[r].at \in Early => applications[n] = Nil
          /\ task[r].at \in {"save submission", "account"} => n \notin accounts
          /\ task[r].at = "role" => n \in accounts
          /\ task[r].at \in {"insert", "grant"} =>
                /\ order[n].client \in accounts
                /\ AssignsRole /\ ~ ExternallyProvisioned(n) => n \in assigned
          /\ task[r].at = "grant" => applications[n] # Nil
          /\ task[r].at = "delete account" =>
                applications[n] = Nil \/ mishaps[n] \cap KeepsRow # {}

\* Nobody updates an application that never had a row.
UpdatesOK ==
    \A r, q \in Requests :
       /\ task[r].at \in Early
       /\ task[q].at \in {"regrant", "save row"}
       => task[r].app # task[q].app

HasApplication(s) == \E n \in confirmed : order[n].submission = s

\* Of a submission that is not strained at most one review is at work, and
\* until it saves, what is stored has its application if it is approved.
ReviewsOK ==
    /\ \A r, q \in Requests :
          /\ task[r].sub # Nil
          /\ task[r].sub = task[q].sub
          /\ task[r].sub \notin strained
          => r = q
    /\ \A r \in Requests :
          LET s == task[r].sub IN
          task[r].at = "save submission" /\ s \notin strained =>
             /\ submissions[s] # Nil
             /\ submissions[s].status = "approved" => HasApplication(s)
             /\ task[r].draft.status = "approved" /\ task[r].app = Nil
                   => HasApplication(s)

IInv ==
    /\ TypeOK
    /\ TaskOK
    /\ OwnersOK
    /\ RowsOK
    /\ AccountsOK
    /\ CreationOK
    /\ UpdatesOK
    /\ ReviewsOK
    /\ ConfirmedIsComplete
    /\ NoStrayAccount
    /\ NoStrayRow
    /\ ApprovedHasApplication

-----------------------------------------------------------------------------
(* What a request remembers when it moves on, and when it is answered.     *)

\* Request r is at step x, and nothing else about requests has changed.
Moved(r, x) ==
    /\ task' \in [Requests -> Task]
    /\ task'[r].at = x
    /\ task'[r].app = task[r].app
    /\ task'[r].sub = task[r].sub
    /\ task'[r].draft = task[r].draft
    /\ hungUp' \subseteq Requests
    /\ \A q \in Requests \ {r} : task'[q] = task[q]

\* Request r is answered, and nothing else about requests has changed.
Answered(r) ==
    /\ task' \in [Requests -> Task]
    /\ task'[r] = IdleTask
    /\ hungUp' \subseteq Requests
    /\ \A q \in Requests \ {r} : task'[q] = task[q]

LEMMA GoToMoves ==
    ASSUME TypeOK, NEW r \in Requests, NEW x \in Steps, GoTo(r, x)
    PROVE  Moved(r, x)
<1>1. task \in [Requests -> Task]
  BY DEF TypeOK
<1>2. task' = [task EXCEPT ![r] = [task[r] EXCEPT !.at = x]]
  BY DEF GoTo
<1>3. [task[r] EXCEPT !.at = x] \in Task
  BY <1>1 DEF Task
<1> QED
  BY <1>1, <1>2, <1>3 DEF Moved, Task, TypeOK, GoTo

LEMMA AnswerAnswers ==
    ASSUME TypeOK, NEW r \in Requests, Answer(r)
    PROVE  Answered(r)
<1>1. IdleTask \in Task
  BY DEF IdleTask, Task
<1> QED
  BY <1>1 DEF TypeOK, Answer, Answered

\* A creation fails: the request is answered, or reopens its submission.
LEMMA FailCreationFails ==
    ASSUME TypeOK, NEW r \in Requests, FailCreation(r)
    PROVE  \/ Answered(r) /\ task[r].sub = Nil
           \/ Moved(r, "reopen") /\ task[r].sub # Nil
<1>1. CASE task[r].sub = Nil
  BY <1>1, AnswerAnswers DEF FailCreation
<1>2. CASE task[r].sub # Nil
  <2>1. GoTo(r, "reopen")
    BY <1>2 DEF FailCreation
  <2>2. "reopen" \in Steps
    BY DEF Steps, Saving
  <2> QED
    BY <2>1, <2>2, <1>2, GoToMoves
<1> QED
  BY <1>1, <1>2

\* A creation undoes its account if it made one, and fails if not.
LEMMA UndoAccountUndoes ==
    ASSUME TypeOK, NEW r \in Requests, UndoAccount(r)
    PROVE  \/ /\ ExternallyProvisioned(task[r].app)
              /\ \/ Answered(r) /\ task[r].sub = Nil
                 \/ Moved(r, "reopen") /\ task[r].sub # Nil
           \/ ~ ExternallyProvisioned(task[r].app) /\ Moved(r, "delete account")
<1>1. CASE ExternallyProvisioned(task[r].app)
  BY <1>1, FailCreationFails DEF UndoAccount
<1>2. CASE ~ ExternallyProvisioned(task[r].app)
  <2>1. GoTo(r, "delete account")
    BY <1>2 DEF UndoAccount
  <2>2. "delete account" \in Steps
    BY DEF Steps, Undoing
  <2> QED
    BY <2>1, <2>2, <1>2, GoToMoves
<1> QED
  BY <1>1, <1>2

-----------------------------------------------------------------------------
(* What the steps of a creation have in common.                            *)

CreationMove(r) ==
    /\ task[r].at \in Forward \cup Undoing
    /\ \/ Answered(r)
       \/ Moved(r, "reopen") /\ task[r].sub # Nil
       \/ \E x \in Forward \cup Undoing :
             Moved(r, x) /\ (x \in Early => task[r].at \in Early)
    /\ order' = order
    /\ submissions' = submissions
    /\ strained' = strained
    /\ confirmed \subseteq confirmed'
    /\ \A c \in Accounts : granted[c] \subseteq granted'[c]

LEMMA CreationMoves ==
    ASSUME TypeOK, TaskOK, NEW r \in Requests, Creation(r)
    PROVE  CreationMove(r)
<1> DEFINE n == task[r].app
<1>a. \A x \in Forward \cup Undoing : x \in Steps
  BY DEF Steps
<1>1. CASE CreateAccount(r)
  <2>1. PICK result \in Endings \cup {"unusable"} :
          CASE result = "done"     -> GoTo(r, IF AssignsRole THEN "role" ELSE "insert")
            [] result = "unusable" -> GoTo(r, "discard")
            [] OTHER               -> FailCreation(r)
    BY <1>1 DEF CreateAccount
  <2>2. \/ GoTo(r, "role") \/ GoTo(r, "insert") \/ GoTo(r, "discard")
        \/ FailCreation(r)
    BY <2>1, ConstantsAssumption DEF ConstantsAssumption
  <2>3. \/ Answered(r) \/ (Moved(r, "reopen") /\ task[r].sub # Nil)
        \/ \E x \in {"role", "insert", "discard"} : Moved(r, x)
    BY <2>2, <1>a, GoToMoves, FailCreationFails DEF Forward, Undoing
  <2> QED
    BY <2>3, <1>1 DEF CreateAccount, CreationMove, Forward, Undoing, Early
<1>2. CASE AssignRole(r)
  <2>1. GoTo(r, "insert") \/ GoTo(r, "discard")
    BY <1>2 DEF AssignRole
  <2>2. Moved(r, "insert") \/ Moved(r, "discard")
    BY <2>1, <1>a, GoToMoves DEF Forward, Undoing
  <2> QED
    BY <2>2, <1>2 DEF AssignRole, CreationMove, Forward, Undoing, Early
<1>3. CASE DiscardAccount(r)
  <2>1. FailCreation(r)
    BY <1>3 DEF DiscardAccount
  <2> QED
    BY <2>1, <1>3, FailCreationFails DEF DiscardAccount, CreationMove, Undoing
<1>4. CASE InsertApplication(r)
  <2>1. GoTo(r, "grant") \/ UndoAccount(r)
    BY <1>4 DEF InsertApplication
  <2>2. \/ Answered(r) \/ (Moved(r, "reopen") /\ task[r].sub # Nil)
        \/ \E x \in {"grant", "delete account"} : Moved(r, x)
    BY <2>1, <1>a, GoToMoves, UndoAccountUndoes DEF Forward, Undoing
  <2> QED
    BY <2>2, <1>4 DEF InsertApplication, CreationMove, Forward, Undoing, Early
<1>5. CASE GrantFields(r)
  <2>1. Answer(r) \/ GoTo(r, "delete row")
    BY <1>5 DEF GrantFields
  <2>2. Answered(r) \/ Moved(r, "delete row")
    BY <2>1, <1>a, GoToMoves, AnswerAnswers DEF Undoing
  <2>3. \A c \in Accounts : granted[c] \subseteq granted'[c]
    BY <1>5 DEF GrantFields, TypeOK
  <2>4. CASE Answered(r)
    BY <2>4, <2>3, <1>5 DEF GrantFields, CreationMove, Forward
  <2>5. CASE \E x \in {"delete row"} : Moved(r, x)
    BY <2>5, <2>3, <1>5 DEF GrantFields, CreationMove, Forward, Undoing, Early
  <2> QED
    BY <2>2, <2>4, <2>5
<1>6. CASE DeleteApplication(r)
  <2>1. UndoAccount(r)
    BY <1>6 DEF DeleteApplication
  <2>2. \/ Answered(r) \/ (Moved(r, "reopen") /\ task[r].sub # Nil)
        \/ Moved(r, "delete account")
    BY <2>1, UndoAccountUndoes
  <2>3. CASE Answered(r) \/ (Moved(r, "reopen") /\ task[r].sub # Nil)
    BY <2>3, <1>6 DEF DeleteApplication, CreationMove, Undoing
  <2>4. CASE \E x \in {"delete account"} : Moved(r, x)
    BY <2>4, <1>6 DEF DeleteApplication, CreationMove, Undoing, Early
  <2> QED
    BY <2>2, <2>3, <2>4
<1>7. CASE DeleteAccount(r)
  <2>1. FailCreation(r)
    BY <1>7 DEF DeleteAccount
  <2> QED
    BY <2>1, <1>7, FailCreationFails DEF DeleteAccount, CreationMove, Undoing
<1> QED
  BY <1>1, <1>2, <1>3, <1>4, <1>5, <1>6, <1>7 DEF Creation

\* An idle request owns nothing.
LEMMA IdleFacts ==
    /\ IdleTask.at = "idle" /\ IdleTask.app = Nil /\ IdleTask.sub = Nil
    /\ "idle" \notin Owning /\ "idle" \notin Early
    /\ "idle" \notin Forward \cup Undoing
    /\ "idle" \notin Saving
BY DEF IdleTask, Owning, Early, Forward, Undoing, Saving

LEMMA ReopenFacts ==
    /\ "reopen" \notin Owning /\ "reopen" \notin Early
    /\ "reopen" \notin Forward \cup Undoing
BY DEF Owning, Early, Forward, Undoing

LEMMA CreationKeepsMemory ==
    ASSUME TypeOK, TaskOK, OwnersOK, NEW r \in Requests, CreationMove(r)
    PROVE  TaskOK'
<1> SUFFICES ASSUME NEW q \in Requests
             PROVE  Fits(task'[q], order', granted')
  BY DEF TaskOK
<1>o. order' = order
  BY DEF CreationMove
<1>1. CASE q # r
  <2>1. task'[q] = task[q]
    BY <1>1 DEF CreationMove, Answered, Moved
  <2>2. task[q].at = "save row" => order[task[q].app].client \in Accounts
    BY ConstantsAssumption DEF TaskOK, Fits, OwnersOK, TypeOK, Order, ConstantsAssumption
  <2>3. \A c \in Accounts : granted[c] \subseteq granted'[c]
    BY DEF CreationMove
  <2>4. task[q].at = "save row" => task[q].draft.fields \subseteq
          granted'[order[task[q].app].client] \cup order[task[q].app].fields
    BY <2>2, <2>3 DEF TaskOK, Fits
  <2> QED
    BY <2>1, <2>4, <1>o DEF TaskOK, Fits
<1>2. CASE q = r /\ Answered(r)
  BY <1>2, IdleFacts DEF Answered, Saving, Fits
<1>3. CASE q = r /\ Moved(r, "reopen") /\ task[r].sub # Nil
  <2>1. task[r].draft \in SubmissionRow /\ task[r].sub \in Submissions
    BY <1>3 DEF CreationMove, TaskOK, Fits, TypeOK, Task
  <2> QED
    BY <2>1, <1>3 DEF Moved, Forward, Undoing, Fits
<1>4. CASE q = r /\ \E x \in Forward \cup Undoing : Moved(r, x)
  <2>1. /\ task'[q].at \in Forward \cup Undoing
        /\ task'[q].app = task[q].app /\ task'[q].sub = task[q].sub
        /\ task'[q].draft = task[q].draft
    BY <1>4 DEF Moved
  <2>2. task[q].at \in Forward \cup Undoing
    BY <1>4 DEF CreationMove
  <2> QED
    BY <2>1, <2>2, <1>o DEF TaskOK, Fits, Forward, Undoing
<1> QED
  BY <1>1, <1>2, <1>3, <1>4 DEF CreationMove

LEMMA CreationKeepsOwners ==
    ASSUME TypeOK, TaskOK, OwnersOK, UpdatesOK, ReviewsOK,
           NEW r \in Requests, CreationMove(r)
    PROVE  OwnersOK' /\ UpdatesOK' /\ ReviewsOK'
<1>o. /\ order' = order /\ submissions' = submissions /\ strained' = strained
      /\ confirmed \subseteq confirmed'
  BY DEF CreationMove
<1>1. \A q \in Requests :
         /\ task'[q].app # Nil => task'[q].app = task[q].app
         /\ task'[q].sub # Nil => task'[q].sub = task[q].sub
         /\ task'[q].at \in Owning => task[q].at \in Owning
         /\ task'[q].at \in Early => task[q].at \in Early /\ task'[q].app = task[q].app
         /\ task'[q].at \in {"regrant", "save row", "save submission"} =>
               task'[q] = task[q]
  <2> TAKE q \in Requests
  <2>1. CASE q # r
    BY <2>1 DEF CreationMove, Answered, Moved
  <2>2. CASE q = r /\ Answered(r)
    BY <2>2, IdleFacts DEF Answered, Saving
  <2>3. CASE q = r /\ Moved(r, "reopen")
    BY <2>3, ReopenFacts DEF Moved
  <2>4. CASE q = r /\ \E x \in Forward \cup Undoing :
                         Moved(r, x) /\ (x \in Early => task[r].at \in Early)
    BY <2>4 DEF Moved, CreationMove, Owning, Forward, Undoing
  <2> QED
    BY <2>1, <2>2, <2>3, <2>4 DEF CreationMove
<1>2. OwnersOK'
  <2>1. \A n \in Applications : order'[n] # Nil => order'[n].client \in {n} \cup Provisioned
    BY <1>o DEF OwnersOK
  <2>2. \A q \in Requests : task'[q].app # Nil => order'[task'[q].app] # Nil
    BY <1>o, <1>1 DEF OwnersOK
  <2>3. ASSUME NEW p \in Requests, NEW q \in Requests, task'[p].at \in Owning,
               task'[q].at \in Owning, task'[p].app = task'[q].app, task'[p].app # Nil
        PROVE  p = q
    <3>1. task[p].at \in Owning /\ task[q].at \in Owning
      BY <2>3, <1>1
    <3>2. task'[p].app = task[p].app /\ task'[q].app = task[q].app
      BY <2>3, <1>1
    <3> QED
      BY <2>3, <3>1, <3>2 DEF OwnersOK
  <2> QED
    BY <2>1, <2>2, <2>3 DEF OwnersOK
<1>3. UpdatesOK'
  <2> SUFFICES ASSUME NEW p \in Requests, NEW q \in Requests,
                      task'[p].at \in Early, task'[q].at \in {"regrant", "save row"}
               PROVE  task'[p].app # task'[q].app
    BY DEF UpdatesOK
  <2>1. task[p].at \in Early /\ task'[p].app = task[p].app
    BY <1>1
  <2>2. task'[q] = task[q]
    BY <1>1
  <2> QED
    BY <2>1, <2>2 DEF UpdatesOK
<1>4. ReviewsOK'
  <2>1. \A s \in Submissions : HasApplication(s) =>
          \E n \in confirmed' : order'[n].submission = s
    BY <1>o DEF HasApplication
  <2>2. ASSUME NEW p \in Requests, NEW q \in Requests, task'[p].sub # Nil,
               task'[p].sub = task'[q].sub, task'[p].sub \notin strained'
        PROVE  p = q
    BY <2>2, <1>o, <1>1 DEF ReviewsOK
  <2>3. ASSUME NEW p \in Requests, task'[p].at = "save submission",
               task'[p].sub \notin strained'
        PROVE  /\ submissions'[task'[p].sub] # Nil
               /\ submissions'[task'[p].sub].status = "approved"
                     => \E n \in confirmed' : order'[n].submission = task'[p].sub
               /\ task'[p].draft.status = "approved" /\ task'[p].app = Nil
                     => \E n \in confirmed' : order'[n].submission = task'[p].sub
    <3>1. task'[p] = task[p]
      BY <2>3, <1>1
    <3>2. task[p].sub \in Submissions
      BY <3>1, <2>3 DEF TaskOK, Fits
    <3> QED
      BY <3>1, <3>2, <2>1, <2>3, <1>o DEF ReviewsOK
  <2> QED
    BY <2>2, <2>3 DEF ReviewsOK, HasApplication
<1> QED
  BY <1>2, <1>3, <1>4

-----------------------------------------------------------------------------
(* A step of a creation that is right about its own application keeps the  *)
(* invariant.                                                              *)

\* The step concerns no other application, and no account made by hand.
Local(r) ==
    /\ \A m \in Applications \ {task[r].app} :
          /\ m \in accounts' <=> m \in accounts
          /\ m \in assigned' <=> m \in assigned
          /\ applications'[m] = applications[m]
          /\ mishaps'[m] = mishaps[m]
          /\ m \in confirmed' <=> m \in confirmed
    /\ \A c \in Provisioned : c \in accounts' <=> c \in accounts
    /\ confirmed' \subseteq Applications

\* What the step must establish for the application n it is about.
RightFor(r, n) ==
    /\ applications'[n] # Nil =>
          /\ applications'[n].client = order[n].client
          /\ applications'[n].fields \subseteq granted'[order[n].client] \cup order[n].fields
    /\ n \in accounts' => ~ ExternallyProvisioned(n)
    /\ n \in confirmed' =>
          /\ Answered(r)
          /\ applications'[n] # Nil
          /\ order[n].client \in accounts'
          /\ AssignsRole /\ ~ ExternallyProvisioned(n) => n \in assigned'
          /\ order[n].fields \subseteq granted'[order[n].client]
    /\ task'[r].at \notin Forward \cup Undoing =>
          /\ n \in accounts' => n \in confirmed' \/ mishaps'[n] \cap KeepsAccount # {}
          /\ \/ applications'[n] = Nil \/ n \in confirmed'
             \/ mishaps'[n] \cap KeepsRow # {}
          /\ Answered(r) /\ task[r].sub # Nil => n \in confirmed'
    /\ task'[r].at \in {"role", "discard", "delete account"} => ~ ExternallyProvisioned(n)
    /\ task'[r].at \in {"role", "discard", "insert"} => applications'[n] = Nil
    /\ task'[r].at = "role" => n \in accounts'
    /\ task'[r].at \in {"insert", "grant"} =>
          /\ order[n].client \in accounts'
          /\ AssignsRole /\ ~ ExternallyProvisioned(n) => n \in assigned'
    /\ task'[r].at = "grant" => applications'[n] # Nil
    /\ task'[r].at = "delete account" =>
          applications'[n] = Nil \/ mishaps'[n] \cap KeepsRow # {}
    /\ task'[r].at # "account"

LEMMA CreationKeepsSystems ==
    ASSUME IInv, NEW r \in Requests, CreationMove(r), Local(r), RightFor(r, task[r].app)
    PROVE  RowsOK' /\ AccountsOK' /\ CreationOK' /\ ConfirmedIsComplete'
<1> DEFINE n == task[r].app
<1> USE DEF IInv
<1>n. n \in Applications /\ order[n] \in Order
  <2>1. n \in Applications
    BY DEF CreationMove, TaskOK, Fits
  <2>2. order[n] # Nil
    BY <2>1, ConstantsAssumption DEF OwnersOK, ConstantsAssumption
  <2> QED
    BY <2>1, <2>2 DEF TypeOK
<1>o. order' = order /\ \A m : ExternallyProvisioned(m)' <=> ExternallyProvisioned(m)
  BY DEF CreationMove, ExternallyProvisioned
<1>g. \A m \in Applications : order[m] # Nil =>
        granted[order[m].client] \subseteq granted'[order[m].client]
  BY DEF CreationMove, TypeOK, Order
<1>1. RowsOK'
  <2> SUFFICES ASSUME NEW m \in Applications
               PROVE  /\ applications'[m] # Nil =>
                            /\ order[m] # Nil
                            /\ applications'[m].client = order[m].client
                            /\ applications'[m].fields \subseteq
                                  granted'[order[m].client] \cup order[m].fields
                      /\ m \in confirmed' => order[m] # Nil
    BY <1>o DEF RowsOK
  <2>1. CASE m # n
    BY <2>1, <1>g DEF Local, RowsOK
  <2>2. CASE m = n
    BY <2>2, <1>n, ConstantsAssumption DEF RightFor, ConstantsAssumption
  <2> QED
    BY <2>1, <2>2
<1>2. AccountsOK'
  BY <1>n, <1>o, ConstantsAssumption DEF AccountsOK, Local, RightFor, ConstantsAssumption
<1>3. ConfirmedIsComplete'
  <2> SUFFICES ASSUME NEW m \in confirmed'
               PROVE  /\ applications'[m] # Nil
                      /\ applications'[m].client = order[m].client
                      /\ order[m].client \in accounts'
                      /\ AssignsRole /\ ~ ExternallyProvisioned(m) => m \in assigned'
                      /\ order[m].fields \subseteq granted'[order[m].client]
    BY <1>o DEF ConfirmedIsComplete
  <2>1. CASE m = n
    BY <2>1 DEF RightFor
  <2>2. CASE m # n
    <3>1. m \in Applications /\ m \in confirmed
      BY <2>2 DEF Local
    <3>2. order[m] # Nil /\ order[m] \in Order
      BY <3>1 DEF RowsOK, TypeOK
    <3>3. order[m].client \in accounts
      BY <3>1 DEF ConfirmedIsComplete
    <3>4. order[m].client \in accounts'
      <4>1. CASE order[m].client \in Provisioned
        BY <4>1, <3>3 DEF Local
      <4>2. CASE order[m].client = m
        BY <4>2, <3>1, <3>3, <2>2 DEF Local
      <4> QED
        BY <4>1, <4>2, <3>1, <3>2 DEF OwnersOK
    <3> QED
      BY <2>2, <3>1, <3>2, <3>4, <1>g DEF Local, ConfirmedIsComplete
  <2> QED
    BY <2>1, <2>2
<1>4. CreationOK'
  <2> SUFFICES ASSUME NEW q \in Requests, task'[q].at \in Owning, task'[q].app # Nil
               PROVE  LET m == task'[q].app IN
                      /\ m \notin confirmed'
                      /\ task'[q].at \in {"save submission", "account", "role", "discard",
                                          "delete account"} => ~ ExternallyProvisioned(m)
                      /\ task'[q].at \in Early => applications'[m] = Nil
                      /\ task'[q].at \in {"save submission", "account"} => m \notin accounts'
                      /\ task'[q].at = "role" => m \in accounts'
                      /\ task'[q].at \in {"insert", "grant"} =>
                            /\ order[m].client \in accounts'
                            /\ AssignsRole /\ ~ ExternallyProvisioned(m) => m \in assigned'
                      /\ task'[q].at = "grant" => applications'[m] # Nil
                      /\ task'[q].at = "delete account" =>
                            applications'[m] = Nil \/ mishaps'[m] \cap KeepsRow # {}
    BY <1>o DEF CreationOK
  <2>1. CASE q # r
    <3> DEFINE m == task[q].app
    <3>1. task'[q] = task[q]
      BY <2>1 DEF CreationMove, Answered, Moved
    <3>2. m # n /\ m \in Applications
      BY <2>1, <3>1 DEF OwnersOK, CreationMove, Owning, TypeOK, Task
    <3>3. order[m].client \in {m} \cup Provisioned
      BY <3>1, <3>2 DEF OwnersOK
    <3>4. order[m].client \in accounts => order[m].client \in accounts'
      BY <3>2, <3>3 DEF Local
    <3>5. m \in assigned => m \in assigned'
      BY <3>2 DEF Local
    <3>6. /\ m \in accounts' <=> m \in accounts
          /\ m \in confirmed' <=> m \in confirmed
          /\ applications'[m] = applications[m]
          /\ mishaps'[m] = mishaps[m]
      BY <3>2 DEF Local
    <3> QED
      BY <3>1, <3>2, <3>4, <3>5, <3>6 DEF CreationOK
  <2>2. CASE q = r
    <3>1. ~ Answered(r) /\ ~ Moved(r, "reopen")
      BY <2>2, IdleFacts, ReopenFacts DEF Answered, Moved
    <3>2. task'[r].at \in Forward \cup Undoing /\ task'[r].app = n
      BY <3>1 DEF CreationMove, Moved
    <3> QED
      BY <3>1, <3>2, <2>2 DEF RightFor, Forward, Undoing, Early
  <2> QED
    BY <2>1, <2>2
<1> QED
  BY <1>1, <1>2, <1>3, <1>4

LEMMA CreationLeavesNothing ==
    ASSUME IInv, NEW r \in Requests, CreationMove(r), Local(r), RightFor(r, task[r].app)
    PROVE  NoStrayAccount' /\ NoStrayRow' /\ ApprovedHasApplication'
<1> DEFINE n == task[r].app
<1> USE DEF IInv
<1>n. n \in Applications
  BY DEF CreationMove, TaskOK, Fits
<1>c. \A m \in Applications \ {n} : Creating(m) => \E q \in Requests :
         task'[q].app = m /\ task'[q].at \in Forward \cup Undoing
  <2> SUFFICES ASSUME NEW m \in Applications \ {n}, NEW q \in Requests,
                      task[q].app = m, task[q].at \in Forward \cup Undoing
               PROVE  task'[q] = task[q]
    BY DEF Creating
  <2> QED
    BY DEF CreationMove, Answered, Moved
<1>i. task'[r].at \in Forward \cup Undoing => task'[r].app = n
  BY IdleFacts, ReopenFacts DEF CreationMove, Answered, Moved
<1>1. NoStrayAccount'
  <2> SUFFICES ASSUME NEW m \in accounts' \cap Applications
               PROVE  \/ \E q \in Requests : task'[q].app = m /\ task'[q].at \in Forward \cup Undoing
                      \/ m \in confirmed'
                      \/ mishaps'[m] \cap KeepsAccount # {}
    BY DEF NoStrayAccount, Creating
  <2>1. CASE m # n
    BY <2>1, <1>c DEF Local, NoStrayAccount
  <2>2. CASE m = n
    BY <2>2, <1>i DEF RightFor
  <2> QED
    BY <2>1, <2>2
<1>2. NoStrayRow'
  <2> SUFFICES ASSUME NEW m \in Applications
               PROVE  \/ applications'[m] = Nil
                      \/ m \in confirmed'
                      \/ \E q \in Requests : task'[q].app = m /\ task'[q].at \in Forward \cup Undoing
                      \/ mishaps'[m] \cap KeepsRow # {}
    BY DEF NoStrayRow, Creating
  <2>1. CASE m # n
    BY <2>1, <1>c DEF Local, NoStrayRow
  <2>2. CASE m = n
    BY <2>2, <1>i DEF RightFor
  <2> QED
    BY <2>1, <2>2
<1>3. ApprovedHasApplication'
  <2> SUFFICES ASSUME NEW s \in Submissions, s \notin strained, submissions[s] # Nil,
                      submissions[s].status = "approved"
               PROVE  \/ \E q \in Requests : task'[q].sub = s
                      \/ \E m \in confirmed' : order[m].submission = s
    BY DEF ApprovedHasApplication, CreationMove
  <2>1. CASE \E m \in confirmed : order[m].submission = s
    BY <2>1 DEF CreationMove
  <2>2. ASSUME NEW q \in Requests, task[q].sub = s, q # r
        PROVE  task'[q].sub = s
    BY <2>2 DEF CreationMove, Answered, Moved
  <2>3. CASE task[r].sub = s
    <3>1. CASE Answered(r)
      <4>1. n \in confirmed'
        BY <3>1, <2>3, IdleFacts, ConstantsAssumption DEF RightFor, Answered, ConstantsAssumption
      <4>2. order[n].submission = s
        BY <2>3 DEF CreationMove, TaskOK, Fits
      <4> QED
        BY <4>1, <4>2
    <3>2. CASE ~ Answered(r)
      BY <3>2, <2>3 DEF CreationMove, Moved
    <3> QED
      BY <3>1, <3>2
  <2> QED
    BY <2>1, <2>2, <2>3 DEF ApprovedHasApplication
<1> QED
  BY <1>1, <1>2, <1>3

-----------------------------------------------------------------------------
(* Every step of a creation is right about its application.                *)

LEMMA CreationTyped ==
    ASSUME TypeOK, TaskOK, OwnersOK, NEW r \in Requests, Creation(r)
    PROVE  TypeOK'
<1> DEFINE n == task[r].app
<1>m. CreationMove(r)
  BY CreationMoves
<1>n. n \in Applications /\ order[n] \in Order
  <2>1. n \in Applications
    BY <1>m DEF CreationMove, TaskOK, Fits
  <2> QED
    BY <2>1, ConstantsAssumption DEF OwnersOK, TypeOK, ConstantsAssumption
<1>t. task' \in [Requests -> Task] /\ hungUp' \subseteq Requests
  BY <1>m DEF CreationMove, Answered, Moved
<1>f. PICK result \in Endings \cup {"unusable"} : Record(r, result) /\ faults' \in Nat
  <2>1. \A result, possible : Ends(r, possible, result) => faults' \in Nat
    BY DEF Ends, TypeOK
  <2> QED
    BY <2>1 DEF Creation, CreateAccount, AssignRole, DiscardAccount, InsertApplication,
                GrantFields, DeleteApplication, DeleteAccount
<1>p. mishaps' \in [Applications -> SUBSET Mishap]
  BY <1>f, <1>n DEF TypeOK, Record
<1>r. [client |-> order[n].client, fields |-> order[n].fields] \in Row
  BY <1>n DEF Order, Row
<1>a. n \in Accounts
  BY <1>n DEF Accounts
<1>1. accounts' \subseteq Accounts /\ assigned' \subseteq Accounts
  BY <1>a DEF Creation, CreateAccount, AssignRole, DiscardAccount, InsertApplication,
              GrantFields, DeleteApplication, DeleteAccount, TypeOK
<1>2. granted' \in [Accounts -> SUBSET Fields]
  BY <1>n DEF Creation, CreateAccount, AssignRole, DiscardAccount, InsertApplication,
              GrantFields, DeleteApplication, DeleteAccount, TypeOK, Order
<1>3. applications' \in [Applications -> Row \cup {Nil}]
  BY <1>n, <1>r DEF Creation, CreateAccount, AssignRole, DiscardAccount, InsertApplication,
              GrantFields, DeleteApplication, DeleteAccount, TypeOK
<1>4. confirmed' \subseteq Applications
  BY <1>n DEF Creation, CreateAccount, AssignRole, DiscardAccount, InsertApplication,
              GrantFields, DeleteApplication, DeleteAccount, TypeOK
<1> QED
  BY <1>m, <1>t, <1>f, <1>p, <1>1, <1>2, <1>3, <1>4 DEF TypeOK, CreationMove

\* The application that a creation is about.
LEMMA OwnedApplication ==
    ASSUME TypeOK, TaskOK, OwnersOK, NEW r \in Requests, CreationMove(r)
    PROVE  LET n == task[r].app IN
           /\ n \in Applications /\ n \notin Provisioned /\ n # Nil
           /\ order[n] # Nil /\ order[n].client \in {n} \cup Provisioned
           /\ task[r].at \in Owning
<1> DEFINE n == task[r].app
<1>1. n \in Applications
  BY DEF CreationMove, TaskOK, Fits
<1>2. n \notin Provisioned /\ n # Nil
  BY <1>1, ConstantsAssumption DEF ConstantsAssumption
<1>3. order[n] # Nil
  BY <1>2 DEF OwnersOK
<1>4. task[r].at \in Owning
  BY DEF CreationMove, Owning
<1> QED
  BY <1>1, <1>2, <1>3, <1>4 DEF OwnersOK

\* What is recorded, and where.
LEMMA RecordRecords ==
    ASSUME TypeOK, NEW r \in Requests, task[r].app \in Applications, NEW result,
           Record(r, result)
    PROVE  /\ \A m \in Applications \ {task[r].app} : mishaps'[m] = mishaps[m]
           /\ mishaps[task[r].app] \subseteq mishaps'[task[r].app]
           /\ <<task[r].at, result>> \in Mishap =>
                 <<task[r].at, result>> \in mishaps'[task[r].app]
BY DEF TypeOK, Record

LEMMA CreateAccountRight ==
    ASSUME IInv, NEW r \in Requests, CreateAccount(r)
    PROVE  Local(r) /\ RightFor(r, task[r].app)
<1> DEFINE n == task[r].app
<1> USE DEF IInv
<1>m. CreationMove(r)
  BY CreationMoves DEF Creation
<1>n. /\ n \in Applications /\ n \notin Provisioned /\ n # Nil
      /\ order[n] # Nil /\ order[n].client \in {n} \cup Provisioned
      /\ task[r].at \in Owning
  BY <1>m, OwnedApplication
<1>1. PICK result \in Endings \cup {"unusable"} :
        /\ Record(r, result)
        /\ accounts' = IF TookEffect(result) THEN accounts \cup {n} ELSE accounts
        /\ CASE result = "done"     -> GoTo(r, IF AssignsRole THEN "role" ELSE "insert")
             [] result = "unusable" -> GoTo(r, "discard")
             [] OTHER               -> FailCreation(r)
  BY DEF CreateAccount
<1>2. /\ task[r].at = "account" /\ UNCHANGED <<assigned, granted, applications, confirmed>>
  BY DEF CreateAccount
<1>3. /\ n \notin accounts /\ n \notin confirmed /\ applications[n] = Nil
      /\ order[n].client = n
  BY <1>2, <1>n DEF CreationOK, Early, Owning, ExternallyProvisioned
<1>4. Local(r)
  BY <1>1, <1>2, <1>n, RecordRecords DEF Local, TypeOK
<1>5. ASSUME result = "done" PROVE RightFor(r, n)
  <2>1. n \in accounts'
    BY <1>1, <1>5 DEF TookEffect
  <2>2. \/ AssignsRole /\ Moved(r, "role")
        \/ ~ AssignsRole /\ Moved(r, "insert")
    <3>1. GoTo(r, IF AssignsRole THEN "role" ELSE "insert")
      BY <1>1, <1>5
    <3>2. "role" \in Steps /\ "insert" \in Steps
      BY DEF Steps, Forward
    <3> QED
      BY <3>1, <3>2, GoToMoves
  <2> QED
    BY <2>1, <2>2, <1>2, <1>3, <1>n DEF RightFor, Moved, ExternallyProvisioned, Forward
<1>6. ASSUME result = "unusable" PROVE RightFor(r, n)
  <2>1. Moved(r, "discard")
    BY <1>1, <1>6, GoToMoves DEF Steps, Undoing
  <2> QED
    BY <2>1, <1>2, <1>3, <1>n DEF RightFor, Moved, ExternallyProvisioned, Undoing
<1>7. ASSUME result \in {"refused", "lost"} PROVE RightFor(r, n)
  <2>1. \/ Answered(r) /\ task[r].sub = Nil
        \/ Moved(r, "reopen") /\ task[r].sub # Nil
    BY <1>1, <1>7, FailCreationFails
  <2>2. task'[r].at \in {"idle", "reopen"}
    BY <2>1, IdleFacts DEF Answered, Moved
  <2>3. Answered(r) => task[r].sub = Nil
    BY <2>1, IdleFacts DEF Answered, Moved
  <2>4. n \in accounts' => <<"account", "lost">> \in mishaps'[n]
    BY <1>1, <1>2, <1>3, <1>7, <1>n, RecordRecords DEF TookEffect, Mishap, KeepsAccount
  <2> QED
    BY <2>2, <2>3, <2>4, <1>2, <1>3, <1>n DEF RightFor, KeepsAccount, ExternallyProvisioned
<1> QED
  BY <1>1, <1>4, <1>5, <1>6, <1>7 DEF Endings

LEMMA AssignRoleRight ==
    ASSUME IInv, NEW r \in Requests, AssignRole(r)
    PROVE  Local(r) /\ RightFor(r, task[r].app)
<1> DEFINE n == task[r].app
<1> USE DEF IInv
<1>m. CreationMove(r)
  BY CreationMoves DEF Creation
<1>n. /\ n \in Applications /\ n \notin Provisioned /\ n # Nil
      /\ order[n] # Nil /\ order[n].client \in {n} \cup Provisioned
      /\ task[r].at \in Owning
  BY <1>m, OwnedApplication
<1>1. PICK result \in Endings :
        /\ Record(r, result)
        /\ assigned' = IF TookEffect(result) THEN assigned \cup {n} ELSE assigned
        /\ GoTo(r, IF result = "done" THEN "insert" ELSE "discard")
  BY DEF AssignRole
<1>2. /\ task[r].at = "role" /\ UNCHANGED <<accounts, granted, applications, confirmed>>
  BY DEF AssignRole
<1>3. /\ n \in accounts /\ n \notin confirmed /\ applications[n] = Nil
      /\ order[n].client = n
  BY <1>2, <1>n DEF CreationOK, Early, Owning, ExternallyProvisioned
<1>4. Local(r)
  BY <1>1, <1>2, <1>n, RecordRecords DEF Local, TypeOK
<1>5. \/ result = "done" /\ Moved(r, "insert")
      \/ Moved(r, "discard")
  BY <1>1, GoToMoves DEF Steps, Forward, Undoing
<1>6. CASE result = "done" /\ Moved(r, "insert")
  <2>1. n \in assigned'
    BY <1>1, <1>6 DEF TookEffect
  <2> QED
    BY <2>1, <1>2, <1>3, <1>4, <1>6 DEF RightFor, Moved, ExternallyProvisioned, Forward
<1>7. CASE Moved(r, "discard")
  BY <1>2, <1>3, <1>4, <1>7 DEF RightFor, Moved, ExternallyProvisioned, Undoing
<1> QED
  BY <1>4, <1>5, <1>6, <1>7

LEMMA DiscardAccountRight ==
    ASSUME IInv, NEW r \in Requests, DiscardAccount(r)
    PROVE  Local(r) /\ RightFor(r, task[r].app)
<1> DEFINE n == task[r].app
<1> USE DEF IInv
<1>m. CreationMove(r)
  BY CreationMoves DEF Creation
<1>n. /\ n \in Applications /\ n \notin Provisioned /\ n # Nil
      /\ order[n] # Nil /\ order[n].client \in {n} \cup Provisioned
      /\ task[r].at \in Owning
  BY <1>m, OwnedApplication
<1>1. PICK result \in Endings :
        /\ Record(r, result)
        /\ accounts' = IF TookEffect(result) THEN accounts \ {n} ELSE accounts
        /\ assigned' = IF TookEffect(result) THEN assigned \ {n} ELSE assigned
        /\ FailCreation(r)
  BY DEF DiscardAccount
<1>2. /\ task[r].at = "discard" /\ UNCHANGED <<granted, applications, confirmed>>
  BY DEF DiscardAccount
<1>3. n \notin confirmed /\ applications[n] = Nil /\ order[n].client = n
  BY <1>2, <1>n DEF CreationOK, Early, Owning, ExternallyProvisioned
<1>4. Local(r)
  BY <1>1, <1>2, <1>n, RecordRecords DEF Local, TypeOK
<1>5. n \in accounts' => <<"discard", "refused">> \in mishaps'[n]
  BY <1>1, <1>2, <1>n, RecordRecords DEF TookEffect, Mishap, KeepsAccount
<1>6. RightFor(r, n)
  <2>1. \/ Answered(r) /\ task[r].sub = Nil
        \/ Moved(r, "reopen") /\ task[r].sub # Nil
    BY <1>1, FailCreationFails
  <2>2. task'[r].at \in {"idle", "reopen"}
    BY <2>1, IdleFacts DEF Answered, Moved
  <2>3. Answered(r) => task[r].sub = Nil
    BY <2>1, IdleFacts DEF Answered, Moved
  <2> QED
    BY <2>2, <2>3, <1>2, <1>3, <1>5, <1>n DEF RightFor, KeepsAccount, ExternallyProvisioned
<1> QED
  BY <1>4, <1>6

LEMMA InsertApplicationRight ==
    ASSUME IInv, NEW r \in Requests, InsertApplication(r)
    PROVE  Local(r) /\ RightFor(r, task[r].app)
<1> DEFINE n == task[r].app
<1> USE DEF IInv
<1>m. CreationMove(r)
  BY CreationMoves DEF Creation
<1>n. /\ n \in Applications /\ n \notin Provisioned /\ n # Nil
      /\ order[n] # Nil /\ order[n].client \in {n} \cup Provisioned
      /\ task[r].at \in Owning
  BY <1>m, OwnedApplication
<1> DEFINE row == [client |-> order[n].client, fields |-> order[n].fields]
<1>1. PICK result \in Endings :
        /\ Record(r, result)
        /\ applications' = IF ~ TookEffect(result) THEN applications
              ELSE [applications EXCEPT ![n] = row]
        /\ IF result = "done" THEN GoTo(r, "grant") ELSE UndoAccount(r)
  BY DEF InsertApplication
<1>2. /\ task[r].at = "insert" /\ UNCHANGED <<accounts, assigned, granted, confirmed>>
  BY DEF InsertApplication
<1>3. /\ n \notin confirmed /\ applications[n] = Nil
      /\ order[n].client \in accounts
      /\ AssignsRole /\ ~ ExternallyProvisioned(n) => n \in assigned
      /\ n \in accounts => ~ ExternallyProvisioned(n)
  BY <1>2, <1>n DEF CreationOK, AccountsOK, Early, Owning
<1>r. row # Nil
  <2>1. order[n] \in Order
    BY <1>n DEF TypeOK
  <2> QED
    BY <2>1, ConstantsAssumption DEF ConstantsAssumption, Row, Order
<1>4. Local(r)
  BY <1>1, <1>2, <1>n, RecordRecords DEF Local, TypeOK
<1>5. applications'[n] = IF TookEffect(result) THEN row ELSE Nil
  BY <1>1, <1>3, <1>n DEF TypeOK
<1>6. CASE result = "done"
  <2>1. Moved(r, "grant")
    BY <1>1, <1>6, GoToMoves DEF Steps, Forward
  <2> QED
    BY <2>1, <1>2, <1>3, <1>4, <1>5, <1>6, <1>r DEF RightFor, Moved, Forward, TookEffect
<1>7. CASE result # "done"
  <2>1. applications'[n] # Nil => mishaps'[n] \cap KeepsRow # {}
    <3>1. applications'[n] # Nil => <<"insert", "lost">> \in mishaps'[n]
      BY <1>1, <1>2, <1>5, <1>7, <1>n, RecordRecords DEF Endings, TookEffect, Mishap, KeepsRow
    <3> QED
      BY <3>1 DEF KeepsRow
  <2>a. applications'[n] # Nil =>
          applications'[n].client = order[n].client /\ applications'[n].fields = order[n].fields
    BY <1>5
  <2>2. CASE ExternallyProvisioned(n)
    <3>1. \/ Answered(r) /\ task[r].sub = Nil
          \/ Moved(r, "reopen") /\ task[r].sub # Nil
      BY <1>1, <1>7, <2>2, UndoAccountUndoes
    <3>2. task'[r].at \in {"idle", "reopen"}
      BY <3>1, IdleFacts DEF Answered, Moved
    <3>3. Answered(r) => task[r].sub = Nil
      BY <3>1, IdleFacts DEF Answered, Moved
    <3>4. RightFor(r, n)
      BY <2>1, <2>a, <2>2, <3>2, <3>3, <1>2, <1>3 DEF RightFor
    <3> QED
      BY <3>4, <1>4
  <2>3. CASE ~ ExternallyProvisioned(n)
    <3>1. Moved(r, "delete account")
      BY <1>1, <1>7, <2>3, UndoAccountUndoes
    <3>2. RightFor(r, n)
      BY <2>1, <2>a, <2>3, <3>1, <1>2, <1>3 DEF RightFor, Moved, Undoing
    <3> QED
      BY <3>2, <1>4
  <2> QED
    BY <2>2, <2>3
<1> QED
  BY <1>6, <1>7

LEMMA GrantFieldsRight ==
    ASSUME IInv, NEW r \in Requests, GrantFields(r)
    PROVE  Local(r) /\ RightFor(r, task[r].app)
<1> DEFINE n == task[r].app
<1> USE DEF IInv
<1>m. CreationMove(r)
  BY CreationMoves DEF Creation
<1>n. /\ n \in Applications /\ n \notin Provisioned /\ n # Nil
      /\ order[n] # Nil /\ order[n].client \in {n} \cup Provisioned
      /\ task[r].at \in Owning
  BY <1>m, OwnedApplication
<1> DEFINE c == order[n].client
<1>1. PICK result \in Endings :
        /\ Record(r, result)
        /\ granted' = IF ~ TookEffect(result) THEN granted
              ELSE [granted EXCEPT ![c] = @ \cup order[n].fields]
        /\ confirmed' = IF result = "done" THEN confirmed \cup {n} ELSE confirmed
        /\ IF result = "done" THEN Answer(r) ELSE GoTo(r, "delete row")
  BY DEF GrantFields
<1>2. /\ task[r].at = "grant" /\ UNCHANGED <<accounts, assigned, applications>>
  BY DEF GrantFields
<1>3. /\ n \notin confirmed /\ applications[n] # Nil
      /\ c \in accounts
      /\ AssignsRole /\ ~ ExternallyProvisioned(n) => n \in assigned
      /\ n \in accounts => ~ ExternallyProvisioned(n)
  BY <1>2, <1>n DEF CreationOK, AccountsOK
<1>4. Local(r)
  BY <1>1, <1>2, <1>n, RecordRecords DEF Local, TypeOK
<1>5. c \in Accounts
  BY <1>n DEF TypeOK, Order
<1>6. /\ applications'[n].client = c
      /\ applications'[n].fields \subseteq granted'[c] \cup order[n].fields
  <2>1. granted[c] \subseteq granted'[c]
    BY <1>m, <1>5 DEF CreationMove
  <2> QED
    BY <2>1, <1>2, <1>3, <1>n DEF RowsOK
<1>7. CASE result = "done"
  <2>1. Answered(r)
    BY <1>1, <1>7, AnswerAnswers
  <2>2. order[n].fields \subseteq granted'[c]
    BY <1>1, <1>5, <1>7 DEF TookEffect, TypeOK
  <2>3. n \in confirmed'
    BY <1>1, <1>7
  <2>4. task'[r].at = "idle"
    BY <2>1, IdleFacts DEF Answered
  <2> QED
    BY <2>1, <2>2, <2>3, <2>4, <1>2, <1>3, <1>4, <1>6 DEF RightFor
<1>8. CASE result # "done"
  <2>1. Moved(r, "delete row")
    BY <1>1, <1>8, GoToMoves DEF Steps, Undoing
  <2> QED
    BY <2>1, <1>1, <1>2, <1>3, <1>4, <1>6, <1>8 DEF RightFor, Moved, Undoing
<1> QED
  BY <1>7, <1>8

LEMMA DeleteApplicationRight ==
    ASSUME IInv, NEW r \in Requests, DeleteApplication(r)
    PROVE  Local(r) /\ RightFor(r, task[r].app)
<1> DEFINE n == task[r].app
<1> USE DEF IInv
<1>m. CreationMove(r)
  BY CreationMoves DEF Creation
<1>n. /\ n \in Applications /\ n \notin Provisioned /\ n # Nil
      /\ order[n] # Nil /\ order[n].client \in {n} \cup Provisioned
      /\ task[r].at \in Owning
  BY <1>m, OwnedApplication
<1>1. PICK result \in Endings :
        /\ Record(r, result)
        /\ applications' = IF ~ TookEffect(result) THEN applications
                           ELSE [applications EXCEPT ![n] = Nil]
  BY DEF DeleteApplication
<1>2. /\ task[r].at = "delete row" /\ UndoAccount(r)
      /\ UNCHANGED <<accounts, assigned, granted, confirmed>>
  BY DEF DeleteApplication
<1>3. /\ n \notin confirmed
      /\ n \in accounts => ~ ExternallyProvisioned(n)
  BY <1>2, <1>n DEF CreationOK, AccountsOK
<1>4. Local(r)
  BY <1>1, <1>2, <1>n, RecordRecords DEF Local, TypeOK
<1>5. applications'[n] # Nil =>
        /\ applications'[n].client = order[n].client
        /\ applications'[n].fields \subseteq granted[order[n].client] \cup order[n].fields
        /\ mishaps'[n] \cap KeepsRow # {}
  <2>1. applications'[n] # Nil => applications'[n] = applications[n] /\ result = "refused"
    BY <1>1, <1>n DEF TypeOK, TookEffect
  <2>2. result = "refused" => <<"delete row", "refused">> \in mishaps'[n]
    BY <1>1, <1>2, <1>n, RecordRecords DEF Mishap, KeepsRow
  <2>3. result = "refused" => mishaps'[n] \cap KeepsRow # {}
    BY <2>2 DEF KeepsRow
  <2> QED
    BY <2>1, <2>3, <1>n DEF RowsOK
<1>6. CASE ExternallyProvisioned(n)
  <2>1. \/ Answered(r) /\ task[r].sub = Nil
        \/ Moved(r, "reopen") /\ task[r].sub # Nil
    BY <1>2, <1>6, UndoAccountUndoes
  <2>2. task'[r].at \in {"idle", "reopen"}
    BY <2>1, IdleFacts DEF Answered, Moved
  <2>3. Answered(r) => task[r].sub = Nil
    BY <2>1, IdleFacts DEF Answered, Moved
  <2> QED
    BY <2>2, <2>3, <1>2, <1>3, <1>4, <1>5, <1>6 DEF RightFor
<1>7. CASE ~ ExternallyProvisioned(n)
  <2>1. Moved(r, "delete account")
    BY <1>2, <1>7, UndoAccountUndoes
  <2> QED
    BY <2>1, <1>2, <1>3, <1>4, <1>5, <1>7 DEF RightFor, Moved, Undoing
<1> QED
  BY <1>6, <1>7

LEMMA DeleteAccountRight ==
    ASSUME IInv, NEW r \in Requests, DeleteAccount(r)
    PROVE  Local(r) /\ RightFor(r, task[r].app)
<1> DEFINE n == task[r].app
<1> USE DEF IInv
<1>m. CreationMove(r)
  BY CreationMoves DEF Creation
<1>n. /\ n \in Applications /\ n \notin Provisioned /\ n # Nil
      /\ order[n] # Nil /\ order[n].client \in {n} \cup Provisioned
      /\ task[r].at \in Owning
  BY <1>m, OwnedApplication
<1>1. PICK result \in Endings :
        /\ Record(r, result)
        /\ accounts' = IF TookEffect(result) THEN accounts \ {order[n].client} ELSE accounts
        /\ assigned' = IF TookEffect(result) THEN assigned \ {order[n].client} ELSE assigned
        /\ FailCreation(r)
  BY DEF DeleteAccount
<1>2. /\ task[r].at = "delete account" /\ UNCHANGED <<granted, applications, confirmed>>
  BY DEF DeleteAccount
<1>3. /\ n \notin confirmed /\ order[n].client = n
      /\ applications[n] = Nil \/ mishaps[n] \cap KeepsRow # {}
  BY <1>2, <1>n DEF CreationOK, ExternallyProvisioned
<1>4. Local(r)
  BY <1>1, <1>2, <1>3, <1>n, RecordRecords DEF Local, TypeOK
<1>5. n \in accounts' => mishaps'[n] \cap KeepsAccount # {}
  <2>1. n \in accounts' => result = "refused"
    BY <1>1, <1>3 DEF TookEffect
  <2>2. result = "refused" => <<"delete account", "refused">> \in mishaps'[n]
    BY <1>1, <1>2, <1>n, RecordRecords DEF Mishap, KeepsAccount
  <2> QED
    BY <2>1, <2>2 DEF KeepsAccount
<1>6. applications'[n] = Nil \/ mishaps'[n] \cap KeepsRow # {}
  BY <1>1, <1>2, <1>3, <1>n, RecordRecords
<1>7. applications'[n] # Nil =>
        /\ applications'[n].client = order[n].client
        /\ applications'[n].fields \subseteq granted'[order[n].client] \cup order[n].fields
  BY <1>2, <1>n DEF RowsOK
<1>8. RightFor(r, n)
  <2>1. \/ Answered(r) /\ task[r].sub = Nil
        \/ Moved(r, "reopen") /\ task[r].sub # Nil
    BY <1>1, FailCreationFails
  <2>2. task'[r].at \in {"idle", "reopen"}
    BY <2>1, IdleFacts DEF Answered, Moved
  <2>3. Answered(r) => task[r].sub = Nil
    BY <2>1, IdleFacts DEF Answered, Moved
  <2> QED
    BY <2>2, <2>3, <1>2, <1>3, <1>5, <1>6, <1>7 DEF RightFor, ExternallyProvisioned
<1> QED
  BY <1>4, <1>8

LEMMA CreationStep ==
    ASSUME IInv, NEW r \in Requests, Creation(r)
    PROVE  IInv'
<1> USE DEF IInv
<1>1. CreationMove(r)
  BY CreationMoves
<1>2. Local(r) /\ RightFor(r, task[r].app)
  BY CreateAccountRight, AssignRoleRight, DiscardAccountRight, InsertApplicationRight,
     GrantFieldsRight, DeleteApplicationRight, DeleteAccountRight DEF Creation
<1>3. TypeOK'
  BY CreationTyped
<1>4. TaskOK' /\ OwnersOK' /\ UpdatesOK' /\ ReviewsOK'
  BY <1>1, CreationKeepsMemory, CreationKeepsOwners
<1>5. RowsOK' /\ AccountsOK' /\ CreationOK' /\ ConfirmedIsComplete'
  BY <1>1, <1>2, CreationKeepsSystems
<1>6. NoStrayAccount' /\ NoStrayRow' /\ ApprovedHasApplication'
  BY <1>1, <1>2, CreationLeavesNothing
<1> QED
  BY <1>3, <1>4, <1>5, <1>6

-----------------------------------------------------------------------------
(* The other steps.                                                        *)

LEMMA InitStep == Init => IInv
<1> SUFFICES ASSUME Init PROVE IInv
  OBVIOUS
<1> USE DEF Init
<1>1. TypeOK
  BY DEF TypeOK, IdleTask, Task, Accounts
<1>2. TaskOK
  BY IdleFacts DEF TaskOK, Fits, Saving, IdleTask, Forward, Undoing
<1>3. OwnersOK
  BY IdleFacts DEF OwnersOK
<1>4. RowsOK /\ ConfirmedIsComplete /\ NoStrayRow
  BY DEF RowsOK, ConfirmedIsComplete, NoStrayRow
<1>5. AccountsOK /\ NoStrayAccount
  BY ConstantsAssumption DEF AccountsOK, NoStrayAccount, ConstantsAssumption
<1>6. CreationOK /\ UpdatesOK
  BY IdleFacts DEF CreationOK, UpdatesOK
<1>7. ReviewsOK
  BY IdleFacts DEF ReviewsOK, IdleTask
<1>8. ApprovedHasApplication
  BY DEF ApprovedHasApplication
<1> QED
  BY <1>1, <1>2, <1>3, <1>4, <1>5, <1>6, <1>7, <1>8 DEF IInv

LEMMA HangUpStep ==
    ASSUME IInv, NEW r \in Requests, HangUp(r)
    PROVE  IInv'
<1> USE DEF IInv
<1>1. /\ UNCHANGED <<accounts, assigned, granted, applications, submissions, task,
                     order, confirmed, mishaps, strained>>
  BY DEF HangUp
<1>a. hungUp' \subseteq Requests /\ faults' \in Nat
  <2>1. hungUp' = hungUp \cup {r} /\ faults' = faults + 1
    BY DEF HangUp
  <2> QED
    BY <2>1 DEF TypeOK
<1>2. TypeOK'
  BY <1>1, <1>a DEF TypeOK
<1>3. TaskOK' /\ OwnersOK' /\ UpdatesOK'
  BY <1>1 DEF TaskOK, OwnersOK, UpdatesOK
<1>4. RowsOK' /\ AccountsOK' /\ ConfirmedIsComplete'
  BY <1>1 DEF RowsOK, AccountsOK, ConfirmedIsComplete, ExternallyProvisioned
<1>5. CreationOK'
  BY <1>1 DEF CreationOK, ExternallyProvisioned
<1>6. ReviewsOK' /\ ApprovedHasApplication'
  BY <1>1 DEF ReviewsOK, HasApplication, ApprovedHasApplication
<1>7. NoStrayAccount' /\ NoStrayRow'
  BY <1>1 DEF NoStrayAccount, NoStrayRow, Creating
<1> QED
  BY <1>2, <1>3, <1>4, <1>5, <1>6, <1>7

LEMMA CrashStep ==
    ASSUME IInv, Crash
    PROVE  IInv'
<1> USE DEF IInv
<1>1. /\ UNCHANGED <<accounts, assigned, granted, applications, submissions, order,
                     confirmed>>
      /\ task' = [r \in Requests |-> IdleTask]
      /\ hungUp' = {}
      /\ strained \subseteq strained'
      /\ \A s \in Submissions : (\E r \in Requests : task[r].sub = s) => s \in strained'
      /\ \A n \in Applications : mishaps[n] \subseteq mishaps'[n]
      /\ \A n \in Applications : Creating(n) => <<"process", "crash">> \in mishaps'[n]
      /\ faults' \in Nat
  BY DEF Crash, TypeOK
<1>2. TypeOK'
  <2>1. IdleTask \in Task
    BY DEF IdleTask, Task
  <2>2. mishaps' \in [Applications -> SUBSET Mishap]
    BY DEF Crash, TypeOK, Mishap, KeepsAccount
  <2>3. strained' \subseteq Submissions
    BY DEF Crash, TypeOK
  <2> QED
    BY <1>1, <2>1, <2>2, <2>3 DEF TypeOK
<1>3. TaskOK'
  BY <1>1, IdleFacts DEF TaskOK, Fits, Saving, IdleTask, Forward, Undoing
<1>4. OwnersOK' /\ UpdatesOK'
  BY <1>1, IdleFacts DEF OwnersOK, UpdatesOK
<1>5. RowsOK' /\ AccountsOK' /\ ConfirmedIsComplete'
  BY <1>1 DEF RowsOK, AccountsOK, ConfirmedIsComplete, ExternallyProvisioned
<1>6. CreationOK'
  BY <1>1, IdleFacts DEF CreationOK
<1>7. ReviewsOK'
  BY <1>1, IdleFacts DEF ReviewsOK, IdleTask
<1>8. NoStrayAccount' /\ NoStrayRow'
  BY <1>1 DEF NoStrayAccount, NoStrayRow, KeepsAccount, KeepsRow
<1>9. ApprovedHasApplication'
  BY <1>1 DEF ApprovedHasApplication
<1> QED
  BY <1>2, <1>3, <1>4, <1>5, <1>6, <1>7, <1>8, <1>9

-----------------------------------------------------------------------------
(* Steps that change what one request is doing, outside a creation.        *)

\* Only request r turns to something else, and it fits; grants and orders grow.
Turns(r) ==
    /\ \A q \in Requests \ {r} : task'[q] = task[q]
    /\ Fits(task'[r], order', granted')
    /\ \A c \in Accounts : granted[c] \subseteq granted'[c]
    /\ \A n \in Applications : order[n] # Nil => order'[n] = order[n]
    /\ \A n \in Applications : order'[n] # Nil => order'[n].client \in {n} \cup Provisioned
    /\ task'[r].app # Nil => order'[task'[r].app] # Nil

\* No other request owns or updates the application that r turns to.
Apart(r) ==
    /\ task'[r].at \in Owning /\ task'[r].app # Nil =>
          \A q \in Requests \ {r} : task[q].at \in Owning => task[q].app # task'[r].app
    /\ task'[r].at \in Early =>
          \A q \in Requests \ {r} :
             task[q].at \in {"regrant", "save row"} => task[q].app # task'[r].app
    /\ task'[r].at \in {"regrant", "save row"} =>
          \A q \in Requests \ {r} : task[q].at \in Early => task[q].app # task'[r].app

LEMMA TurnKeepsMemory ==
    ASSUME TypeOK, TaskOK, OwnersOK, UpdatesOK, NEW r \in Requests, Turns(r), Apart(r)
    PROVE  TaskOK' /\ OwnersOK' /\ UpdatesOK'
<1>1. TaskOK'
  <2> SUFFICES ASSUME NEW q \in Requests, q # r
               PROVE  Fits(task[q], order', granted')
    BY DEF TaskOK, Turns
  <2>1. Fits(task[q], order, granted)
    BY DEF TaskOK
  <2>2. task[q].app # Nil => order'[task[q].app] = order[task[q].app]
    BY DEF OwnersOK, Turns, TypeOK, Task
  <2>3. task[q].at \in {"regrant", "save row"} \cup Forward \cup Undoing => task[q].app # Nil
    BY <2>1, ConstantsAssumption DEF Fits, ConstantsAssumption
  <2>4. task[q].at = "save row" => order[task[q].app].client \in Accounts
    BY <2>1, <2>3 DEF Fits, OwnersOK, TypeOK, Order
  <2>5. task[q].at = "save row" => task[q].draft.fields \subseteq
          granted'[order[task[q].app].client] \cup order[task[q].app].fields
    BY <2>1, <2>4 DEF Fits, Turns
  <2> QED
    BY <2>1, <2>2, <2>3, <2>5 DEF Fits
<1>2. OwnersOK'
  <2>1. \A q \in Requests : task'[q].app # Nil => order'[task'[q].app] # Nil
    <3> SUFFICES ASSUME NEW q \in Requests, q # r, task[q].app # Nil
                 PROVE  order'[task[q].app] # Nil
      BY DEF Turns
    <3>1. order[task[q].app] # Nil /\ task[q].app \in Applications
      BY DEF OwnersOK, TypeOK, Task
    <3> QED
      BY <3>1 DEF Turns
  <2>2. ASSUME NEW p \in Requests, NEW q \in Requests, task'[p].at \in Owning,
               task'[q].at \in Owning, task'[p].app = task'[q].app, task'[p].app # Nil
        PROVE  p = q
    <3>1. CASE p # r /\ q # r
      <4>1. task'[p] = task[p] /\ task'[q] = task[q]
        BY <3>1 DEF Turns
      <4> QED
        BY <4>1, <2>2 DEF OwnersOK
    <3>2. CASE p = r /\ q # r
      BY <2>2, <3>2 DEF Turns, Apart
    <3>3. CASE p # r /\ q = r
      BY <2>2, <3>3 DEF Turns, Apart
    <3> QED
      BY <3>1, <3>2, <3>3
  <2> QED
    BY <2>1, <2>2 DEF OwnersOK, Turns
<1>3. UpdatesOK'
  <2> SUFFICES ASSUME NEW p \in Requests, NEW q \in Requests,
                      task'[p].at \in Early, task'[q].at \in {"regrant", "save row"}
               PROVE  task'[p].app # task'[q].app
    BY DEF UpdatesOK
  <2>1. CASE p # r /\ q # r
    <3>1. task'[p] = task[p] /\ task'[q] = task[q]
      BY <2>1 DEF Turns
    <3> QED
      BY <3>1 DEF UpdatesOK
  <2>2. CASE p = r /\ q # r
    BY <2>2 DEF Turns, Apart
  <2>3. CASE p # r /\ q = r
    BY <2>3 DEF Turns, Apart
  <2>4. CASE p = r /\ q = r
    BY <2>4 DEF Early
  <2> QED
    BY <2>1, <2>2, <2>3, <2>4
<1> QED
  BY <1>1, <1>2, <1>3

\* The three systems are as they were, but for grants, and request r was not
\* creating.
Quiet(r) ==
    /\ UNCHANGED <<accounts, assigned, applications, confirmed>>
    /\ \A n \in Applications : mishaps[n] \subseteq mishaps'[n]
    /\ task[r].at \notin Forward \cup Undoing
    /\ Turns(r)

\* If request r now owns an application, nothing is known of it anywhere yet.
StartsRight(r) ==
    LET n == task'[r].app IN
    task'[r].at \in Owning /\ n # Nil =>
       /\ n \in Applications
       /\ n \notin confirmed /\ n \notin accounts /\ applications[n] = Nil
       /\ \/ task'[r].at \in {"save submission", "account"} /\ order'[n].client = n
          \/ task'[r].at = "insert" /\ order'[n].client \in Provisioned

LEMMA QuietKeepsSystems ==
    ASSUME TypeOK, OwnersOK, RowsOK, AccountsOK, CreationOK, ConfirmedIsComplete,
           NoStrayAccount, NoStrayRow, NEW r \in Requests, Quiet(r), StartsRight(r)
    PROVE  /\ RowsOK' /\ AccountsOK' /\ CreationOK' /\ ConfirmedIsComplete'
           /\ NoStrayAccount' /\ NoStrayRow'
<1>1. /\ UNCHANGED <<accounts, assigned, applications, confirmed>>
      /\ \A n \in Applications : mishaps[n] \subseteq mishaps'[n]
      /\ task[r].at \notin Forward \cup Undoing
      /\ \A q \in Requests \ {r} : task'[q] = task[q]
      /\ \A n \in Applications : order[n] # Nil => order'[n] = order[n]
      /\ \A c \in Accounts : granted[c] \subseteq granted'[c]
  BY DEF Quiet, Turns
<1>2. \A n \in Applications : order[n] # Nil => order[n].client \in Accounts
  BY DEF TypeOK, Order
<1>3. RowsOK'
  <2> SUFFICES ASSUME NEW n \in Applications
               PROVE  /\ applications'[n] # Nil =>
                           /\ order'[n] # Nil
                           /\ applications'[n].client = order'[n].client
                           /\ applications'[n].fields \subseteq
                                 granted'[order'[n].client] \cup order'[n].fields
                      /\ n \in confirmed' => order'[n] # Nil
    BY DEF RowsOK
  <2>1. CASE order[n] = Nil
    BY <2>1, <1>1 DEF RowsOK
  <2>2. CASE order[n] # Nil
    <3>1. order'[n] = order[n] /\ granted[order[n].client] \subseteq granted'[order[n].client]
      BY <2>2, <1>1, <1>2
    <3> QED
      BY <3>1, <2>2, <1>1 DEF RowsOK
  <2> QED
    BY <2>1, <2>2
<1>4. AccountsOK'
  BY <1>1 DEF AccountsOK, ExternallyProvisioned
<1>5. ConfirmedIsComplete'
  <2> SUFFICES ASSUME NEW n \in confirmed
               PROVE  /\ applications[n] # Nil
                      /\ applications[n].client = order'[n].client
                      /\ order'[n].client \in accounts
                      /\ AssignsRole /\ order'[n].client = n => n \in assigned
                      /\ order'[n].fields \subseteq granted'[order'[n].client]
    BY <1>1 DEF ConfirmedIsComplete, ExternallyProvisioned
  <2>1. n \in Applications /\ order[n] # Nil
    BY DEF TypeOK, RowsOK
  <2>2. order'[n] = order[n] /\ granted[order[n].client] \subseteq granted'[order[n].client]
    BY <2>1, <1>1, <1>2
  <2> QED
    BY <2>2 DEF ConfirmedIsComplete, ExternallyProvisioned
<1>6. CreationOK'
  <2> SUFFICES ASSUME NEW q \in Requests, task'[q].at \in Owning, task'[q].app # Nil
               PROVE  LET n == task'[q].app IN
                      /\ n \notin confirmed
                      /\ task'[q].at \in {"save submission", "account", "role", "discard",
                                          "delete account"} => order'[n].client = n
                      /\ task'[q].at \in Early => applications[n] = Nil
                      /\ task'[q].at \in {"save submission", "account"} => n \notin accounts
                      /\ task'[q].at = "role" => n \in accounts
                      /\ task'[q].at \in {"insert", "grant"} =>
                            /\ order'[n].client \in accounts
                            /\ AssignsRole /\ order'[n].client = n => n \in assigned
                      /\ task'[q].at = "grant" => applications[n] # Nil
                      /\ task'[q].at = "delete account" =>
                            applications[n] = Nil \/ mishaps'[n] \cap KeepsRow # {}
    BY <1>1 DEF CreationOK, ExternallyProvisioned
  <2> DEFINE n == task'[q].app
  <2>1. CASE q # r
    <3>1. task'[q] = task[q]
      BY <2>1, <1>1
    <3>2. n \in Applications /\ order'[n] = order[n]
      BY <3>1, <1>1 DEF OwnersOK, TypeOK, Task
    <3>3. mishaps[n] \subseteq mishaps'[n]
      BY <3>2, <1>1
    <3> QED
      BY <3>1, <3>2, <3>3 DEF CreationOK, ExternallyProvisioned
  <2>2. CASE q = r
    <3>1. \/ task'[r].at \in {"save submission", "account"} /\ order'[n].client = n
          \/ task'[r].at = "insert" /\ order'[n].client \in Provisioned
      BY <2>2 DEF StartsRight
    <3>2. n \notin confirmed /\ n \notin accounts /\ applications[n] = Nil
      BY <2>2 DEF StartsRight
    <3>3. order'[n].client \in Provisioned => order'[n].client \in accounts /\ order'[n].client # n
      BY <2>2, ConstantsAssumption DEF AccountsOK, StartsRight, ConstantsAssumption
    <3> QED
      BY <2>2, <3>1, <3>2, <3>3
  <2> QED
    BY <2>1, <2>2
<1>7. \A n \in Applications : Creating(n) => Creating(n)'
  BY <1>1 DEF Creating
<1>8. NoStrayAccount' /\ NoStrayRow'
  BY <1>1, <1>7 DEF NoStrayAccount, NoStrayRow
<1> QED
  BY <1>3, <1>4, <1>5, <1>6, <1>8

\* Steps that have nothing to do with submissions.
LEMMA TurnKeepsReviews ==
    ASSUME TypeOK, RowsOK, ReviewsOK, ApprovedHasApplication, NEW r \in Requests, Turns(r),
           task[r].sub = Nil, task'[r].sub = Nil, task'[r].at # "save submission",
           UNCHANGED <<submissions, strained, confirmed>>
    PROVE  ReviewsOK' /\ ApprovedHasApplication'
<1>1. \A q \in Requests \ {r} : task'[q] = task[q]
  BY DEF Turns
<1>2. \A s : HasApplication(s) <=> HasApplication(s)'
  BY DEF HasApplication, RowsOK, TypeOK, Turns
<1>3. ReviewsOK'
  BY <1>1, <1>2 DEF ReviewsOK
<1>4. ApprovedHasApplication'
  <2>1. \A s \in Submissions : (\E q \in Requests : task[q].sub = s)
          => \E q \in Requests : task'[q].sub = s
    BY <1>1, ConstantsAssumption DEF ConstantsAssumption
  <2>2. \A s \in Submissions : (\E n \in confirmed : order[n].submission = s)
          => \E n \in confirmed : order'[n].submission = s
    BY <1>2 DEF HasApplication
  <2> QED
    BY <2>1, <2>2 DEF ApprovedHasApplication
<1> QED
  BY <1>3, <1>4

LEMMA CreateApplicationStep ==
    ASSUME IInv, NEW r \in Requests, CreateApplication(r)
    PROVE  IInv'
<1> USE DEF IInv
<1>a. PICK n \in Applications, fields \in FieldLists :
        \E client \in {n} \cup Provisioned :
           /\ order[n] = Nil
           /\ order' = [order EXCEPT ![n] =
                 [client |-> client, fields |-> fields, submission |-> Nil]]
           /\ task' = [task EXCEPT ![r].app = n,
                 ![r].at = IF client = n THEN "account" ELSE "insert"]
  BY DEF CreateApplication
<1>1. PICK client \in {n} \cup Provisioned :
        /\ order[n] = Nil
        /\ order' = [order EXCEPT ![n] =
              [client |-> client, fields |-> fields, submission |-> Nil]]
        /\ task' = [task EXCEPT ![r].app = n,
              ![r].at = IF client = n THEN "account" ELSE "insert"]
  BY <1>a
<1>b. client \in Accounts
  BY DEF Accounts
<1>2. /\ UNCHANGED <<accounts, assigned, granted, applications, submissions,
                     confirmed, mishaps, faults, strained, hungUp>>
      /\ task[r].at = "idle"
  BY DEF CreateApplication
<1>3. task[r] = IdleTask
  BY <1>2 DEF TaskOK, Fits
<1>4. task'[r] = [at |-> IF client = n THEN "account" ELSE "insert", app |-> n,
                  sub |-> Nil, draft |-> Nil]
  BY <1>1, <1>3 DEF TypeOK, IdleTask
<1>5. TypeOK'
  <2>1. [client |-> client, fields |-> fields, submission |-> Nil] \in Order
    BY <1>b, ConstantsAssumption DEF Order, ConstantsAssumption
  <2>2. task'[r] \in Task
    BY <1>4 DEF Task, Steps, Forward
  <2>3. task' \in [Requests -> Task]
    BY <2>2, <1>1 DEF TypeOK
  <2> QED
    BY <2>1, <2>3, <1>1, <1>2 DEF TypeOK
<1>6. \A q \in Requests \ {r} : task'[q] = task[q]
  BY <1>1 DEF TypeOK
<1>7. order'[n] = [client |-> client, fields |-> fields, submission |-> Nil]
      /\ \A m \in Applications \ {n} : order'[m] = order[m]
  BY <1>1 DEF TypeOK
<1>8. order'[n] # Nil
  BY <1>b, <1>7, ConstantsAssumption DEF Order, ConstantsAssumption
<1>c. /\ task'[r].at \in {"account", "insert"}
      /\ task'[r].app = n /\ task'[r].sub = Nil
  BY <1>4
<1>9. Turns(r)
  <2>1. Fits(task'[r], order', granted')
    <3>1. order'[n].submission = Nil
      BY <1>7
    <3>2. n \in Applications
      OBVIOUS
    <3> QED
      BY <3>1, <3>2, <1>c DEF Fits
  <2>2. \A m \in Applications : order[m] # Nil => order'[m] = order[m]
    BY <1>1, <1>7
  <2>3. \A m \in Applications : order'[m] # Nil => order'[m].client \in {m} \cup Provisioned
    BY <1>1, <1>7 DEF OwnersOK
  <2> QED
    BY <2>1, <2>2, <2>3, <1>2, <1>c, <1>6, <1>8 DEF Turns
<1>10. Apart(r)
  <2>1. \A q \in Requests : task[q].app # n
    BY <1>1, ConstantsAssumption DEF OwnersOK, ConstantsAssumption
  <2> QED
    BY <2>1, <1>c DEF Apart
<1>11. Quiet(r)
  BY <1>2, <1>9 DEF Quiet, Forward, Undoing
<1>12. StartsRight(r)
  <2>1. n \notin confirmed /\ n \notin accounts /\ applications[n] = Nil
    BY <1>1 DEF RowsOK, AccountsOK
  <2>2. client # n => client \in Provisioned
    BY <1>1
  <2> QED
    BY <2>1, <2>2, <1>4, <1>7 DEF StartsRight
<1>13. task[r].sub = Nil /\ task'[r].sub = Nil /\ task'[r].at # "save submission"
  BY <1>3, <1>c, IdleFacts
<1> QED
  BY <1>2, <1>5, <1>9, <1>10, <1>11, <1>12, <1>13, TurnKeepsMemory, QuietKeepsSystems,
     TurnKeepsReviews

\* A request that loads a row in order to change it.
Loads(r, n, x, draft) ==
    /\ task[r].at = "idle"
    /\ applications[n] # Nil
    /\ x \in {"regrant", "save row"}
    /\ draft \in Row
    /\ draft.client = applications[n].client
    /\ x = "save row" => draft.fields = applications[n].fields
    /\ task' = [task EXCEPT ![r].at = x, ![r].app = n, ![r].draft = draft]
    /\ UNCHANGED <<accounts, assigned, granted, applications, submissions,
                   hungUp, order, confirmed, mishaps, faults, strained>>

LEMMA LoadStep ==
    ASSUME IInv, NEW r \in Requests, NEW n \in Applications, NEW x, NEW draft,
           Loads(r, n, x, draft)
    PROVE  IInv'
<1> USE DEF IInv
<1>1. /\ UNCHANGED <<accounts, assigned, granted, applications, submissions,
                     hungUp, order, confirmed, mishaps, faults, strained>>
      /\ task[r].at = "idle"
      /\ x \in {"regrant", "save row"}
      /\ task' = [task EXCEPT ![r].at = x, ![r].app = n, ![r].draft = draft]
  BY DEF Loads
<1>2. /\ applications[n] # Nil
      /\ draft \in Row
      /\ draft.client = applications[n].client
      /\ x = "save row" => draft.fields = applications[n].fields
  BY DEF Loads
<1>3. task[r] = IdleTask
  BY <1>1 DEF TaskOK, Fits
<1>a. task[r] \in Task
  BY DEF TypeOK
<1>b. x \in Steps
  BY <1>1 DEF Steps, Saving
<1>4. task'[r] = [task[r] EXCEPT !.at = x, !.app = n, !.draft = draft]
  BY <1>1 DEF TypeOK
<1>5. TypeOK'
  <2>1. [task[r] EXCEPT !.at = x, !.app = n, !.draft = draft] \in Task
    <3>1. draft \in Row \cup SubmissionRow \cup {Nil}
      BY <1>2
    <3> QED
      BY <3>1, <1>a, <1>b DEF Task
  <2>2. task' \in [Requests -> Task]
    BY <2>1, <1>1, <1>4 DEF TypeOK
  <2> QED
    BY <2>2, <1>1 DEF TypeOK
<1>6. \A q \in Requests \ {r} : task'[q] = task[q]
  BY <1>1 DEF TypeOK
<1>7. task'[r].at = x /\ task'[r].app = n /\ task'[r].sub = Nil /\ task'[r].draft = draft
  BY <1>3, <1>4, <1>a, IdleFacts DEF Task
<1>8. x \notin Owning /\ x \notin Early /\ x \notin Forward \cup Undoing
  BY <1>1 DEF Owning, Early, Forward, Undoing
<1>9. /\ order[n] # Nil
      /\ applications[n].client = order[n].client
      /\ applications[n].fields \subseteq granted[order[n].client] \cup order[n].fields
  BY <1>2 DEF RowsOK
<1>10. Turns(r)
  <2>1. Fits(task'[r], order', granted')
    BY <1>1, <1>2, <1>7, <1>8, <1>9 DEF Fits
  <2> QED
    BY <2>1, <1>1, <1>6, <1>7, <1>9 DEF Turns, OwnersOK
<1>11. Apart(r)
  <2>1. ASSUME NEW q \in Requests, task[q].at \in Early, task[q].app = n
        PROVE  FALSE
    <3>1. task[q].at \in Owning
      BY <2>1 DEF Owning, Early, Forward, Undoing
    <3>2. n # Nil
      BY ConstantsAssumption DEF ConstantsAssumption
    <3> QED
      BY <2>1, <3>1, <3>2, <1>2 DEF CreationOK
  <2> QED
    BY <2>1, <1>7, <1>8 DEF Apart
<1>12. Quiet(r) /\ StartsRight(r)
  BY <1>1, <1>7, <1>8, <1>10 DEF Quiet, StartsRight, Forward, Undoing
<1>13. task[r].sub = Nil /\ task'[r].sub = Nil /\ task'[r].at # "save submission"
  BY <1>1, <1>3, <1>7, IdleFacts
<1> QED
  BY <1>1, <1>5, <1>10, <1>11, <1>12, <1>13, TurnKeepsMemory, QuietKeepsSystems,
     TurnKeepsReviews

LEMMA UpdateApplicationStep ==
    ASSUME IInv, NEW r \in Requests, UpdateApplication(r)
    PROVE  IInv'
<1>1. PICK n \in Applications :
        /\ applications[n] # Nil
        /\ task' = [task EXCEPT ![r].at = "save row", ![r].app = n,
                                ![r].draft = applications[n]]
  BY DEF UpdateApplication
<1>2. applications[n] \in Row
  BY <1>1 DEF IInv, TypeOK
<1>3. Loads(r, n, "save row", applications[n])
  BY <1>1, <1>2 DEF UpdateApplication, Loads
<1> QED
  BY <1>3, LoadStep

LEMMA UpdateApplicationPolicyStep ==
    ASSUME IInv, NEW r \in Requests, UpdateApplicationPolicy(r)
    PROVE  IInv'
<1>1. PICK n \in Applications, fields \in PolicyLists :
        /\ applications[n] # Nil
        /\ task' = [task EXCEPT ![r].at = "regrant", ![r].app = n,
              ![r].draft = [applications[n] EXCEPT !.fields = fields]]
  BY DEF UpdateApplicationPolicy
<1> DEFINE draft == [applications[n] EXCEPT !.fields = fields]
<1>2. draft \in Row /\ draft.client = applications[n].client
  BY <1>1, ConstantsAssumption DEF IInv, TypeOK, Row, ConstantsAssumption
<1>3. Loads(r, n, "regrant", draft)
  BY <1>1, <1>2 DEF UpdateApplicationPolicy, Loads
<1> QED
  BY <1>3, LoadStep

\* A request that is answered is out of everybody's way.
LEMMA AnsweredTurns ==
    ASSUME TypeOK, OwnersOK, NEW r \in Requests, Answered(r), UNCHANGED order,
           \A c \in Accounts : granted[c] \subseteq granted'[c]
    PROVE  Turns(r) /\ Apart(r) /\ StartsRight(r)
<1>1. task'[r] = IdleTask /\ \A q \in Requests \ {r} : task'[q] = task[q]
  BY DEF Answered
<1>2. task'[r].at = "idle" /\ task'[r].app = Nil
  BY <1>1, IdleFacts
<1>3. Fits(task'[r], order', granted')
  BY <1>1, IdleFacts DEF Fits, Saving
<1>4. Turns(r)
  BY <1>1, <1>2, <1>3 DEF Turns, OwnersOK
<1>5. Apart(r) /\ StartsRight(r)
  BY <1>2, IdleFacts DEF Apart, StartsRight
<1> QED
  BY <1>4, <1>5

LEMMA RegrantFieldsStep ==
    ASSUME IInv, NEW r \in Requests, RegrantFields(r)
    PROVE  IInv'
<1> USE DEF IInv
<1> DEFINE n     == task[r].app
           draft == task[r].draft
<1>1. PICK result \in Endings :
        /\ Ends(r, TRUE, result)
        /\ granted' = IF ~ TookEffect(result) THEN granted
              ELSE [granted EXCEPT ![draft.client] = @ \cup draft.fields]
        /\ \/ mishaps' = mishaps
           \/ mishaps' = [mishaps EXCEPT ![n] = @ \cup {<<"grant", "by an update">>}]
        /\ IF result = "done" THEN GoTo(r, "save row") ELSE Answer(r)
  BY DEF RegrantFields
<1>2. /\ UNCHANGED <<accounts, assigned, applications, submissions, order,
                     confirmed, strained>>
      /\ task[r].at = "regrant"
  BY DEF RegrantFields
<1>3. /\ n \in Applications /\ task[r].sub = Nil /\ draft \in Row
      /\ draft.client = order[n].client
  BY <1>2 DEF TaskOK, Fits
<1>4. draft.client \in Accounts /\ draft.fields \subseteq Fields
  BY <1>3 DEF Row
<1>5. granted' \in [Accounts -> SUBSET Fields]
  BY <1>1, <1>4 DEF TypeOK
<1>6. \A c \in Accounts : granted[c] \subseteq granted'[c]
  BY <1>1, <1>4 DEF TypeOK
<1>7. faults' \in Nat
  <2>1. faults' = faults \/ faults' = faults + 1
    BY <1>1 DEF Ends
  <2> QED
    BY <2>1 DEF TypeOK
<1>m. /\ mishaps' \in [Applications -> SUBSET Mishap]
      /\ \A m \in Applications : mishaps[m] \subseteq mishaps'[m]
  <2> DEFINE w == <<"grant", "by an update">>
  <2>1. w \in Mishap
    BY DEF Mishap, KeepsGrant
  <2>2. mishaps' = mishaps \/ mishaps' = [mishaps EXCEPT ![n] = mishaps[n] \cup {w}]
    BY <1>1
  <2>3. mishaps \in [Applications -> SUBSET Mishap]
    BY DEF TypeOK
  <2> HIDE DEF w, n
  <2> QED
    BY <2>1, <2>2, <2>3, <1>3
<1>8. task[r].at \notin Forward \cup Undoing
  BY <1>2 DEF Forward, Undoing
<1>9. CASE result = "done"
  <2>1. Moved(r, "save row")
    BY <1>1, <1>9, GoToMoves DEF Steps, Saving
  <2>2. /\ task'[r].at = "save row" /\ task'[r].app = n /\ task'[r].sub = Nil
        /\ task'[r].draft = draft /\ hungUp' \subseteq Requests
        /\ task' \in [Requests -> Task]
    BY <2>1, <1>3 DEF Moved
  <2>3. TypeOK'
    BY <2>2, <1>2, <1>5, <1>7, <1>m DEF TypeOK
  <2>4. draft.fields \subseteq granted'[order[n].client]
    BY <1>1, <1>3, <1>4, <1>9 DEF TookEffect, TypeOK
  <2>5. Fits(task'[r], order', granted')
    BY <2>2, <2>4, <1>2, <1>3 DEF Fits, Forward, Undoing
  <2>6. order[n] # Nil
    BY <1>3, ConstantsAssumption DEF OwnersOK, ConstantsAssumption
  <2>7. Turns(r)
    BY <2>1, <2>2, <2>5, <2>6, <1>2, <1>6 DEF Turns, Moved, OwnersOK
  <2>8. "save row" \notin Owning /\ "save row" \notin Early
    BY DEF Owning, Early, Forward, Undoing
  <2>9. Apart(r) /\ StartsRight(r)
    BY <2>2, <2>8, <1>2 DEF Apart, StartsRight, UpdatesOK
  <2>10. Quiet(r)
    BY <2>7, <1>2, <1>8, <1>m DEF Quiet
  <2> QED
    BY <2>2, <2>3, <2>7, <2>9, <2>10, <1>2, <1>3, TurnKeepsMemory, QuietKeepsSystems,
       TurnKeepsReviews
<1>10. CASE result # "done"
  <2>1. Answered(r)
    BY <1>1, <1>10, AnswerAnswers
  <2>2. TypeOK'
    BY <2>1, <1>2, <1>5, <1>7, <1>m DEF TypeOK, Answered
  <2>3. Turns(r) /\ Apart(r) /\ StartsRight(r)
    BY <2>1, <1>2, <1>6, AnsweredTurns
  <2>4. Quiet(r)
    BY <2>3, <1>2, <1>8, <1>m DEF Quiet
  <2>5. task'[r].sub = Nil /\ task'[r].at # "save submission"
    BY <2>1, IdleFacts DEF Answered
  <2> QED
    BY <2>2, <2>3, <2>4, <2>5, <1>2, <1>3, TurnKeepsMemory, QuietKeepsSystems,
       TurnKeepsReviews
<1> QED
  BY <1>9, <1>10

LEMMA SaveApplicationStep ==
    ASSUME IInv, NEW r \in Requests, SaveApplication(r)
    PROVE  IInv'
<1> USE DEF IInv
<1> DEFINE n     == task[r].app
           draft == task[r].draft
<1>1. PICK result \in Endings :
        /\ Ends(r, TRUE, result)
        /\ applications' = IF ~ TookEffect(result) THEN applications
                           ELSE [applications EXCEPT ![n] = draft]
        /\ mishaps' = IF ~ TookEffect(result) \/ applications[n] # Nil THEN mishaps
              ELSE [mishaps EXCEPT ![n] = @ \cup {<<"row", "saved again">>}]
  BY DEF SaveApplication
<1>2. /\ UNCHANGED <<accounts, assigned, granted, submissions, order, confirmed, strained>>
      /\ task[r].at = "save row"
      /\ Answer(r)
  BY DEF SaveApplication
<1>3. /\ n \in Applications /\ task[r].sub = Nil /\ draft \in Row
      /\ draft.client = order[n].client
      /\ draft.fields \subseteq granted[order[n].client] \cup order[n].fields
  BY <1>2 DEF TaskOK, Fits
<1>4. Answered(r)
  BY <1>2, AnswerAnswers
<1>5. draft # Nil /\ order[n] # Nil /\ <<"row", "saved again">> \in Mishap
  BY <1>3, ConstantsAssumption DEF OwnersOK, Mishap, KeepsRow, ConstantsAssumption
<1>6. /\ \A m \in Applications \ {n} : applications'[m] = applications[m]
      /\ \A m \in Applications \ {n} : mishaps'[m] = mishaps[m]
      /\ mishaps[n] \subseteq mishaps'[n]
      /\ applications'[n] = applications[n] \/ applications'[n] = draft
      /\ applications'[n] = applications[n] \/ applications[n] # Nil
            \/ <<"row", "saved again">> \in mishaps'[n]
  BY <1>1, <1>3 DEF TypeOK
<1>7. TypeOK'
  <2>1. applications' \in [Applications -> Row \cup {Nil}]
    BY <1>1, <1>3 DEF TypeOK
  <2>2. mishaps' \in [Applications -> SUBSET Mishap]
    BY <1>1, <1>3, <1>5 DEF TypeOK
  <2>3. faults' = faults \/ faults' = faults + 1
    BY <1>1 DEF Ends
  <2>4. faults' \in Nat
    BY <2>3 DEF TypeOK
  <2> QED
    BY <2>1, <2>2, <2>4, <1>2, <1>4 DEF TypeOK, Answered
<1>8. Turns(r) /\ Apart(r)
  BY <1>2, <1>4, AnsweredTurns
<1>9. task'[r].at = "idle" /\ task'[r].app = Nil /\ task'[r].sub = Nil
  BY <1>4, IdleFacts DEF Answered
<1>10. \A q \in Requests \ {r} : task'[q] = task[q]
  BY <1>4 DEF Answered
<1>11. RowsOK'
  BY <1>2, <1>3, <1>5, <1>6 DEF RowsOK
<1>12. AccountsOK'
  BY <1>2 DEF AccountsOK, ExternallyProvisioned
<1>13. ConfirmedIsComplete'
  <2>1. \A m \in confirmed : /\ applications'[m] # Nil
                             /\ applications'[m].client = order[m].client
    <3> SUFFICES ASSUME NEW m \in confirmed
                 PROVE  /\ applications'[m] # Nil
                        /\ applications'[m].client = order[m].client
      OBVIOUS
    <3>1. /\ m \in Applications /\ applications[m] # Nil
          /\ applications[m].client = order[m].client
      BY DEF ConfirmedIsComplete, TypeOK
    <3>2. applications'[m] = applications[m] \/ (m = n /\ applications'[m] = draft)
      BY <3>1, <1>6
    <3> QED
      BY <3>1, <3>2, <1>3, <1>5
  <2> QED
    BY <2>1, <1>2 DEF ConfirmedIsComplete, ExternallyProvisioned
<1>14. CreationOK'
  <2> SUFFICES ASSUME NEW q \in Requests, task[q].at \in Owning, task[q].app # Nil, q # r
               PROVE  LET m == task[q].app IN
                      /\ m \notin confirmed
                      /\ task[q].at \in {"save submission", "account", "role", "discard",
                                         "delete account"} => ~ ExternallyProvisioned(m)
                      /\ task[q].at \in Early => applications'[m] = Nil
                      /\ task[q].at \in {"save submission", "account"} => m \notin accounts
                      /\ task[q].at = "role" => m \in accounts
                      /\ task[q].at \in {"insert", "grant"} =>
                            /\ order[m].client \in accounts
                            /\ AssignsRole /\ ~ ExternallyProvisioned(m) => m \in assigned
                      /\ task[q].at = "grant" => applications'[m] # Nil
                      /\ task[q].at = "delete account" =>
                            applications'[m] = Nil \/ mishaps'[m] \cap KeepsRow # {}
    BY <1>2, <1>9, <1>10, IdleFacts DEF CreationOK, ExternallyProvisioned
  <2> DEFINE m == task[q].app
  <2>1. m \in Applications
    BY DEF TypeOK, Task
  <2>2. task[q].at \in Early => m # n
    BY <1>2 DEF UpdatesOK
  <2>3. task[q].at \in Early => applications'[m] = Nil
    BY <2>1, <2>2, <1>6 DEF CreationOK
  <2>4. task[q].at = "grant" => applications'[m] # Nil
    BY <2>1, <1>5, <1>6 DEF CreationOK
  <2>5. task[q].at = "delete account" =>
          applications'[m] = Nil \/ mishaps'[m] \cap KeepsRow # {}
    BY <2>1, <1>6 DEF CreationOK, KeepsRow
  <2> QED
    BY <2>3, <2>4, <2>5 DEF CreationOK
<1>15. \A m \in Applications : Creating(m) => Creating(m)'
  BY <1>2, <1>10 DEF Creating, Forward, Undoing
<1>16. NoStrayAccount'
  BY <1>2, <1>5, <1>6, <1>15 DEF NoStrayAccount
<1>17. NoStrayRow'
  <2> SUFFICES ASSUME NEW m \in Applications
               PROVE  \/ applications'[m] = Nil \/ m \in confirmed \/ Creating(m)'
                      \/ mishaps'[m] \cap KeepsRow # {}
    BY <1>2 DEF NoStrayRow
  <2>1. <<"row", "saved again">> \in KeepsRow
    BY DEF KeepsRow
  <2>2. CASE m # n
    BY <2>2, <1>6, <1>15 DEF NoStrayRow
  <2>3. CASE m = n
    BY <2>1, <2>3, <1>6, <1>15 DEF NoStrayRow
  <2> QED
    BY <2>2, <2>3
<1>18. TaskOK' /\ OwnersOK' /\ UpdatesOK'
  BY <1>8, TurnKeepsMemory
<1>19. ReviewsOK' /\ ApprovedHasApplication'
  BY <1>2, <1>3, <1>8, <1>9, TurnKeepsReviews
<1> QED
  BY <1>7, <1>11, <1>12, <1>13, <1>14, <1>16, <1>17, <1>18, <1>19

LEMMA CreateApplicationSubmissionStep ==
    ASSUME IInv, CreateApplicationSubmission
    PROVE  IInv'
<1> USE DEF IInv
<1>1. UNCHANGED <<accounts, assigned, granted, applications, task, hungUp,
                  order, confirmed, mishaps, faults, strained>>
  BY DEF CreateApplicationSubmission
<1>2. PICK s \in Submissions, fields \in FieldLists, previous \in Existing \cup {Nil} :
        /\ submissions[s] = Nil
        /\ submissions' = [submissions EXCEPT ![s] =
              [status |-> "pending", fields |-> fields, previous |-> previous]]
  BY DEF CreateApplicationSubmission
<1>3. [status |-> "pending", fields |-> fields, previous |-> previous] \in SubmissionRow
  BY ConstantsAssumption DEF SubmissionRow, Statuses, Existing, ConstantsAssumption
<1>4. TypeOK'
  BY <1>1, <1>2, <1>3 DEF TypeOK
<1>5. TaskOK' /\ OwnersOK' /\ UpdatesOK'
  BY <1>1 DEF TaskOK, OwnersOK, UpdatesOK
<1>6. RowsOK' /\ AccountsOK' /\ ConfirmedIsComplete'
  BY <1>1 DEF RowsOK, AccountsOK, ConfirmedIsComplete, ExternallyProvisioned
<1>7. CreationOK'
  BY <1>1 DEF CreationOK, ExternallyProvisioned
<1>8. NoStrayAccount' /\ NoStrayRow'
  BY <1>1 DEF NoStrayAccount, NoStrayRow, Creating
<1>9. /\ \A u \in Submissions \ {s} : submissions'[u] = submissions[u]
      /\ submissions'[s].status = "pending"
  BY <1>2 DEF TypeOK
<1>10. ReviewsOK'
  <2> SUFFICES ASSUME NEW q \in Requests, task[q].at = "save submission",
                      task[q].sub \notin strained
               PROVE  LET u == task[q].sub IN
                      /\ submissions'[u] # Nil
                      /\ submissions'[u].status = "approved" => HasApplication(u)
                      /\ task[q].draft.status = "approved" /\ task[q].app = Nil
                            => HasApplication(u)
    BY <1>1 DEF ReviewsOK, HasApplication
  <2>1. task[q].sub \in Submissions /\ task[q].sub # s
    BY <1>2 DEF TaskOK, Fits, ReviewsOK
  <2> QED
    BY <2>1, <1>9 DEF ReviewsOK
<1>11. ApprovedHasApplication'
  BY <1>1, <1>9 DEF ApprovedHasApplication
<1> QED
  BY <1>4, <1>5, <1>6, <1>7, <1>8, <1>10, <1>11

LEMMA UpdateApplicationSubmissionStep ==
    ASSUME IInv, NEW r \in Requests, UpdateApplicationSubmission(r)
    PROVE  IInv'
<1> USE DEF IInv
<1>1. PICK s \in Submissions, status \in Statuses \cup {Nil},
           fields \in FieldLists \cup {Nil}, previous \in Existing \cup {Nil} :
        LET loaded == submissions[s]
            draft  == [status   |-> Updated(loaded.status, status),
                       fields   |-> Updated(loaded.fields, fields),
                       previous |-> Updated(loaded.previous, previous)]
            Begin(m) == task' = [task EXCEPT ![r].at = "save submission",
                           ![r].app = m, ![r].sub = s, ![r].draft = draft]
        IN
        /\ loaded # Nil
        /\ strained' = IF \E q \in Requests : task[q].sub = s
                       THEN strained \cup {s} ELSE strained
        /\ \/ /\ status # "approved"
              /\ Begin(Nil)
              /\ UNCHANGED order
           \/ /\ status = "approved"
              /\ \E m \in Applications :
                    /\ order[m] = Nil
                    /\ order' = [order EXCEPT ![m] =
                          [client |-> m, fields |-> draft.fields, submission |-> s]]
                    /\ Begin(m)
  BY DEF UpdateApplicationSubmission
<1>2. /\ UNCHANGED <<accounts, assigned, granted, applications, submissions,
                     confirmed, mishaps, faults, hungUp>>
      /\ task[r].at = "idle"
  BY DEF UpdateApplicationSubmission
<1> DEFINE loaded == submissions[s]
           draft  == [status   |-> Updated(loaded.status, status),
                      fields   |-> Updated(loaded.fields, fields),
                      previous |-> Updated(loaded.previous, previous)]
           Begin(m) == task' = [task EXCEPT ![r].at = "save submission",
                          ![r].app = m, ![r].sub = s, ![r].draft = draft]
<1>3. PICK m \in Applications \cup {Nil} :
        /\ Begin(m)
        /\ \/ m = Nil /\ status # "approved" /\ order' = order
           \/ /\ m \in Applications
              /\ status = "approved"
              /\ order[m] = Nil
              /\ order' = [order EXCEPT ![m] =
                    [client |-> m, fields |-> draft.fields, submission |-> s]]
  BY <1>1
<1>4. loaded \in SubmissionRow
  BY <1>1 DEF TypeOK
<1>5. draft \in SubmissionRow
  <2>1. Updated(loaded.status, status) \in Statuses
    BY <1>4 DEF SubmissionRow, Updated
  <2>2. Updated(loaded.fields, fields) \in SUBSET Fields
    BY <1>4, ConstantsAssumption DEF SubmissionRow, Updated, ConstantsAssumption
  <2>3. Updated(loaded.previous, previous) \in Applications \cup {Nil}
    BY <1>4 DEF SubmissionRow, Updated, Existing
  <2> QED
    BY <2>1, <2>2, <2>3 DEF SubmissionRow
<1>6. draft.status = "approved" /\ status # "approved" => loaded.status = "approved"
  BY DEF Updated
<1> HIDE DEF draft, loaded
<1>7. task[r] = IdleTask /\ task[r].app = Nil /\ task[r].sub = Nil
  BY <1>2, IdleFacts DEF TaskOK, Fits
<1>8. task'[r] = [task[r] EXCEPT !.at = "save submission", !.app = m, !.sub = s,
                                 !.draft = draft]
      /\ \A q \in Requests \ {r} : task'[q] = task[q]
  BY <1>3 DEF TypeOK
<1>9. task[r] \in Task
  BY DEF TypeOK
<1>10. /\ task'[r].at = "save submission" /\ task'[r].app = m
       /\ task'[r].sub = s /\ task'[r].draft = draft
  BY <1>8, <1>9 DEF Task
<1>11. task' \in [Requests -> Task]
  <2>1. draft \in Row \cup SubmissionRow \cup {Nil} /\ "save submission" \in Steps
    BY <1>5 DEF Steps, Saving
  <2>2. [task[r] EXCEPT !.at = "save submission", !.app = m, !.sub = s,
                        !.draft = draft] \in Task
    BY <2>1, <1>9 DEF Task
  <2> QED
    BY <2>2, <1>3, <1>8 DEF TypeOK
<1>12. m # Nil => /\ m \in Applications /\ order[m] = Nil
                  /\ order'[m] = [client |-> m, fields |-> draft.fields, submission |-> s]
                  /\ order'[m] \in Order /\ order'[m] # Nil
  <2>1. draft.fields \in SUBSET Fields
    BY <1>5 DEF SubmissionRow
  <2>2. m \in Applications =>
          [client |-> m, fields |-> draft.fields, submission |-> s] \in Order
    BY <2>1 DEF Order, Accounts
  <2> QED
    BY <2>2, <1>3, ConstantsAssumption DEF TypeOK, ConstantsAssumption
<1>13. \A a \in Applications : a # m => order'[a] = order[a]
  BY <1>3 DEF TypeOK
<1>14. strained \subseteq strained' /\ strained' \subseteq strained \cup {s}
       /\ ((\E q \in Requests : task[q].sub = s) => s \in strained')
  BY <1>1
<1>15. TypeOK'
  <2>1. order' \in [Applications -> Order \cup {Nil}]
    <3>1. CASE m = Nil
      BY <3>1, <1>3, ConstantsAssumption DEF TypeOK, ConstantsAssumption
    <3>2. CASE m # Nil
      <4>1. order' = [order EXCEPT ![m] = order'[m]] /\ order'[m] \in Order
        BY <3>2, <1>3, <1>12
      <4> QED
        BY <4>1 DEF TypeOK
    <3> QED
      BY <3>1, <3>2
  <2>2. strained' \subseteq Submissions
    BY <1>14 DEF TypeOK
  <2> QED
    BY <2>1, <2>2, <1>2, <1>11 DEF TypeOK
<1>16. Turns(r)
  <2>1. Fits(task'[r], order', granted')
    <3>1. m # Nil => s = order'[m].submission
      BY <1>12
    <3>2. "save submission" \notin Forward \cup Undoing
      BY DEF Forward, Undoing
    <3> QED
      BY <3>1, <3>2, <1>5, <1>10 DEF Fits
  <2>2. \A a \in Applications : order[a] # Nil => order'[a] = order[a]
    BY <1>12, <1>13, ConstantsAssumption DEF ConstantsAssumption
  <2>3. \A a \in Applications : order'[a] # Nil => order'[a].client \in {a} \cup Provisioned
    BY <1>12, <1>13, ConstantsAssumption DEF OwnersOK, ConstantsAssumption
  <2> QED
    BY <2>1, <2>2, <2>3, <1>2, <1>8, <1>10, <1>12 DEF Turns
<1>17. Apart(r)
  <2>1. m # Nil => \A q \in Requests : task[q].app # m
    BY <1>12 DEF OwnersOK
  <2>2. \A q \in Requests : task[q].at \in {"regrant", "save row"} => task[q].app # Nil
    BY ConstantsAssumption DEF TaskOK, Fits, ConstantsAssumption
  <2> QED
    BY <2>1, <2>2, <1>10 DEF Apart
<1>18. StartsRight(r)
  <2>1. m # Nil => m \notin confirmed /\ m \notin accounts /\ applications[m] = Nil
    BY <1>12 DEF RowsOK, AccountsOK
  <2>2. m # Nil => order'[m].client = m
    BY <1>12
  <2> QED
    BY <2>1, <2>2, <1>10, <1>12 DEF StartsRight
<1>19. Quiet(r)
  BY <1>2, <1>16 DEF Quiet, Forward, Undoing
<1>20. \A u : HasApplication(u) => HasApplication(u)'
  BY <1>2, <1>16 DEF HasApplication, RowsOK, TypeOK, Turns
<1>21. ApprovedHasApplication'
  <2> SUFFICES ASSUME NEW u \in Submissions, u \notin strained', submissions[u] # Nil,
                      submissions[u].status = "approved"
               PROVE  (\E q \in Requests : task'[q].sub = u) \/ HasApplication(u)'
    BY <1>2 DEF ApprovedHasApplication, HasApplication
  <2>1. (\E q \in Requests : task[q].sub = u) \/ HasApplication(u)
    BY <1>14 DEF ApprovedHasApplication, HasApplication
  <2>2. u # Nil
    BY ConstantsAssumption DEF ConstantsAssumption
  <2> QED
    BY <2>1, <2>2, <1>7, <1>8, <1>20
<1>22. s \notin strained' => (loaded.status = "approved" => HasApplication(s))
  BY <1>1, <1>14 DEF ApprovedHasApplication, HasApplication, loaded
<1>23. ReviewsOK'
  <2>1. ASSUME NEW p \in Requests, NEW q \in Requests, task'[p].sub # Nil,
               task'[p].sub = task'[q].sub, task'[p].sub \notin strained'
        PROVE  p = q
    <3>1. CASE p # r /\ q # r
      BY <2>1, <3>1, <1>8, <1>14 DEF ReviewsOK
    <3>2. CASE p = r /\ q # r
      BY <2>1, <3>2, <1>8, <1>10, <1>14
    <3>3. CASE p # r /\ q = r
      BY <2>1, <3>3, <1>8, <1>10, <1>14
    <3> QED
      BY <3>1, <3>2, <3>3
  <2>2. ASSUME NEW q \in Requests, task'[q].at = "save submission",
               task'[q].sub \notin strained'
        PROVE  LET u == task'[q].sub IN
               /\ submissions[u] # Nil
               /\ submissions[u].status = "approved" => HasApplication(u)
               /\ task'[q].draft.status = "approved" /\ task'[q].app = Nil
                     => HasApplication(u)
    <3>1. CASE q # r
      BY <2>2, <3>1, <1>8, <1>14 DEF ReviewsOK
    <3>2. CASE q = r
      <4>1. submissions[s] = loaded /\ loaded # Nil
        BY <1>1 DEF loaded
      <4>2. m = Nil => status # "approved"
        BY <1>3, ConstantsAssumption DEF ConstantsAssumption
      <4> QED
        BY <2>2, <3>2, <4>1, <4>2, <1>6, <1>10, <1>22
    <3> QED
      BY <3>1, <3>2
  <2> QED
    BY <2>1, <2>2, <1>2, <1>20 DEF ReviewsOK
<1> QED
  BY <1>15, <1>16, <1>17, <1>18, <1>19, <1>21, <1>23, TurnKeepsMemory, QuietKeepsSystems

LEMMA SaveSubmissionStep ==
    ASSUME IInv, NEW r \in Requests, SaveSubmission(r)
    PROVE  IInv'
<1> USE DEF IInv
<1> DEFINE s     == task[r].sub
           n     == task[r].app
           draft == task[r].draft
<1>1. PICK result \in Endings :
        /\ Ends(r, Storable(draft), result)
        /\ submissions' = IF TookEffect(result)
                          THEN [submissions EXCEPT ![s] = draft] ELSE submissions
        /\ strained' = IF result = "lost" THEN strained \cup {s} ELSE strained
        /\ IF result = "done" /\ n # Nil THEN GoTo(r, "account") ELSE Answer(r)
  BY DEF SaveSubmission
<1>2. /\ UNCHANGED <<accounts, assigned, granted, applications, order, confirmed,
                     mishaps>>
      /\ task[r].at = "save submission"
  BY DEF SaveSubmission
<1>3. /\ s \in Submissions /\ draft \in SubmissionRow
      /\ n # Nil => s = order[n].submission
  BY <1>2 DEF TaskOK, Fits
<1>4. n \in Applications \cup {Nil}
  BY DEF TypeOK, Task
<1>5. task[r].at \in Owning /\ task[r].at \in Early /\ task[r].at \notin Forward \cup Undoing
  BY <1>2 DEF Owning, Early, Forward, Undoing
<1>6. /\ \A u \in Submissions \ {s} : submissions'[u] = submissions[u]
      /\ submissions'[s] = submissions[s] \/ submissions'[s] = draft
      /\ result = "refused" => submissions'[s] = submissions[s]
      /\ strained \subseteq strained' /\ strained' \subseteq strained \cup {s}
      /\ result = "lost" => s \in strained'
      /\ result \in {"done", "refused", "lost"}
  BY <1>1, <1>3 DEF TypeOK, TookEffect, Endings
<1>7. \/ Answered(r)
      \/ Moved(r, "account") /\ result = "done" /\ n # Nil
  BY <1>1, GoToMoves, AnswerAnswers DEF Steps, Forward
<1>8. /\ \A q \in Requests \ {r} : task'[q] = task[q]
      /\ task' \in [Requests -> Task] /\ hungUp' \subseteq Requests
  BY <1>7 DEF Answered, Moved
<1>9. TypeOK'
  <2>1. submissions' \in [Submissions -> SubmissionRow \cup {Nil}]
    BY <1>1, <1>3 DEF TypeOK
  <2>2. faults' = faults \/ faults' = faults + 1
    BY <1>1 DEF Ends
  <2>3. faults' \in Nat /\ strained' \subseteq Submissions
    BY <2>2, <1>3, <1>6 DEF TypeOK
  <2> QED
    BY <2>1, <2>3, <1>2, <1>8 DEF TypeOK
<1>10. Turns(r) /\ Apart(r) /\ StartsRight(r)
  <2>1. CASE Answered(r)
    BY <2>1, <1>2, AnsweredTurns
  <2>2. CASE Moved(r, "account") /\ n # Nil
    <3>1. /\ task'[r].at = "account" /\ task'[r].app = n /\ task'[r].sub = s
          /\ task'[r].draft = draft
      BY <2>2 DEF Moved
    <3>2. Fits(task'[r], order', granted')
      BY <2>2, <3>1, <1>2, <1>3, <1>4 DEF Fits
    <3>3. Turns(r)
      BY <2>2, <3>1, <3>2, <1>2, <1>8 DEF Turns, OwnersOK
    <3>4. Apart(r)
      BY <2>2, <3>1, <1>5 DEF Apart, OwnersOK, UpdatesOK
    <3>5. StartsRight(r)
      BY <2>2, <3>1, <1>2, <1>4, <1>5 DEF StartsRight, CreationOK, ExternallyProvisioned
    <3> QED
      BY <3>3, <3>4, <3>5
  <2> QED
    BY <2>1, <2>2, <1>7
<1>11. Quiet(r)
  BY <1>2, <1>5, <1>10 DEF Quiet
<1>12. \A u : HasApplication(u)' <=> HasApplication(u)
  BY <1>2 DEF HasApplication
<1>13. task'[r].at # "save submission" /\ task'[r].sub \in {Nil, s}
  BY <1>7, IdleFacts DEF Answered, Moved
<1>14. s # Nil
  BY <1>3, ConstantsAssumption DEF ConstantsAssumption
<1>15. \A q \in Requests \ {r} : task[q].sub = s => s \in strained
  BY <1>14 DEF ReviewsOK
<1>16. ReviewsOK'
  <2>1. ASSUME NEW p \in Requests, NEW q \in Requests, task'[p].sub # Nil,
               task'[p].sub = task'[q].sub, task'[p].sub \notin strained'
        PROVE  p = q
    <3>1. task[p].sub = task'[p].sub /\ task[q].sub = task'[q].sub
      BY <2>1, <1>8, <1>13
    <3> QED
      BY <2>1, <3>1, <1>6 DEF ReviewsOK
  <2>2. ASSUME NEW q \in Requests, task'[q].at = "save submission",
               task'[q].sub \notin strained'
        PROVE  LET u == task'[q].sub IN
               /\ submissions'[u] # Nil
               /\ submissions'[u].status = "approved" => HasApplication(u)
               /\ task'[q].draft.status = "approved" /\ task'[q].app = Nil
                     => HasApplication(u)
    <3>1. q # r /\ task'[q] = task[q]
      BY <2>2, <1>8, <1>13
    <3>2. task[q].sub # s /\ task[q].sub \in Submissions /\ task[q].sub \notin strained
      BY <2>2, <3>1, <1>6, <1>15 DEF TaskOK, Fits
    <3> QED
      BY <2>2, <3>1, <3>2, <1>6 DEF ReviewsOK
  <2> QED
    BY <2>1, <2>2, <1>12 DEF ReviewsOK
<1>17. ApprovedHasApplication'
  <2> SUFFICES ASSUME NEW u \in Submissions, u \notin strained', submissions'[u] # Nil,
                      submissions'[u].status = "approved"
               PROVE  (\E q \in Requests : task'[q].sub = u) \/ HasApplication(u)
    BY <1>2 DEF ApprovedHasApplication, HasApplication
  <2>1. CASE u # s
    <3>1. (\E q \in Requests : task[q].sub = u) \/ HasApplication(u)
      BY <2>1, <1>6 DEF ApprovedHasApplication, HasApplication
    <3> QED
      BY <2>1, <3>1, <1>8
  <2>2. CASE u = s /\ Moved(r, "account")
    BY <2>2 DEF Moved
  <2>3. CASE u = s /\ Answered(r)
    <3>1. s \notin strained /\ result # "lost"
      BY <2>3, <1>6
    <3>2. /\ submissions[s].status = "approved" => HasApplication(s)
          /\ draft.status = "approved" /\ n = Nil => HasApplication(s)
      BY <3>1, <1>2 DEF ReviewsOK
    <3>3. CASE result = "refused"
      BY <2>3, <3>2, <3>3, <1>6
    <3>4. CASE result = "done"
      <4>1. n = Nil
        <5> SUFFICES ASSUME n # Nil
                     PROVE  FALSE
          OBVIOUS
        <5>1. GoTo(r, "account")
          BY <3>4, <1>1
        <5>2. task'[r].at = "account"
          BY <5>1, GoToMoves DEF Moved, Steps, Forward
        <5> QED
          BY <2>3, <5>2, IdleFacts DEF Answered
      <4> QED
        BY <2>3, <3>2, <4>1, <1>6
    <3> QED
      BY <3>1, <3>3, <3>4, <1>6
  <2> QED
    BY <2>1, <2>2, <2>3, <1>7
<1> QED
  BY <1>9, <1>10, <1>11, <1>16, <1>17, TurnKeepsMemory, QuietKeepsSystems

LEMMA ReopenSubmissionStep ==
    ASSUME IInv, NEW r \in Requests, ReopenSubmission(r)
    PROVE  IInv'
<1> USE DEF IInv
<1> DEFINE s     == task[r].sub
           draft == task[r].draft
<1>1. PICK result \in Endings :
        /\ Ends(r, Storable(draft), result)
        /\ submissions' = IF ~ TookEffect(result) THEN submissions
              ELSE [submissions EXCEPT ![s] = [draft EXCEPT !.status = "pending"]]
        /\ strained' = IF TookEffect(result) THEN strained ELSE strained \cup {s}
  BY DEF ReopenSubmission
<1>2. /\ UNCHANGED <<accounts, assigned, granted, applications, order, confirmed,
                     mishaps>>
      /\ task[r].at = "reopen"
      /\ Answer(r)
  BY DEF ReopenSubmission
<1>3. s \in Submissions /\ draft \in SubmissionRow
  BY <1>2 DEF TaskOK, Fits
<1>4. /\ [draft EXCEPT !.status = "pending"] \in SubmissionRow
      /\ [draft EXCEPT !.status = "pending"].status = "pending"
  BY <1>3 DEF SubmissionRow, Statuses
<1>5. Answered(r)
  BY <1>2, AnswerAnswers
<1>6. /\ \A u \in Submissions \ {s} : submissions'[u] = submissions[u]
      /\ submissions'[s].status = "pending" \/ s \in strained'
      /\ strained \subseteq strained' /\ strained' \subseteq strained \cup {s}
  BY <1>1, <1>3, <1>4 DEF TypeOK
<1>7. TypeOK'
  <2>1. submissions' \in [Submissions -> SubmissionRow \cup {Nil}]
    BY <1>1, <1>3, <1>4 DEF TypeOK
  <2>2. faults' = faults \/ faults' = faults + 1
    BY <1>1 DEF Ends
  <2>3. faults' \in Nat /\ strained' \subseteq Submissions
    BY <2>2, <1>3, <1>6 DEF TypeOK
  <2> QED
    BY <2>1, <2>3, <1>2, <1>5 DEF TypeOK, Answered
<1>8. Turns(r) /\ Apart(r) /\ StartsRight(r)
  BY <1>2, <1>5, AnsweredTurns
<1>9. Quiet(r)
  BY <1>2, <1>8 DEF Quiet, Forward, Undoing
<1>10. /\ \A q \in Requests \ {r} : task'[q] = task[q]
       /\ task'[r].at = "idle" /\ task'[r].sub = Nil
  BY <1>5, IdleFacts DEF Answered
<1>11. s # Nil
  BY <1>3, ConstantsAssumption DEF ConstantsAssumption
<1>12. ReviewsOK'
  <2>1. ASSUME NEW p \in Requests, NEW q \in Requests, task'[p].sub # Nil,
               task'[p].sub = task'[q].sub, task'[p].sub \notin strained'
        PROVE  p = q
    <3>1. p # r /\ q # r
      BY <2>1, <1>10
    <3>2. task'[p] = task[p] /\ task'[q] = task[q]
      BY <3>1, <1>10
    <3> QED
      BY <2>1, <3>2, <1>6 DEF ReviewsOK
  <2>2. ASSUME NEW q \in Requests, task'[q].at = "save submission",
               task'[q].sub \notin strained'
        PROVE  LET u == task'[q].sub IN
               /\ submissions'[u] # Nil
               /\ submissions'[u].status = "approved" => HasApplication(u)
               /\ task'[q].draft.status = "approved" /\ task'[q].app = Nil
                     => HasApplication(u)
    <3>1. q # r /\ task'[q] = task[q]
      BY <2>2, <1>10
    <3>2. task[q].sub \in Submissions /\ task[q].sub \notin strained
      BY <2>2, <3>1, <1>6 DEF TaskOK, Fits
    <3>3. task[q].sub # s
      BY <3>1, <3>2, <1>11 DEF ReviewsOK
    <3> QED
      BY <2>2, <3>1, <3>2, <3>3, <1>6 DEF ReviewsOK
  <2> QED
    BY <2>1, <2>2, <1>2 DEF ReviewsOK, HasApplication
<1>13. ApprovedHasApplication'
  <2> SUFFICES ASSUME NEW u \in Submissions, u \notin strained', submissions'[u] # Nil,
                      submissions'[u].status = "approved"
               PROVE  (\E q \in Requests : task'[q].sub = u) \/ HasApplication(u)
    BY <1>2 DEF ApprovedHasApplication, HasApplication
  <2>1. u # s
    BY <1>6
  <2>2. (\E q \in Requests : task[q].sub = u) \/ HasApplication(u)
    BY <2>1, <1>6 DEF ApprovedHasApplication, HasApplication
  <2> QED
    BY <2>1, <2>2, <1>10
<1> QED
  BY <1>7, <1>8, <1>9, <1>12, <1>13, TurnKeepsMemory, QuietKeepsSystems

-----------------------------------------------------------------------------
(* The theorems.                                                           *)

LEMMA StutterStep ==
    ASSUME IInv, UNCHANGED vars
    PROVE  IInv'
<1> USE DEF IInv, vars
<1>1. TypeOK'
  BY DEF TypeOK
<1>2. TaskOK' /\ OwnersOK' /\ UpdatesOK'
  BY DEF TaskOK, OwnersOK, UpdatesOK
<1>3. RowsOK' /\ AccountsOK' /\ ConfirmedIsComplete'
  BY DEF RowsOK, AccountsOK, ConfirmedIsComplete, ExternallyProvisioned
<1>4. CreationOK'
  BY DEF CreationOK, ExternallyProvisioned
<1>5. ReviewsOK' /\ ApprovedHasApplication'
  BY DEF ReviewsOK, HasApplication, ApprovedHasApplication
<1>6. NoStrayAccount' /\ NoStrayRow'
  BY DEF NoStrayAccount, NoStrayRow, Creating
<1> QED
  BY <1>1, <1>2, <1>3, <1>4, <1>5, <1>6

LEMMA NextStep ==
    ASSUME IInv, [Next]_vars
    PROVE  IInv'
<1>1. CASE CreateApplicationSubmission
  BY <1>1, CreateApplicationSubmissionStep
<1>2. CASE Crash
  BY <1>2, CrashStep
<1>3. CASE UNCHANGED vars
  BY <1>3, StutterStep
<1>4. ASSUME NEW r \in Requests,
             \/ CreateApplication(r)
             \/ Creation(r)
             \/ UpdateApplication(r)
             \/ UpdateApplicationPolicy(r)
             \/ RegrantFields(r)
             \/ SaveApplication(r)
             \/ UpdateApplicationSubmission(r)
             \/ SaveSubmission(r)
             \/ ReopenSubmission(r)
             \/ HangUp(r)
      PROVE  IInv'
  BY <1>4, CreateApplicationStep, CreationStep, UpdateApplicationStep,
     UpdateApplicationPolicyStep, RegrantFieldsStep, SaveApplicationStep,
     UpdateApplicationSubmissionStep, SaveSubmissionStep, ReopenSubmissionStep, HangUpStep
<1> QED
  BY <1>1, <1>2, <1>3, <1>4 DEF Next

\* The inductive invariant holds in every reachable state, for any number of
\* requests, applications, submissions, provisioned clients, fields and faults.
THEOREM Inductive == Spec => []IInv
<1>1. Init => IInv
  BY InitStep
<1>2. IInv /\ [Next]_vars => IInv'
  BY NextStep
<1> QED
  BY <1>1, <1>2, PTL DEF Spec

\* Tables, accounts, grants and request states keep their types.
THEOREM TypeCorrect == Spec => []TypeOK
<1>1. IInv => TypeOK
  BY DEF IInv
<1> QED
  BY <1>1, Inductive, PTL

\* A successful CreateApplication stays complete in all three systems.
THEOREM Complete == Spec => []ConfirmedIsComplete
<1>1. IInv => ConfirmedIsComplete
  BY DEF IInv
<1> QED
  BY <1>1, Inductive, PTL

\* The PDP has granted what the row of an application lists: the row lists what
\* an update was granted or what was asked for, and a successful creation was
\* granted the latter (UpdateApplicationPolicy, service.go:257-262).
THEOREM FieldsGranted == Spec => []SelectedFieldsGranted
<1>1. IInv => SelectedFieldsGranted
  BY DEF IInv, SelectedFieldsGranted, ConfirmedIsComplete, RowsOK, TypeOK
<1> QED
  BY <1>1, Inductive, PTL

\* No compensation deletes a client that was provisioned outside.
THEOREM Kept == Spec => []ProvisionedKept
<1>1. IInv => ProvisionedKept
  BY DEF IInv, AccountsOK, ProvisionedKept
<1> QED
  BY <1>1, Inductive, PTL

\* Every account left without an application has its excuse on record.
THEOREM AccountsAccounted == Spec => []NoStrayAccount
<1>1. IInv => NoStrayAccount
  BY DEF IInv
<1> QED
  BY <1>1, Inductive, PTL

\* Every row of a failed creation has its excuse on record.
THEOREM RowsAccounted == Spec => []NoStrayRow
<1>1. IInv => NoStrayRow
  BY DEF IInv
<1> QED
  BY <1>1, Inductive, PTL

\* A submission that stands approved has led to an application.
THEOREM ApprovalsHonoured == Spec => []ApprovedHasApplication
<1>1. IInv => ApprovedHasApplication
  BY DEF IInv
<1> QED
  BY <1>1, Inductive, PTL

-----------------------------------------------------------------------------
(* What a step may do to one creation, apart from the invariant.           *)

\* A creation is begun once, and what happens to it later is remembered.
Progress(n) ==
    /\ mishaps[n] \subseteq mishaps'[n]
    /\ order[n] # Nil => order'[n] = order[n]
    /\ n \in confirmed => n \in confirmed'
    /\ n \in confirmed' => n \in confirmed \/ Underway(n)
    /\ Underway(n)' => Underway(n) \/ order[n] = Nil
    /\ n \in accounts' => n \in accounts \/ Underway(n)
    /\ \/ granted'[n] = granted[n]
       \/ n \in confirmed'
       \/ mishaps'[n] \cap KeepsGrant # {}
    /\ mishaps'[n] = mishaps[n] \/ order[n] # Nil
    /\ \/ order'[n] = order[n]
       \/ /\ Underway(n)'
          /\ UNCHANGED <<accounts, applications, granted, mishaps, confirmed>>

\* The creations that are under way are those that requests own.
LEMMA OwningIsUnderway ==
    ASSUME NEW n \in Applications
    PROVE  /\ Underway(n) <=> \E q \in Requests : task[q].app = n /\ task[q].at \in Owning
           /\ Underway(n)' <=> \E q \in Requests : task'[q].app = n /\ task'[q].at \in Owning
BY DEF Underway, Owning

\* Only the request that takes the step has to be looked at.
LEMMA UnderwayStays ==
    ASSUME NEW n \in Applications, NEW r \in Requests,
           \A q \in Requests \ {r} : task'[q] = task[q],
           task'[r].at \in Owning => task[r].at \in Owning /\ task'[r].app = task[r].app
    PROVE  Underway(n)' => Underway(n)
BY OwningIsUnderway

\* A step that touches neither orders nor outcomes.
LEMMA QuietProgress ==
    ASSUME NEW n \in Applications,
           order'[n] = order[n],
           UNCHANGED <<confirmed, accounts, granted>>,
           mishaps[n] \subseteq mishaps'[n],
           mishaps'[n] = mishaps[n] \/ order[n] # Nil,
           Underway(n)' => Underway(n)
    PROVE  Progress(n)
BY DEF Progress

\* What each step of a creation grants and records.
LEMMA CreationRecords ==
    ASSUME IInv, NEW r \in Requests, Creation(r), NEW n \in Applications
    PROVE  /\ mishaps[n] \subseteq mishaps'[n]
           /\ n # task[r].app => mishaps'[n] = mishaps[n]
           /\ \/ granted'[n] = granted[n]
              \/ n \in confirmed'
              \/ mishaps'[n] \cap KeepsGrant # {}
<1> USE DEF IInv
<1> DEFINE m == task[r].app
<1>m. CreationMove(r)
  BY CreationMoves
<1>n. m \in Applications /\ order[m] # Nil /\ order[m].client \in {m} \cup Provisioned
  BY <1>m, OwnedApplication
<1>1. \E result : Record(r, result)
  BY DEF Creation, CreateAccount, AssignRole, DiscardAccount, InsertApplication,
         GrantFields, DeleteApplication, DeleteAccount
<1>2. mishaps[n] \subseteq mishaps'[n] /\ (n # m => mishaps'[n] = mishaps[n])
  BY <1>1, <1>n, RecordRecords
<1>3. CASE GrantFields(r)
  <2>1. PICK result \in Endings :
          /\ Record(r, result)
          /\ granted' = IF ~ TookEffect(result) THEN granted
                ELSE [granted EXCEPT ![order[m].client] = @ \cup order[m].fields]
          /\ confirmed' = IF result = "done" THEN confirmed \cup {m} ELSE confirmed
    BY <1>3 DEF GrantFields
  <2>2. task[r].at = "grant"
    BY <1>3 DEF GrantFields
  <2>3. CASE n # m
    <3>1. n # order[m].client
      BY <2>3, <1>n, ConstantsAssumption DEF ConstantsAssumption
    <3>2. granted'[n] = granted[n]
      BY <2>1, <3>1 DEF TypeOK, Accounts
    <3> QED
      BY <3>2, <1>2
  <2>4. CASE n = m /\ result = "done"
    BY <2>1, <2>4, <1>2
  <2>5. CASE n = m /\ result = "lost"
    <3>1. <<"grant", "lost">> \in Mishap /\ <<"grant", "lost">> \in KeepsGrant
      BY DEF Mishap, KeepsGrant
    <3>2. <<task[r].at, result>> = <<"grant", "lost">>
      BY <2>2, <2>5
    <3>3. <<"grant", "lost">> \in mishaps'[n]
      BY <2>1, <2>5, <3>1, <3>2, <1>n, RecordRecords
    <3> QED
      BY <3>1, <3>3, <1>2
  <2>6. CASE n = m /\ result = "refused"
    BY <2>1, <2>6, <1>2 DEF TookEffect
  <2> QED
    BY <2>1, <2>3, <2>4, <2>5, <2>6 DEF Endings
<1>4. CASE ~ GrantFields(r)
  <2>1. granted' = granted
    BY <1>4 DEF Creation, CreateAccount, AssignRole, DiscardAccount, InsertApplication,
                DeleteApplication, DeleteAccount
  <2> QED
    BY <2>1, <1>2
<1> QED
  BY <1>3, <1>4

\* A step of a creation.
LEMMA CreationProgress ==
    ASSUME IInv, NEW r \in Requests, Creation(r), NEW n \in Applications
    PROVE  Progress(n)
<1> USE DEF IInv
<1> DEFINE m == task[r].app
<1>1. CreationMove(r)
  BY CreationMoves
<1>2. m \in Applications /\ order[m] # Nil /\ task[r].at \in Owning
  BY <1>1, OwnedApplication
<1>3. Local(r)
  BY CreateAccountRight, AssignRoleRight, DiscardAccountRight, InsertApplicationRight,
     GrantFieldsRight, DeleteApplicationRight, DeleteAccountRight DEF Creation
<1>4. n = m => Underway(n) /\ order[n] # Nil
  BY <1>2, OwningIsUnderway
<1>5. Underway(n)' => Underway(n)
  <2>1. \A q \in Requests \ {r} : task'[q] = task[q]
    BY <1>1 DEF CreationMove, Answered, Moved
  <2>2. task'[r].at \in Owning => task'[r].app = m
    BY <1>1, IdleFacts, ReopenFacts DEF CreationMove, Answered, Moved
  <2> QED
    BY <2>1, <2>2, <1>2, UnderwayStays
<1>6. order' = order /\ confirmed \subseteq confirmed'
  BY <1>1 DEF CreationMove
<1>7. n # m => (n \in confirmed' <=> n \in confirmed) /\ (n \in accounts' <=> n \in accounts)
  BY <1>3 DEF Local
<1> QED
  BY <1>4, <1>5, <1>6, <1>7, CreationRecords DEF Progress

\* A creation is asked for by a caller.
LEMMA CreateApplicationProgress ==
    ASSUME IInv, NEW r \in Requests, CreateApplication(r), NEW n \in Applications
    PROVE  Progress(n)
<1> USE DEF IInv
<1>a. PICK m \in Applications, fields \in FieldLists :
        \E client \in {m} \cup Provisioned :
           /\ order[m] = Nil
           /\ order' = [order EXCEPT ![m] =
                 [client |-> client, fields |-> fields, submission |-> Nil]]
           /\ task' = [task EXCEPT ![r].app = m,
                 ![r].at = IF client = m THEN "account" ELSE "insert"]
  BY DEF CreateApplication
<1>1. PICK client \in {m} \cup Provisioned :
        /\ order[m] = Nil
        /\ order' = [order EXCEPT ![m] =
              [client |-> client, fields |-> fields, submission |-> Nil]]
        /\ task' = [task EXCEPT ![r].app = m,
              ![r].at = IF client = m THEN "account" ELSE "insert"]
  BY <1>a
<1>2. UNCHANGED <<accounts, assigned, granted, applications, submissions,
                  confirmed, mishaps, faults, strained, hungUp>>
  BY DEF CreateApplication
<1>3. /\ task'[r].at \in Owning /\ task'[r].app = m
      /\ \A q \in Requests \ {r} : task'[q] = task[q]
  BY <1>1 DEF TypeOK, Task, Owning, Forward
<1>4. \A k \in Applications \ {m} : order'[k] = order[k]
  BY <1>1 DEF TypeOK
<1>5. CASE n = m
  BY <1>1, <1>2, <1>3, <1>5, OwningIsUnderway DEF Progress
<1>6. CASE n # m
  <2>1. Underway(n)' => Underway(n)
    BY <1>3, <1>6, OwningIsUnderway
  <2> QED
    BY <2>1, <1>2, <1>4, <1>6, QuietProgress
<1> QED
  BY <1>5, <1>6

\* A creation is asked for by an approval; other reviews ask for none.
LEMMA ReviewProgress ==
    ASSUME IInv, NEW r \in Requests, UpdateApplicationSubmission(r), NEW n \in Applications
    PROVE  Progress(n)
<1> USE DEF IInv
<1>1. PICK m \in Applications \cup {Nil} :
        /\ task'[r].at = "save submission" /\ task'[r].app = m
        /\ \A q \in Requests \ {r} : task'[q] = task[q]
        /\ \/ m = Nil /\ order' = order
           \/ /\ m \in Applications
              /\ order[m] = Nil
              /\ \A k \in Applications \ {m} : order'[k] = order[k]
  <2>0. PICK s \in Submissions, status \in Statuses \cup {Nil},
             fields \in FieldLists \cup {Nil}, previous \in Existing \cup {Nil} :
          LET loaded == submissions[s]
              draft  == [status   |-> Updated(loaded.status, status),
                         fields   |-> Updated(loaded.fields, fields),
                         previous |-> Updated(loaded.previous, previous)]
              Begin(m) == task' = [task EXCEPT ![r].at = "save submission",
                             ![r].app = m, ![r].sub = s, ![r].draft = draft]
          IN
          /\ loaded # Nil
          /\ strained' = IF \E q \in Requests : task[q].sub = s
                         THEN strained \cup {s} ELSE strained
          /\ \/ /\ status # "approved"
                /\ Begin(Nil)
                /\ UNCHANGED order
             \/ /\ status = "approved"
                /\ \E m \in Applications :
                      /\ order[m] = Nil
                      /\ order' = [order EXCEPT ![m] =
                            [client |-> m, fields |-> draft.fields, submission |-> s]]
                      /\ Begin(m)
    BY DEF UpdateApplicationSubmission
  <2> DEFINE draft == [status   |-> Updated(submissions[s].status, status),
                       fields   |-> Updated(submissions[s].fields, fields),
                       previous |-> Updated(submissions[s].previous, previous)]
             Begun(m) == [task EXCEPT ![r].at = "save submission",
                             ![r].app = m, ![r].sub = s, ![r].draft = draft]
             Asked(m) == [client |-> m, fields |-> draft.fields, submission |-> s]
  <2>1. PICK m \in Applications \cup {Nil} :
          /\ task' = Begun(m)
          /\ \/ m = Nil /\ order' = order
             \/ /\ m \in Applications
                /\ order[m] = Nil
                /\ order' = [order EXCEPT ![m] = Asked(m)]
    BY <2>0
  <2> HIDE DEF draft, Asked
  <2>2. task'[r].at = "save submission" /\ task'[r].app = m
    <3>1. task'[r] = [task[r] EXCEPT !.at = "save submission", !.app = m,
                                     !.sub = s, !.draft = draft]
      BY <2>1 DEF TypeOK
    <3>2. task[r] \in Task
      BY DEF TypeOK
    <3> QED
      BY <3>1, <3>2 DEF Task
  <2>3. \A q \in Requests \ {r} : task'[q] = task[q]
    BY <2>1 DEF TypeOK
  <2>4. m \in Applications => \A k \in Applications \ {m} : order'[k] = order[k]
    BY <2>1 DEF TypeOK
  <2> QED
    BY <2>1, <2>2, <2>3, <2>4
<1>2. UNCHANGED <<accounts, assigned, granted, applications, submissions,
                  confirmed, mishaps, faults, hungUp>>
  BY DEF UpdateApplicationSubmission
<1>3. task'[r].at \in Owning
  BY <1>1 DEF Owning
<1>4. CASE n = m
  <2>1. order[n] = Nil
    BY <1>1, <1>4, ConstantsAssumption DEF ConstantsAssumption
  <2> QED
    BY <2>1, <1>1, <1>2, <1>3, <1>4, OwningIsUnderway DEF Progress
<1>5. CASE n # m
  <2>1. Underway(n)' => Underway(n)
    BY <1>1, <1>5, OwningIsUnderway
  <2>2. order'[n] = order[n]
    BY <1>1, <1>5
  <2> QED
    BY <2>1, <2>2, <1>2, QuietProgress
<1> QED
  BY <1>4, <1>5

\* Updates that load their row, and reviews that save, own no more than before.
LEMMA LoadProgress ==
    ASSUME IInv, NEW r \in Requests, NEW n \in Applications,
           \/ UpdateApplication(r) \/ UpdateApplicationPolicy(r)
           \/ SaveSubmission(r) \/ ReopenSubmission(r) \/ HangUp(r)
    PROVE  Progress(n)
<1> USE DEF IInv
<1>1. UNCHANGED <<accounts, granted, order, confirmed, mishaps>>
  BY DEF UpdateApplication, UpdateApplicationPolicy, SaveSubmission, ReopenSubmission, HangUp
<1>2. /\ \A q \in Requests \ {r} : task'[q] = task[q]
      /\ task'[r].at \in Owning => task[r].at \in Owning /\ task'[r].app = task[r].app
  <2>1. CASE UpdateApplication(r) \/ UpdateApplicationPolicy(r)
    <3>1. \E x \in {"save row", "regrant"} :
            \E m, draft : task' = [task EXCEPT ![r].at = x, ![r].app = m, ![r].draft = draft]
      <4>1. CASE UpdateApplication(r)
        BY <4>1 DEF UpdateApplication
      <4>2. CASE UpdateApplicationPolicy(r)
        BY <4>2 DEF UpdateApplicationPolicy
      <4> QED
        BY <2>1, <4>1, <4>2
    <3>2. PICK x \in {"save row", "regrant"} :
            task'[r].at = x /\ \A q \in Requests \ {r} : task'[q] = task[q]
      BY <3>1 DEF TypeOK, Task
    <3> QED
      BY <3>2 DEF Owning, Forward, Undoing
  <2>2. CASE SaveSubmission(r)
    <3>1. task[r].at = "save submission" /\ (GoTo(r, "account") \/ Answer(r))
      BY <2>2 DEF SaveSubmission
    <3>2. Moved(r, "account") \/ Answered(r)
      BY <3>1, GoToMoves, AnswerAnswers DEF Steps, Forward
    <3> QED
      BY <3>1, <3>2, IdleFacts DEF Moved, Answered, Owning
  <2>3. CASE ReopenSubmission(r)
    <3>1. Answered(r)
      BY <2>3, AnswerAnswers DEF ReopenSubmission
    <3> QED
      BY <3>1, IdleFacts DEF Answered
  <2>4. CASE HangUp(r)
    BY <2>4 DEF HangUp
  <2> QED
    BY <2>1, <2>2, <2>3, <2>4
<1>3. Underway(n)' => Underway(n)
  BY <1>2, UnderwayStays
<1> QED
  BY <1>1, <1>3, QuietProgress

\* An update asks for the grant of the client that its row names.
LEMMA RegrantProgress ==
    ASSUME IInv, NEW r \in Requests, RegrantFields(r), NEW n \in Applications
    PROVE  Progress(n)
<1> USE DEF IInv
<1> DEFINE m     == task[r].app
           draft == task[r].draft
           w     == <<"grant", "by an update">>
<1>1. PICK result \in Endings :
        /\ granted' = IF ~ TookEffect(result) THEN granted
              ELSE [granted EXCEPT ![draft.client] = @ \cup draft.fields]
        /\ mishaps' = IF ~ TookEffect(result) \/ m \in confirmed \/ draft.client # m
              THEN mishaps
              ELSE [mishaps EXCEPT ![m] = @ \cup {w}]
        /\ IF result = "done" THEN GoTo(r, "save row") ELSE Answer(r)
  BY DEF RegrantFields
<1>2. /\ UNCHANGED <<accounts, order, confirmed>>
      /\ task[r].at = "regrant"
  BY DEF RegrantFields
<1>3. /\ m \in Applications /\ order[m] # Nil
      /\ draft.client = order[m].client
      /\ draft.client \in {m} \cup Provisioned
  BY <1>2, ConstantsAssumption DEF TaskOK, Fits, OwnersOK, ConstantsAssumption
<1>4. Moved(r, "save row") \/ Answered(r)
  BY <1>1, GoToMoves, AnswerAnswers DEF Steps, Saving
<1>5. Underway(n)' => Underway(n)
  <2>1. "save row" \notin Owning
    BY DEF Owning, Forward, Undoing
  <2> QED
    BY <2>1, <1>4, IdleFacts, UnderwayStays DEF Moved, Answered
<1>6. mishaps[n] \subseteq mishaps'[n] /\ (n # m => mishaps'[n] = mishaps[n])
  BY <1>1, <1>3 DEF TypeOK
<1>7. mishaps'[n] = mishaps[n] \/ order[n] # Nil
  BY <1>3, <1>6
<1>8. \/ granted'[n] = granted[n]
      \/ n \in confirmed'
      \/ mishaps'[n] \cap KeepsGrant # {}
  <2>1. CASE n # draft.client \/ ~ TookEffect(result)
    BY <2>1, <1>1 DEF TypeOK, Accounts
  <2>2. CASE n = draft.client /\ TookEffect(result)
    <3>1. n = m
      BY <2>2, <1>3, ConstantsAssumption DEF ConstantsAssumption
    <3>2. CASE n \notin confirmed
      <4>1. mishaps' = [mishaps EXCEPT ![n] = mishaps[n] \cup {w}]
        BY <1>1, <2>2, <3>1, <3>2
      <4>2. w \in mishaps'[n]
        BY <4>1 DEF TypeOK
      <4> QED
        BY <4>2 DEF KeepsGrant
    <3> QED
      BY <3>2, <1>2
  <2> QED
    BY <2>1, <2>2
<1> QED
  BY <1>2, <1>5, <1>6, <1>7, <1>8 DEF Progress

\* An update saves its copy of the row.
LEMMA SaveProgress ==
    ASSUME IInv, NEW r \in Requests, SaveApplication(r), NEW n \in Applications
    PROVE  Progress(n)
<1> USE DEF IInv
<1> DEFINE m == task[r].app
<1>1. /\ UNCHANGED <<accounts, granted, order, confirmed>>
      /\ task[r].at = "save row"
      /\ Answer(r)
      /\ \/ mishaps' = mishaps
         \/ mishaps' = [mishaps EXCEPT ![m] = @ \cup {<<"row", "saved again">>}]
  BY DEF SaveApplication
<1>2. m \in Applications /\ order[m] # Nil
  BY <1>1, ConstantsAssumption DEF TaskOK, Fits, OwnersOK, ConstantsAssumption
<1>3. Underway(n)' => Underway(n)
  <2>1. Answered(r)
    BY <1>1, AnswerAnswers
  <2> QED
    BY <2>1, IdleFacts, UnderwayStays DEF Answered
<1>4. mishaps[n] \subseteq mishaps'[n] /\ (mishaps'[n] = mishaps[n] \/ order[n] # Nil)
  BY <1>1, <1>2 DEF TypeOK
<1> QED
  BY <1>1, <1>3, <1>4, QuietProgress

\* A crash stops every creation that is under way, and is remembered.
LEMMA CrashProgress ==
    ASSUME IInv, Crash, NEW n \in Applications
    PROVE  Progress(n)
<1> USE DEF IInv
<1>1. /\ UNCHANGED <<accounts, granted, order, confirmed>>
      /\ \A r \in Requests : task'[r] = IdleTask
      /\ mishaps[n] \subseteq mishaps'[n]
      /\ Creating(n) \/ mishaps'[n] = mishaps[n]
  BY DEF Crash
<1>2. ~ Underway(n)'
  BY <1>1, IdleFacts, OwningIsUnderway
<1>3. Creating(n) => order[n] # Nil
  BY ConstantsAssumption DEF Creating, OwnersOK, ConstantsAssumption
<1> QED
  BY <1>1, <1>2, <1>3, QuietProgress

\* Every step is progress of every creation, if only by leaving it alone.
LEMMA StepProgress ==
    ASSUME IInv, [Next]_vars, NEW n \in Applications
    PROVE  Progress(n)
<1>1. CASE CreateApplicationSubmission \/ UNCHANGED vars
  <2>1. UNCHANGED <<accounts, granted, task, order, confirmed, mishaps>>
    BY <1>1 DEF CreateApplicationSubmission, vars
  <2>2. Underway(n)' => Underway(n)
    BY <2>1 DEF Underway
  <2> QED
    BY <2>1, <2>2, QuietProgress
<1>2. CASE Crash
  BY <1>2, CrashProgress
<1>3. ASSUME NEW r \in Requests,
             \/ CreateApplication(r)
             \/ Creation(r)
             \/ UpdateApplication(r)
             \/ UpdateApplicationPolicy(r)
             \/ RegrantFields(r)
             \/ SaveApplication(r)
             \/ UpdateApplicationSubmission(r)
             \/ SaveSubmission(r)
             \/ ReopenSubmission(r)
             \/ HangUp(r)
      PROVE  Progress(n)
  BY <1>3, CreateApplicationProgress, CreationProgress, LoadProgress, RegrantProgress,
     SaveProgress, ReviewProgress
<1> QED
  BY <1>1, <1>2, <1>3 DEF Next

-----------------------------------------------------------------------------
(* Grants that failed creations leave.                                     *)

\* Nothing has gone wrong with a creation that nobody has asked for.
Unasked == \A n \in Applications : order[n] = Nil => mishaps[n] = {}

RInv == IInv /\ NoStrayGrant /\ Unasked

LEMMA RInvStep ==
    ASSUME RInv, [Next]_vars
    PROVE  RInv'
<1>1. IInv'
  BY NextStep DEF RInv
<1>2. \A n \in Applications : Progress(n)
  BY StepProgress DEF RInv
<1>3. NoStrayGrant'
  <2> SUFFICES ASSUME NEW n \in Applications
               PROVE  \/ granted'[n] = {}
                      \/ n \in confirmed'
                      \/ mishaps'[n] \cap KeepsGrant # {}
    BY DEF NoStrayGrant
  <2>1. \/ granted[n] = {}
        \/ n \in confirmed
        \/ mishaps[n] \cap KeepsGrant # {}
    BY DEF RInv, NoStrayGrant
  <2> QED
    BY <2>1, <1>2 DEF Progress
<1>4. Unasked'
  BY <1>2 DEF RInv, Unasked, Progress
<1> QED
  BY <1>1, <1>3, <1>4 DEF RInv

\* RInv is an invariant: the PDP holds no grant for the account of a failed
\* creation that its record does not explain.
LEMMA RInvInvariant == Spec => []RInv
<1>1. Init => RInv
  <2>1. Init => NoStrayGrant /\ Unasked
    BY DEF Init, NoStrayGrant, Unasked, Accounts
  <2> QED
    BY <2>1, InitStep DEF RInv
<1>2. RInv /\ [Next]_vars => RInv'
  BY RInvStep
<1> QED
  BY <1>1, <1>2, PTL DEF Spec

\* Every grant that a failed creation leaves with the PDP is one whose answer
\* was lost, or one that an update asked for before the row was deleted.
THEOREM GrantsAccounted == Spec => []NoStrayGrant
<1>1. RInv => NoStrayGrant
  BY DEF RInv
<1> QED
  BY <1>1, RInvInvariant, PTL

-----------------------------------------------------------------------------
(* The saga implements all-or-nothing creation.                            *)

\* What Creation sees of n.
There(n) == IF n \in confirmed THEN AsAsked(n) ELSE Found(n)

\* The parts, one by one, before and after a step.
LEMMA PartByPart ==
    ASSUME NEW n \in Applications
    PROVE  /\ Found(n) \subseteq Parts
           /\ "account" \in Found(n) <=> n \in accounts
           /\ "row" \in Found(n) <=> applications[n] # Nil
           /\ "grants" \in Found(n) <=> granted[n] # {}
           /\ "account" \in MayStay(n) <=> mishaps[n] \cap KeepsAccount # {}
           /\ "row" \in MayStay(n) <=> mishaps[n] \cap KeepsRow # {}
           /\ "grants" \in MayStay(n) <=> mishaps[n] \cap KeepsGrant # {}
           /\ MayStay(n) \subseteq Parts
BY DEF Found, MayStay, Parts

\* What RInv says of one creation.
Settled(n) ==
    /\ Found(n) \subseteq Parts
    /\ n \in confirmed => Parts \subseteq There(n)
    /\ n \notin confirmed /\ ~ Underway(n) => There(n) \subseteq MayStay(n)
    /\ order[n] = Nil =>
          /\ n \notin confirmed /\ ~ Underway(n)
          /\ There(n) = {} /\ MayStay(n) = {}

LEMMA InvSettles ==
    ASSUME NEW n \in Applications
    PROVE  RInv => Settled(n)
<1> SUFFICES ASSUME RInv
             PROVE  Settled(n)
  OBVIOUS
<1> USE DEF RInv, IInv
<1>1. ASSUME n \in confirmed
      PROVE  Parts \subseteq There(n)
  <2> DEFINE c == order[n].client
  <2>1. /\ applications[n] # Nil /\ applications[n].client = c
        /\ c \in accounts
        /\ AssignsRole /\ c = n => n \in assigned
        /\ order[n].fields \subseteq granted[c]
    BY <1>1 DEF ConfirmedIsComplete, ExternallyProvisioned
  <2>2. There(n) = AsAsked(n)
    BY <1>1 DEF There
  <2> QED
    BY <2>1, <2>2 DEF AsAsked, Parts
<1>2. ASSUME n \notin confirmed, ~ Underway(n)
      PROVE  There(n) \subseteq MayStay(n)
  <2>1. ~ Creating(n)
    BY <1>2 DEF Creating, Underway
  <2>2. n \in accounts => mishaps[n] \cap KeepsAccount # {}
    BY <1>2, <2>1 DEF NoStrayAccount
  <2>3. applications[n] # Nil => mishaps[n] \cap KeepsRow # {}
    BY <1>2, <2>1 DEF NoStrayRow
  <2>4. granted[n] # {} => mishaps[n] \cap KeepsGrant # {}
    BY <1>2 DEF NoStrayGrant
  <2> QED
    BY <1>2, <2>2, <2>3, <2>4, PartByPart DEF There, Parts
<1>3. ASSUME order[n] = Nil
      PROVE  /\ n \notin confirmed /\ ~ Underway(n)
             /\ There(n) = {} /\ MayStay(n) = {}
  <2>1. n \notin confirmed
    BY <1>3 DEF RowsOK
  <2>2. ~ Underway(n)
    BY <1>3, ConstantsAssumption DEF Underway, OwnersOK, ConstantsAssumption
  <2>3. mishaps[n] = {}
    BY <1>3 DEF Unasked
  <2>4. MayStay(n) = {}
    BY <2>3, PartByPart DEF Parts
  <2> QED
    BY <2>1, <2>2, <2>4, <1>2
<1> QED
  BY <1>1, <1>2, <1>3, PartByPart DEF Settled

\* The same after a step, and the parts by name.
LEMMA SettlesAgain ==
    ASSUME NEW n \in Applications
    PROVE  /\ (RInv => Settled(n))'
           /\ ("account" \in Found(n))' <=> n \in accounts'
<1>1. RInv => Settled(n)
  BY InvSettles
<1>2. (RInv => Settled(n))'
  BY <1>1, PTL
<1>3. ("account" \in Found(n))' <=> n \in accounts'
  BY DEF Found, Parts
<1> QED
  BY <1>2, <1>3

\* Mishaps are remembered, and the parts that may stay with them.
LEMMA MayStayGrows ==
    ASSUME NEW n \in Applications, mishaps[n] \subseteq mishaps'[n]
    PROVE  MayStay(n) \subseteq MayStay(n)'
BY DEF MayStay, Parts

\* Every step of the saga is, for each creation, one that Creation allows.
LEMMA StepRefines ==
    ASSUME RInv, RInv', [Next]_vars, NEW n \in Applications
    PROVE  AllOrNothing!Step(n)
<1>p. Progress(n)
  BY StepProgress DEF RInv
<1>s. Settled(n) /\ Settled(n)'
  BY InvSettles, SettlesAgain
<1>m. MayStay(n) \subseteq MayStay(n)'
  BY <1>p, MayStayGrows DEF Progress
<1>1. CASE n \in confirmed
  <2>1. PhaseOf(n) = "complete" /\ PhaseOf(n)' = "complete" /\ n \in confirmed'
    BY <1>1, <1>p DEF PhaseOf, Progress
  <2>2. Parts \subseteq There(n)'
    BY <2>1, <1>s DEF Settled
  <2>3. AllOrNothing!Keep(n)
    BY <2>1, <2>2, <1>m DEF AllOrNothing!Keep, AllOrNothing!Remembers, AllOrNothing!Whole, There
  <2> QED
    BY <2>3 DEF AllOrNothing!Step
<1>2. CASE n \notin confirmed /\ Underway(n)
  <2>1. PhaseOf(n) = "underway" /\ order[n] # Nil
    BY <1>2, <1>s DEF PhaseOf, Settled
  <2>2. CASE n \in confirmed'
    <3>1. PhaseOf(n)' = "complete"
      BY <2>2 DEF PhaseOf
    <3>2. Parts \subseteq There(n)'
      BY <2>2, <1>s DEF Settled
    <3>3. AllOrNothing!Complete(n)
      BY <2>1, <3>1, <3>2, <1>m
         DEF AllOrNothing!Complete, AllOrNothing!Remembers, AllOrNothing!Whole, There
    <3> QED
      BY <3>3 DEF AllOrNothing!Step
  <2>3. CASE n \notin confirmed' /\ Underway(n)'
    <3>1. PhaseOf(n)' = "underway"
      BY <2>3 DEF PhaseOf
    <3>2. AllOrNothing!Work(n)
      BY <2>1, <3>1, <1>m DEF AllOrNothing!Work, AllOrNothing!Remembers
    <3> QED
      BY <3>2 DEF AllOrNothing!Step
  <2>4. CASE n \notin confirmed' /\ ~ Underway(n)'
    <3>1. PhaseOf(n)' = "closed"
      BY <2>1, <2>4, <1>p DEF PhaseOf, Progress
    <3>2. There(n)' \subseteq MayStay(n)'
      BY <2>4, <1>s DEF Settled
    <3>3. AllOrNothing!Fail(n)
      BY <2>1, <3>1, <3>2, <1>m
         DEF AllOrNothing!Fail, AllOrNothing!Remembers, AllOrNothing!Undone, There
    <3> QED
      BY <3>3 DEF AllOrNothing!Step
  <2> QED
    BY <2>2, <2>3, <2>4
<1>3. CASE n \notin confirmed /\ ~ Underway(n) /\ order[n] = Nil
  <2>1. PhaseOf(n) = "open" /\ n \notin confirmed'
    BY <1>3, <1>p DEF PhaseOf, Progress
  <2>2. CASE order'[n] = Nil
    <3>1. PhaseOf(n)' = "open"
      BY <2>2, <1>s DEF PhaseOf, Settled
    <3>2. There(n)' = There(n) /\ MayStay(n)' = MayStay(n)
      BY <2>2, <1>3, <1>s DEF Settled
    <3> QED
      BY <2>1, <3>1, <3>2 DEF AllOrNothing!Step, AllOrNothing!Same, There
  <2>3. CASE order'[n] # Nil
    <3>1. /\ Underway(n)'
          /\ UNCHANGED <<accounts, applications, granted, mishaps, confirmed>>
      BY <2>3, <1>3, <1>p DEF Progress
    <3>2. PhaseOf(n)' = "underway"
      BY <3>1, <2>1 DEF PhaseOf
    <3>3. There(n)' = There(n) /\ MayStay(n)' = MayStay(n)
      BY <3>1, <2>1, <1>3 DEF There, Found, MayStay
    <3>4. AllOrNothing!Begin(n)
      BY <2>1, <3>2, <3>3 DEF AllOrNothing!Begin, AllOrNothing!Same, There
    <3> QED
      BY <3>4 DEF AllOrNothing!Step
  <2> QED
    BY <2>2, <2>3
<1>4. CASE n \notin confirmed /\ ~ Underway(n) /\ order[n] # Nil
  <2>1. PhaseOf(n) = "closed" /\ PhaseOf(n)' = "closed" /\ n \notin confirmed' /\ ~ Underway(n)'
    BY <1>4, <1>p DEF PhaseOf, Progress
  <2>2. There(n)' \subseteq MayStay(n)'
    BY <2>1, <1>s DEF Settled
  <2>3. There(n)' \subseteq There(n) \cup {"row", "grants"}
    <3>1. There(n) = Found(n) /\ There(n)' = Found(n)' /\ Found(n)' \subseteq Parts
      BY <1>4, <2>1, <1>s DEF There, Settled
    <3>2. ("account" \in Found(n))' => "account" \in Found(n)
      BY <1>4, <1>p, PartByPart, SettlesAgain DEF Progress
    <3> QED
      BY <3>1, <3>2 DEF Parts
  <2>4. AllOrNothing!Rest(n)
    BY <2>1, <2>2, <2>3, <1>m
       DEF AllOrNothing!Rest, AllOrNothing!Remembers, AllOrNothing!Undone, There
  <2> QED
    BY <2>4 DEF AllOrNothing!Step
<1> QED
  BY <1>1, <1>2, <1>3, <1>4

\* Every call of every request, every crash and every hang-up is a step of the
\* all-or-nothing creation: what CreateApplication reported as created stays
\* created, and what failed is taken back but for the mishaps on record.
THEOREM Refinement == Spec => ImplementsCreation
<1>1. Init => AllOrNothing!Init
  <2> SUFFICES ASSUME Init
               PROVE  \A n \in Applications :
                         /\ PhaseOf(n) = "open"
                         /\ There(n) = {}
                         /\ MayStay(n) = {}
    BY DEF AllOrNothing!Init, There
  <2> TAKE n \in Applications
  <2>1. RInv /\ order[n] = Nil
    BY InitStep DEF Init, RInv, NoStrayGrant, Unasked, Accounts
  <2>2. Settled(n)
    BY <2>1, InvSettles
  <2> QED
    BY <2>1, <2>2 DEF Settled, PhaseOf
<1>2. RInv /\ RInv' /\ [Next]_vars => [AllOrNothing!Next]_(AllOrNothing!vars)
  BY StepRefines DEF AllOrNothing!Next
<1> QED
  BY <1>1, <1>2, RInvInvariant, PTL DEF Spec, ImplementsCreation, AllOrNothing!Spec

=============================================================================
