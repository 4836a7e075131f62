----------------------------- MODULE AllowLists -----------------------------
(***************************************************************************)
(* What the Policy Decision Point promises about grants: every field that  *)
(* has policy metadata has an allow-list, a grant reaches all the fields   *)
(* it names in one step, and an entry leaves a list only by being revoked  *)
(* or with the field itself.  Rows, locks and transactions are below this  *)
(* level.                                                                  *)
(***************************************************************************)
CONSTANTS
    Keys,      \* the fields, of all schemas
    Apps,      \* applications
    Expiries,  \* the times at which grants may expire
    Nil        \* no list, no entry

VARIABLE lists \* of each field: the expiry of each application's entry

vars == <<lists>>

Entry     == Expiries \cup {Nil}
Empty     == [a \in Apps |-> Nil]
AllowList == [Apps -> Entry]

\* The fields that have policy metadata.
Known == {k \in Keys : lists[k] # Nil}

Init == lists = [k \in Keys |-> Nil]

\* The application may read all the fields of S until t.
Grant(app, S, t) ==
    /\ S \subseteq Known
    /\ lists' = [k \in Keys |->
                    IF k \in S THEN [lists[k] EXCEPT ![app] = t] ELSE lists[k]]

Revoke(app, k) ==
    /\ k \in Known
    /\ lists[k][app] # Nil
    /\ lists' = [lists EXCEPT ![k][app] = Nil]

\* Fields appear with an empty list and disappear with theirs; the lists of
\* the others are untouched.
Redefine(added, removed) ==
    /\ added \cap Known = {}
    /\ lists' = [k \in Keys |-> IF k \in added THEN Empty
                                ELSE IF k \in removed THEN Nil
                                ELSE lists[k]]

Next ==
    \/ \E app \in Apps, S \in SUBSET Keys, t \in Expiries : Grant(app, S, t)
    \/ \E app \in Apps, k \in Keys : Revoke(app, k)
    \/ \E added, removed \in SUBSET Keys : Redefine(added, removed)

Spec == Init /\ [][Next]_vars
=============================================================================
