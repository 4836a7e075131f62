----------------------- MODULE MCPolicyDecisionPoint -----------------------
(* Instances of PolicyDecisionPoint for TLC.                               *)
EXTENDS PolicyDecisionPoint, TLC

CONSTANTS s1, a1, a2

\* Both fields are in one schema.
OneSchema == [k \in Keys |-> s1]

\* The next tick passes the expiry of the shorter grant, not of the longer.
ShortAndLong == [d \in Durations |-> IF d = "30d" THEN {0} ELSE {1}]

Sync(f)         == [op |-> "sync", schema |-> s1, classes |-> f]
Grant(a, ks, d) == [op |-> "grant", app |-> a, keys |-> ks, duration |-> d]
Revoke(k, i, a) == [op |-> "revoke", key |-> k, id |-> i, app |-> a]
Patch(k, i, cl) == [op |-> "patch", key |-> k, id |-> i, class |-> cl]
Delete(k, i)    == [op |-> "delete", key |-> k, id |-> i]
Ask(a, ks)      == [op |-> "decide", app |-> a, keys |-> ks]

BothFields == Sync([k \in Keys |-> IF k = 1 THEN "allowlist" ELSE "allowlist_consent"])
OnlyFirst  == Sync([k \in Keys |-> IF k = 1 THEN "allowlist" ELSE Nil])
OnlySecond == Sync([k \in Keys |-> IF k = 2 THEN "allowlist_consent" ELSE Nil])
Unloaded   == Sync([k \in Keys |-> IF k = 1 THEN "unknown" ELSE Nil])

\* The requests that write, and those the service refuses.
WriterCalls ==
    {BothFields, OnlyFirst, OnlySecond, Unloaded,
     Grant(a1, {1, 2}, "30d"), Grant(a2, {1}, "365d"),
     Grant(a1, {}, "30d"), Grant(a1, {1}, "other"),
     Revoke(1, 1, a1), Revoke(1, 2, a2), Delete(1, 1),
     Patch(1, 1, "allowlist_consent"), Patch(1, 1, "unknown")}

\* Decisions while fields, grants and classes change and grants expire.
ReaderCalls ==
    {BothFields, OnlySecond, Grant(a1, {1, 2}, "30d"), Patch(2, 1, "allowlist"),
     Ask(a1, {1, 2})}

\* Two versions of the schema.
SyncCalls == {OnlyFirst, OnlySecond}

Symmetry == Permutations(Requests)
=============================================================================
