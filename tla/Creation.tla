------------------------------ MODULE Creation ------------------------------
(***************************************************************************)
(* What the Portal Backend promises of everything it creates across        *)
(* systems that share no transaction: all or nothing.  A creation is asked *)
(* for, is under way, and ends once: complete, and then it stays so, or    *)
(* failed, and then no part of it is left behind.                          *)
(*                                                                         *)
(* The exceptions belong to the promise.  A part may stay behind, or come  *)
(* to differ from what was asked for, only after one of the mishaps that   *)
(* the detailed specification names for that part.  What the parts are,    *)
(* which calls make and undo them, requests, reviews and crashes are below *)
(* this level.                                                             *)
(***************************************************************************)
CONSTANTS
    Ids,       \* the ids of what is created
    Parts,     \* the parts of it, each in a system or a table of its own
    Reusable,  \* ids that may be asked for again when their creation has failed
    Returning  \* parts that a later request may bring back after a failure

VARIABLES
    phase,     \* of each id: "open" until it is asked for, "underway", "complete", "closed"
    there,     \* the parts there are of it; once complete, those that are as asked for
    mayStay,   \* the parts that a mishap may have left behind
    mayDrift   \* the parts that a mishap may have changed after the creation

vars == <<phase, there, mayStay, mayDrift>>

Init ==
    /\ phase = [n \in Ids |-> "open"]
    /\ there = [n \in Ids |-> {}]
    /\ mayStay = [n \in Ids |-> {}]
    /\ mayDrift = [n \in Ids |-> {}]

\* Nothing is left of a creation but what a mishap left behind.
Undone(n) == there[n] \subseteq mayStay[n]

\* Everything is as asked for but what a mishap has changed.
Whole(n) == Parts \subseteq there[n] \cup mayDrift[n]

-----------------------------------------------------------------------------
(* The steps of the creation n.                                            *)

Same(n) ==
    /\ there'[n] = there[n]
    /\ mayStay'[n] = mayStay[n]
    /\ mayDrift'[n] = mayDrift[n]

\* Mishaps are not forgotten.
Remembers(n) ==
    /\ mayStay[n] \subseteq mayStay'[n]
    /\ mayDrift[n] \subseteq mayDrift'[n]

Begin(n) ==
    /\ phase[n] = "open"
    /\ phase'[n] = "underway"
    /\ Same(n)

\* Parts are made and taken away again.
Work(n) ==
    /\ phase[n] = "underway"
    /\ phase'[n] = "underway"
    /\ Remembers(n)

Complete(n) ==
    /\ phase[n] = "underway"
    /\ phase'[n] = "complete"
    /\ Remembers(n)
    /\ Whole(n)'

Fail(n) ==
    /\ phase[n] = "underway"
    /\ phase'[n] = IF n \in Reusable THEN "open" ELSE "closed"
    /\ Remembers(n)
    /\ Undone(n)'

\* Later requests work on what was created; it stays whole.
Keep(n) ==
    /\ phase[n] = "complete"
    /\ phase'[n] = "complete"
    /\ Remembers(n)
    /\ Whole(n)'

\* After a failure some parts may come back, with the mishap that explains it.
Rest(n) ==
    /\ phase[n] = "closed" \/ (phase[n] = "open" /\ n \in Reusable)
    /\ phase'[n] = phase[n]
    /\ Remembers(n)
    /\ Undone(n)'
    /\ there'[n] \subseteq there[n] \cup Returning

Step(n) ==
    \/ phase'[n] = phase[n] /\ Same(n)
    \/ Begin(n)
    \/ Work(n)
    \/ Complete(n)
    \/ Fail(n)
    \/ Keep(n)
    \/ Rest(n)

\* One call may concern several creations, and a crash all that are under way.
Next == \A n \in Ids : Step(n)

Spec == Init /\ [][Next]_vars
=============================================================================
