----------------------------- MODULE AtomicStore -----------------------------
(***************************************************************************)
(* What the memory store promises of the calls made on it: a call commits  *)
(* all of its rows at once or none of them, a call that returns has        *)
(* committed, a call that raises has not, and a crash takes back nothing   *)
(* that was committed.                                                     *)
(***************************************************************************)
CONSTANTS
    Call,        \* the calls made on the store
    Rows(_)      \* the rows a call writes

VARIABLES
    stored,      \* the rows that survive a crash
    outcome      \* how far each call has come

avars == <<stored, outcome>>

Init ==
    /\ stored = {}
    /\ outcome = [c \in Call |-> "ready"]

Start(c) ==
    /\ outcome[c] = "ready"
    /\ outcome' = [outcome EXCEPT ![c] = "running"]
    /\ UNCHANGED stored

Commit(c) ==
    /\ outcome[c] = "running"
    /\ stored' = stored \cup Rows(c)
    /\ outcome' = [outcome EXCEPT ![c] = "committed"]

Return(c) ==
    /\ outcome[c] = "committed"
    /\ outcome' = [outcome EXCEPT ![c] = "ok"]
    /\ UNCHANGED stored

Raise(c) ==
    /\ outcome[c] = "running"
    /\ outcome' = [outcome EXCEPT ![c] = "failed"]
    /\ UNCHANGED stored

Crash ==
    /\ outcome' = [c \in Call |->
           IF outcome[c] \in {"running", "committed"} THEN "lost" ELSE outcome[c]]
    /\ UNCHANGED stored

Next ==
    \/ \E c \in Call : Start(c) \/ Commit(c) \/ Return(c) \/ Raise(c)
    \/ Crash

Spec == Init /\ [][Next]_avars
==============================================================================
