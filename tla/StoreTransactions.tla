-------------------------- MODULE StoreTransactions --------------------------
(***************************************************************************)
(* How SQLiteMemoryStore makes the calls of the memory service atomic: one *)
(* SQLite connection and one _transaction_depth, shared by all the threads *)
(* that hold the store (the connection is opened with                      *)
(* check_same_thread=False, and the web lab runs its handlers on a thread  *)
(* pool).  A call is either a block, whose statements run inside           *)
(* transaction() (record, correct, delete, grant, revoke), or a single, a  *)
(* lone audit record that is committed by _commit_if_needed (denials,      *)
(* duplicates, reads).                                                     *)
(*                                                                         *)
(* One step is one call into SQLite, or one read or write of               *)
(* _transaction_depth: the places where the interpreter may switch threads.*)
(* SQLite itself is external: a statement outside a transaction opens one  *)
(* first, BEGIN inside a transaction raises, COMMIT and ROLLBACK succeed,  *)
(* and a transaction that is open at a crash is gone.                      *)
(***************************************************************************)
EXTENDS Integers, FiniteSets

CONSTANTS
    Block,       \* the calls that use transaction()
    Single,      \* the calls that write one row outside of it
    Statements,  \* how many rows a block writes
    MaxInFlight, \* calls in flight at a time: 1 for a store with one caller
    MaxBlocks,   \* blocks among them
    MaxCrashes   \* crashes of the process

ASSUME StoreAssumption ==
    /\ Block \cap Single = {}
    /\ Statements \in Nat \ {0}
    /\ MaxInFlight \in Nat /\ MaxBlocks \in Nat /\ MaxCrashes \in Nat

Call == Block \cup Single

Rows(c) == {c} \X (1 .. IF c \in Block THEN Statements ELSE 1)

VARIABLES
    depth,       \* _transaction_depth
    open,        \* the connection is inside a transaction
    work,        \* the rows a reader of the connection sees
    durable,     \* the rows that survive a crash
    pc,          \* where each call is
    written,     \* how many rows each call has written
    nested,      \* the blocks that entered at a depth above zero
    overlapped,  \* the blocks that were in flight together with another block
    crashes

vars == <<depth, open, work, durable, pc, written, nested, overlapped, crashes>>

Ended == {"ok", "failed", "refused", "lost"}

Location ==
    {"ready", "begin", "begun", "body", "check", "commit", "raised", "reset",
     "undone"} \cup Ended

TypeOK ==
    /\ depth \in Int
    /\ open \in BOOLEAN
    /\ work \subseteq UNION {Rows(c) : c \in Call}
    /\ durable \subseteq work
    /\ pc \in [Call -> Location]
    /\ written \in [Call -> 0 .. Statements]
    /\ nested \subseteq Block
    /\ overlapped \subseteq Block
    /\ crashes \in 0 .. MaxCrashes

InFlight == {c \in Call : pc[c] \notin Ended \cup {"ready"}}

MoveTo(c, location) == pc' = [pc EXCEPT ![c] = location]

Init ==
    /\ depth = 0
    /\ open = FALSE
    /\ work = {}
    /\ durable = {}
    /\ pc = [c \in Call |-> "ready"]
    /\ written = [c \in Call |-> 0]
    /\ nested = {}
    /\ overlapped = {}
    /\ crashes = 0

-----------------------------------------------------------------------------
(* Entering a call.                                                        *)

MayStart(c) ==
    /\ pc[c] = "ready"
    /\ Cardinality(InFlight) < MaxInFlight
    /\ c \in Block => Cardinality(InFlight \cap Block) < MaxBlocks

Overlap(c) ==
    overlapped' =
        IF InFlight \cap Block = {} THEN overlapped
        ELSE overlapped \cup {c} \cup (InFlight \cap Block)

(* transaction() inside another transaction: only the depth is counted.    *)
EnterNested(c) ==
    /\ c \in Block
    /\ MayStart(c)
    /\ depth > 0
    /\ depth' = depth + 1
    /\ nested' = nested \cup {c}
    /\ Overlap(c)
    /\ MoveTo(c, "body")
    /\ UNCHANGED <<open, work, durable, written, crashes>>

EnterOuter(c) ==
    /\ c \in Block
    /\ MayStart(c)
    /\ depth <= 0
    /\ Overlap(c)
    /\ MoveTo(c, "begin")
    /\ UNCHANGED <<depth, open, work, durable, written, nested, crashes>>

(* Mutant: a transaction left open is rolled back instead of refused.      *)
BeginDiscarding(c) ==
    /\ pc[c] = "begin"
    /\ open' = TRUE
    /\ work' = durable
    /\ MoveTo(c, "begun")
    /\ UNCHANGED <<depth, durable, written, nested, overlapped, crashes>>

Begin(c) ==
    /\ pc[c] = "begin"
    /\ ~open
    /\ open' = TRUE
    /\ MoveTo(c, "begun")
    /\ UNCHANGED <<depth, work, durable, written, nested, overlapped, crashes>>

(* BEGIN inside a transaction raises, before the try block is entered.     *)
BeginRefused(c) ==
    /\ pc[c] = "begin"
    /\ open
    /\ MoveTo(c, "refused")
    /\ UNCHANGED <<depth, open, work, durable, written, nested, overlapped, crashes>>

SetDepth(c) ==
    /\ pc[c] = "begun"
    /\ depth' = 1
    /\ MoveTo(c, "body")
    /\ UNCHANGED <<open, work, durable, written, nested, overlapped, crashes>>

StartSingle(c) ==
    /\ c \in Single
    /\ MayStart(c)
    /\ MoveTo(c, "body")
    /\ UNCHANGED <<depth, open, work, durable, written, nested, overlapped, crashes>>

-----------------------------------------------------------------------------
(* Writing rows.  Every insert or update of the store ends in              *)
(* _commit_if_needed, which reads the depth and then may commit.           *)

LastRow(c) == IF c \in Block THEN Statements ELSE 1

Write(c) ==
    /\ pc[c] = "body"
    /\ written[c] < LastRow(c)
    /\ open' = TRUE
    /\ work' = work \cup {<<c, written[c] + 1>>}
    /\ written' = [written EXCEPT ![c] = @ + 1]
    /\ MoveTo(c, "check")
    /\ UNCHANGED <<depth, durable, nested, overlapped, crashes>>

(* A statement that raises, or what the service computes before it.  SQLite*)
(* may have opened a transaction for it.                                   *)
FailToWrite(c) ==
    /\ pc[c] = "body"
    /\ written[c] < LastRow(c)
    /\ open' \in {open, TRUE}
    /\ MoveTo(c, IF c \in Block THEN "raised" ELSE "failed")
    /\ UNCHANGED <<depth, work, durable, written, nested, overlapped, crashes>>

(* Mutant: the write commits whatever the depth is.                        *)
AlwaysCommit(c) ==
    /\ pc[c] = "check"
    /\ MoveTo(c, "commit")
    /\ UNCHANGED <<depth, open, work, durable, written, nested, overlapped, crashes>>

CommitIfNeeded(c) ==
    /\ pc[c] = "check"
    /\ MoveTo(c, IF depth = 0 THEN "commit" ELSE "body")
    /\ UNCHANGED <<depth, open, work, durable, written, nested, overlapped, crashes>>

CommitRow(c) ==
    /\ pc[c] = "commit"
    /\ durable' = work
    /\ open' = FALSE
    /\ MoveTo(c, "body")
    /\ UNCHANGED <<depth, work, written, nested, overlapped, crashes>>

-----------------------------------------------------------------------------
(* Leaving a call.                                                         *)

ReturnSingle(c) ==
    /\ c \in Single
    /\ pc[c] = "body"
    /\ written[c] = LastRow(c)
    /\ MoveTo(c, "ok")
    /\ UNCHANGED <<depth, open, work, durable, written, nested, overlapped, crashes>>

(* A nested block leaves its rows, all or some, to the outer transaction.  *)
ExitNested(c) ==
    /\ c \in nested
    /\ \/ pc[c] = "body" /\ written[c] = LastRow(c) /\ MoveTo(c, "ok")
       \/ pc[c] = "raised" /\ MoveTo(c, "failed")
    /\ depth' = depth - 1
    /\ UNCHANGED <<open, work, durable, written, nested, overlapped, crashes>>

(* Mutant: the block counts on _commit_if_needed to have committed.        *)
LeaveUncommitted(c) ==
    /\ c \in Block \ nested
    /\ pc[c] = "body"
    /\ written[c] = LastRow(c)
    /\ MoveTo(c, "reset")
    /\ UNCHANGED <<depth, open, work, durable, written, nested, overlapped, crashes>>

CommitBlock(c) ==
    /\ c \in Block \ nested
    /\ pc[c] = "body"
    /\ written[c] = LastRow(c)
    /\ durable' = work
    /\ open' = FALSE
    /\ MoveTo(c, "reset")
    /\ UNCHANGED <<depth, work, written, nested, overlapped, crashes>>

(* Mutant: the rollback also drops rows that earlier calls committed.      *)
RollbackEverything(c) ==
    /\ c \in Block \ nested
    /\ pc[c] = "raised"
    /\ work' = {}
    /\ open' = FALSE
    /\ MoveTo(c, "undone")
    /\ UNCHANGED <<depth, durable, written, nested, overlapped, crashes>>

Rollback(c) ==
    /\ c \in Block \ nested
    /\ pc[c] = "raised"
    /\ work' = durable
    /\ open' = FALSE
    /\ MoveTo(c, "undone")
    /\ UNCHANGED <<depth, durable, written, nested, overlapped, crashes>>

(* Mutant: the depth is restored after a commit only.                      *)
ResetDepthWhenCommitted(c) ==
    /\ pc[c] \in {"reset", "undone"}
    /\ depth' = IF pc[c] = "reset" THEN 0 ELSE depth
    /\ MoveTo(c, IF pc[c] = "reset" THEN "ok" ELSE "failed")
    /\ UNCHANGED <<open, work, durable, written, nested, overlapped, crashes>>

ResetDepth(c) ==
    /\ pc[c] \in {"reset", "undone"}
    /\ depth' = 0
    /\ MoveTo(c, IF pc[c] = "reset" THEN "ok" ELSE "failed")
    /\ UNCHANGED <<open, work, durable, written, nested, overlapped, crashes>>

(* The process dies and starts again on the same database file.            *)
Crash ==
    /\ crashes < MaxCrashes
    /\ crashes' = crashes + 1
    /\ depth' = 0
    /\ open' = FALSE
    /\ work' = durable
    /\ pc' = [c \in Call |-> IF c \in InFlight THEN "lost" ELSE pc[c]]
    /\ UNCHANGED <<durable, written, nested, overlapped>>

Next ==
    \/ \E c \in Call :
        \/ EnterNested(c) \/ EnterOuter(c) \/ Begin(c) \/ BeginRefused(c)
        \/ SetDepth(c) \/ StartSingle(c)
        \/ Write(c) \/ FailToWrite(c) \/ CommitIfNeeded(c) \/ CommitRow(c)
        \/ ReturnSingle(c) \/ ExitNested(c) \/ CommitBlock(c) \/ Rollback(c)
        \/ ResetDepth(c)
    \/ Crash

Spec == Init /\ [][Next]_vars

-----------------------------------------------------------------------------
(* Properties.                                                             *)

(***************************************************************************)
(* With one call in flight at a time the connection behaves as the atomic  *)
(* store: each call commits in one step, its COMMIT.                       *)
(***************************************************************************)
OutcomeOf(c) ==
    CASE pc[c] = "refused" -> "failed"
      [] pc[c] \in {"ready", "ok", "failed", "lost"} -> pc[c]
      [] pc[c] = "reset" -> "committed"
      [] pc[c] = "body" /\ c \in Single /\ written[c] = LastRow(c) -> "committed"
      [] OTHER -> "running"

Atomic == INSTANCE AtomicStore
              WITH stored <- durable, outcome <- [c \in Call |-> OutcomeOf(c)]

IsAtomicStore == Atomic!Spec

(***************************************************************************)
(* Between calls nothing is pending: the depth is back at zero, whatever   *)
(* way the calls before ended, and a reader of the connection sees nothing *)
(* a crash would take back.                                                *)
(***************************************************************************)
NothingPending == InFlight = {} => depth = 0 /\ work = durable

(***************************************************************************)
(* Among threads: while no block has raised and the process has not died,  *)
(* every row a call wrote is there, however the threads interleave.  Only  *)
(* a rollback loses rows, those of other threads included.                 *)
(***************************************************************************)
OnlyRollbackLoses ==
    (/\ crashes = 0
     /\ \A c \in Block : pc[c] \notin {"undone", "failed"})
    => \A c \in Call : pc[c] = "ok" => Rows(c) \subseteq work

(***************************************************************************)
(* A block that no other block overlapped and that returned has committed  *)
(* all its rows, whatever singles ran beside it: one event-loop thread     *)
(* that changes memory and pool threads that audit reads do not lose what  *)
(* they acknowledge.                                                       *)
(***************************************************************************)
LoneBlockIsDurable ==
    \A c \in Block \ overlapped : pc[c] = "ok" => Rows(c) \subseteq durable

(***************************************************************************)
(* "... should either commit all affected rows or leave canonical memory   *)
(* unchanged": a call that has ended has all of its rows on disk or none.  *)
(***************************************************************************)
AllOrNothing ==
    \A c \in Call :
        pc[c] \in Ended =>
            Rows(c) \subseteq durable \/ Rows(c) \cap durable = {}
==============================================================================
