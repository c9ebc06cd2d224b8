# A verification model of phone_mem

phone_mem is a personal memory service for a phone assistant: a SQLite store of
memory events with a lifecycle, permissions and an audit log
(`src/phone_mem/personal_memory_service`, `governance`), an agent runtime that
calls a model with tools over that service (`agent_runtime`, `phone_tools`), and
a web lab that serves both over HTTP (`web_lab`). The TLA+ modules here model it
from its source; TLC checks small instances, and TLAPS proves the invariants of
the service, called by one thread or by many, of its reports, of the store's
transactions, of the turns and of the web lab, two refinements, and what search
and context assembly promise, for every instance.

Paths below are relative to `src/phone_mem/`.

## Inventory

| Part | State it keeps | Operations | Talks to | What is hard | What makes it correct |
|---|---|---|---|---|---|
| Permissions (`governance/permissions.py`, `models.py`) | grants: caller, scope, window, revoked, an operation column used as an index | grant, revoke, can_access | store | the SQL prefilter and the Python match must agree; grants at the instant they start and end | the indexed lookup decides as the grants themselves do |
| Service lifecycle (`service.py`, `constructor.py`, `lifecycle.py`, `events.py`) | none of its own: events, tombstones, audit records are rows | record, correct, delete, grant, revoke, search, build_context, explain | permissions, store, audit, retrieval | checks and queries come before the transaction; any order of legal calls; lineages callers supply are stored unchecked | corrections, lifecycle, tombstones and audit stay consistent whatever lineages claim; effects are authorised as a whole |
| Store rows (`storage.py`) | tables of events, entities, relations, permissions, tombstones, audit, projections, full text | insert, update_lifecycle, mark_deleted, query_events, ... | SQLite | several tables must move together | projections follow the events |
| Store transactions (`storage.py` 48-58, 172-192, 604-606) | one connection, one `_transaction_depth` | transaction(), single statements with `_commit_if_needed` | every thread of the process | the depth is shared by threads; nesting, failures, crashes | a call is all or nothing, for one caller |
| Relation projection (`relations.py`, `storage.py` 373-420) | nodes and edges with a copied lifecycle state | rebuild, update with the lifecycle | store | the copy can become stale | edges carry the state of their event |
| Audit log (`governance/audit.py`) | audit records | record | store | written in the same transaction as the change, or alone | every change is covered by a record |
| Retrieval, views (`retrieval.py`, `governance/views.py`) | none | search | permissions, audit | rights and rows change between the query and the answer; ties, a zero best score and `top_k` beyond the view in the greedy choice | nothing a caller may not read is returned; results are related, best first, and repetitions yield |
| Context assembly (`context/`) | none | build_context | audit | greedy packing, budgets that leave nothing | never more tokens than available, nothing lost unreported |
| Metrics (`metrics.py`) | the last results and bundles | snapshot | store | figures over several tables | the figures count what they say |
| Maintenance (`maintenance.py`) | none (read-only reports) | reflect, defrag, schema_diff | store | walks over chains of events | the walks end, at a version that is not superseded |
| Agent runtime (`agent_runtime/`) | history of a session, fingerprints that were captured | run_turn, flush, clear_history | model client, tools, service | loops, failures in the middle, overlapping turns | turns end; nothing that had to be remembered is lost |
| Phone tools (`phone_tools/`) | contacts, calendar, messages, drafts, and two counters of ids in memory | seven tools, seeding | a second connection to the same file | seeding that is cut off, ids counted by two LabStates, statements that fail and leave their transaction open | what a tool reports as created stays; rows refer to contacts that exist |
| Web lab (`web_lab/`) | LabStates per user, turn snapshots | login, chat, turns, refresh, inspector routes, deletion of a user | service, session | event loop and thread pool over one state; check-then-create of users; deletion by another process | requests see their own turn; refresh forgets; what was deleted stays deleted |
| Provider client, prompts (`agent_runtime/openai_client.py`, `prompts.py`) | none | complete | HTTP | timeouts | out of scope: I/O and wording |

The main interaction: a chat request gets or creates the LabState of its user
and runs a turn of an `AgentSession`; the turn calls `build_context` of the
service, then the model, then tools that call the service or the phone store,
and records what it captured through `record`. Inspector routes call the service
directly. The synchronous routes run on a thread pool, the multi-user chat,
correct and delete routes on the event loop; all share one service, one memory
connection, one phone connection and one session per LabState.

## Modules

| Module | Models | Composition |
|---|---|---|
| `Permissions` | scopes, grants, activity, index, decision; `HoldsGrant` is the reference definition of access | pure operators |
| `MemoryService` | canonical rows; record, correct, delete, grant, revoke, rebuild as atomic steps | extends `Permissions` |
| `MemoryMetrics` | the audit figures | extends `MemoryService` |
| `MemoryMaintenance` | the maintenance reports and the deletion figures, read off the rows | extends `MemoryMetrics` |
| `Retrieval` | scoring, ranking, maximal marginal relevance | pure operators |
| `ContextAssembly` | token counts, packing, capsules, evidence of a bundle | pure operators |
| `ConcurrentService` | the calls of the service split at each access to the store, on several threads; search, build_context, explain | extends `MemoryService`, reuses its rows, queries, constructor and rules |
| `AtomicStore` | what a transactional store promises: a call's rows appear together or not at all | abstract specification |
| `StoreTransactions` | the connection, the shared depth, nested transactions, failures, crashes | implements `AtomicStore` when calls do not overlap |
| `PhoneStore` | what a store of phone state promises, as `InMemoryPhoneToolStore` does | abstract specification |
| `PhoneTools` | what the phone tool registry accepts and what the SQLite store makes of it, the ids, the fixtures | pure operators over the tables of a file |
| `WebLab` | the LabStates of a user: creation, seeding, turns with tool calls, locks, restart, deletion from the command line | extends `PhoneTools`, implements `PhoneStore` until two LabStates share a file |
| `AgentTurns` | turns of a session, tool loop, capture, history, snapshots and their numbers, refresh | stands alone; the service appears as what capture has recorded |
| `MemoryServiceProofs` | theorems about `MemoryService`: types, lifecycle, governance | extends it with `TLAPS` |
| `ConcurrentServiceProofs` | theorems about `ConcurrentService` | extends it and `MemoryServiceProofs`, whose row lemmas it uses |
| `MemoryMaintenanceProofs` | theorems about the reports and figures | extends `MemoryMaintenance`, `MemoryServiceProofs` and `FoldLemmas` |
| `WebLabProofs` | theorems about `WebLab` and its refinement of `PhoneStore` | extends it with `TLAPS` |
| `FoldLemmas` | what a proof about a loop needs: that a fold exists, and induction over its turns | library of lemmas |
| `StoreTransactionsProofs` | theorems about `StoreTransactions` and its refinement of `AtomicStore` | extends it with `TLAPS` |
| `AgentTurnsProofs` | theorems about `AgentTurns` | extends it and `FoldLemmas` |
| `SearchAndContextProofs` | theorems about what `Retrieval` and `ContextAssembly` compute | extends `MCMemoryLifecycle`, which states the two properties, and `FoldLemmas` |
| `MC...` | small instances for TLC; `MCMemoryLifecycle` combines the lifecycle instance with the reports, retrieval and context assembly | |

### How the modules correspond to the code

`MemoryService`. `memory_events` is the events table in order of creation (an id
is a position; the code orders by `created_at`, so the model assumes that the
clock is strictly increasing); `permissions`, `tombstones`, `audit_log` are the
tables of these names; `relation_edges` gives the lifecycle state copied to the
projected edges of an event. `Record` is `record()` with its three outcomes
(denied, duplicate, inserted possibly in quarantine); `CorrectNotFound`,
`CorrectDenied`, `CorrectAllowed` are `correct()`; `DeleteDenied` and
`DeleteAllowed` are `delete()`. Each is the whole handler with its audit record.
Texts are normalised descriptions and `PreferenceFact` is the deterministic
preference parser as a function. The `topics` of a selector take no part in the
query, as in the code.

A recorded event carries the lineage its caller supplies: the code stores it as
it is (`constructor.py` 44, 95) and nothing in `record()` looks at it, except that
a quarantine replaces it. So does the model (`Construct`), for any candidate and
in all three fields: a recorded event may claim to supersede one that stays
active, and may refer to ids that name no event. What a caller can name is
`CanName`: the events that are stored, `UnstoredId`, which stands for all ids that
never name a row, and `ForeseenIds`, ids a caller knows before they name an event.
The ids of a service are random (`uuid4`), which is an empty `ForeseenIds`; only
those of `in_memory()` are counted. `memory_lifecycle` lets callers foresee the
second id, and no theorem but `ChainsAlwaysEnd` assumes that they foresee none
(a candidate that is refused uses up a counted id as well, which the model leaves
out: it lets a caller foresee the position itself). Since a
lineage proves nothing, the properties take what was corrected from the audit log
(`CorrectionsOf`), in which only `correct()` writes allowed updates.

`MemoryMaintenance`. Each report is a function of the rows. The chain walk of
`_stale_superseded_chains` is a fold of as many steps as there are events; an
event that was corrected twice, or that recorded events claim to supersede, has
several successors and the code follows the one whose random id sorts first, so
the walk is examined for every order (`Orders`). A walk that is not over after
that many steps has met an event twice and never ends.

`Retrieval` and `ContextAssembly` are the algorithms as functions of their
inputs. The weights of the ranking are those of the code on one integer scale,
and the arithmetic is exact where the code rounds floats: two values the code
takes for equal or for different after rounding may compare otherwise here. A
text is its set of terms (ranking) or its number of characters and what its
wording states (packing). The token counter is the code's formula in integers.

`ConcurrentService`. One action is one access to the store: `RecordCheck` (the
permission check), `RecordDedupe`, `RecordValidate`, `RecordInsert` (the
transaction), and so on. What a query returned is kept in `call[t]` and used
later. `since` is not code: it remembers the rows, the grants and the rights at
the beginning of the call. Ranking and the token budget may return any part of
what the caller may read.

`StoreTransactions`. `depth` is `_transaction_depth`; `EnterOuter`, `Begin`,
`SetDepth`, `Write`, `CommitIfNeeded`, `CommitBlock`, `Rollback`, `ResetDepth`
are the lines of `transaction()` and `_commit_if_needed`; a row stands for all
that one store method writes. A second BEGIN in an open transaction is refused,
as SQLite does. COMMIT itself is assumed not to fail, and an exception other than
`Exception` (a `KeyboardInterrupt`) is left out.

`PhoneTools` and `WebLab`. The tables of a file are one record; an action tool is
accepted or refused by `AcceptsEvent` and `AcceptsDraft` and then writes a row
under the id its LabState counts in memory: calendar events with INSERT OR
REPLACE (`WithRow`), drafts with INSERT. `Lookup`, `MakeDirectory`, `OpenFails`, `Open`,
`Seed`, `Store` are `get_or_create` and `LabState.create` statement by statement;
`StartTurn`, `CallMemory`, `LookUpPhone`, `RefuseCall`, `CreateCalendarEvent`,
`DraftMessage`, `FailTurn`, `FinishTurn` are a turn; `Answer`, `ReadMemory`,
`ChangeMemory` the other routes. `locked_by` is the connection that a failed
statement left inside a transaction; `Collect` is the end of a LabState nothing
refers to, which closes its connections. `Restart` loses all memory of the
process and keeps the files. `RemoveFile` and `RemoveDirectory` are
`shutil.rmtree` of the command line. `Open` opens the memory and the phone connection in one step. The owner's memory
appears only as a second connection whose writes need the file to be in place and
unlocked; that it could keep a lock of its own, as a nested exit of another thread
can make it (`StoreTransactions`), is left out here. `shared`,
`torn` and `before` are not code. `Next` of `PhoneStore` is what each method of
the in-memory store does; `ActsAsOneStore` says that each step of the web lab
does that to the file of the user, or nothing.

`AgentTurns`. `turn[r].step` is where the request is in `run_chat_turn`,
`run_turn`, `flush`; `history`, `seen`, `turn_snapshots` are `_history`,
`_seen_fingerprints`, `turn_snapshots`; `memories` is what capture has recorded.
The number of a snapshot is computed in one step and appended in another.
`application` is which of the two FastAPI applications serves the requests.
`before` in a refresh is not code: it remembers the turns that had ended.

## Runs

| Run | Question | Bounds | Result |
|---|---|---|---|
| `memory_lifecycle` | Do lifecycle, corrections, tombstones, audit and projection stay consistent in every order of operations, whatever lineages callers supply, and is what reports and figures say of them true? Do ranking and packing meet their definitions? | 3 events, 5 candidates (two texts that contradict each other, one of them also with a lineage that claims the place of the second event, before it is there, as that event, and afterwards, and a derived text, from the first event or from one that does not exist), 1 patch, 2 selectors, 1 grant; views of 4 events of 5 kinds, 2 queries, 5 values of `top_k`; lists of 5 snippets of 4 kinds, 5 budgets | holds (484,400 states) |
| `memory_governance` | Does the index change a decision? Is every effect authorised as a whole? | 2 callers, 2 events, 2 grants, 2 scopes, 1 tick | holds |
| `concurrent_calls` | What remains when calls interleave at every access? | 2 threads, 4 calls, 3 events, 1 grant, a correction that leaves the scope | holds |
| `store_one_caller` | Does the connection implement the atomic store for calls one at a time, with failures and a crash? | a correction and a deletion of three statements, a denial and a search | holds |
| `store_threads` | What remains with threads? | 4 calls, up to 3 at once, 2 of them transactions, which nest | holds |
| `web_lab` | Does what the phone tools report stay? Is a served user seeded? Who can lock a user out? Does deletion last? Is the database the in-memory store? | 2 event-loop requests, 1 pool request, 1 restart, 1 deletion, 1 tool call in a turn, 6 kinds of call | holds |
| `agent_turns` | Do history, capture and snapshots survive overlap, failures and refresh, and do turns end? | 2 turns after an earlier one, 1 refresh, 1 iteration of 2 tool calls, window of one exchange | holds (554,418 states) |
| `tombstones_stay_deleted` | Is what is deleted hidden and deleted? | as `memory_lifecycle` | violated |
| `derived_lineage` | Does derived memory keep its lineage? | as `memory_lifecycle` | violated |
| `audit_metric` | Is a fully audited store reported so? | as `memory_lifecycle` | violated |
| `store_atomicity` | Is a transaction atomic with threads? | a transaction and a lone record at once | violated |
| `only_actions_captured` | Do only actions become memories? | as `agent_turns` | violated |

Why the bounds are enough for what they are meant for: three events allow an
event, its contradiction or duplicate, and a correction of either, or a chain of
two corrections, which is the shortest one a maintenance report calls stale;
every lifecycle rule relates at most two events. Two grants and one tick give
overlapping, expired and revoked grants. Four calls on two threads allow a
history of two calls and then two overlapping ones; a race in this code is
between two calls. Four store calls include a nested and a lone one of each
kind. In the web lab, two requests of the event loop and one of the pool allow
two LabStates created side by side and a later request that uses the survivor; a
second tool call in a turn, which could for instance release the lock the first
one left, is beyond the bound. Two overlapping turns and one finished before
them let the window cut the history; one iteration of the tool loop is one round
more than none, and the limit is reached. Four events are enough for a choice
whose penalty comes from a result other than the last one chosen; five snippets
for one that fits after two that do not. The pure algorithms do not depend on
the state and are examined once, in the initial one. All bounds (`MaxEvents`,
`MaxGrants`, `MaxDenials`, `MaxClock`, `MaxCalls`, `MaxInFlight`, `MaxBlocks`,
`MaxCrashes`) only keep actions from happening; `MaxToolCalls` bounds what the
model asks for in a turn.

Runs allow deadlock (`CHECK_DEADLOCK FALSE`) where the system really may stop:
once all requests, calls or turns of the instance have been answered. The
instance of `agent_turns` starts in the reachable state after the earlier request
was answered; `Spec` of `AgentTurns` starts empty.

### What the violated runs show

- `correct()` accepts a deleted event: it becomes superseded and its content is
  active again although its tombstone remains. What does hold, and is proved:
  a deleted event has a tombstone, and the *event* itself never becomes active.
- A derived event that contradicts an active one is quarantined with a lineage
  that names only the contradiction.
- The audit completeness figure counts corrections as unaudited.
  `FiguresMissOnlyCorrections` says that it misses nothing else.
- With threads on one connection, a lone write between another thread's BEGIN and
  its depth becoming 1 commits the first half of that transaction. What does
  hold, and is proved: rows are lost only by a rollback or a crash, and a
  transaction that no other overlaps is durable.
- Tool errors and the loop limit become durable memories, lookups included.

### Behaviour worth knowing that no run states

- Two threads that record the same candidate both insert it (the run states that
  only overlapping records conflict).
- A nested exit after the outer block's reset leaves the depth at -1, after which
  lone writes are no longer committed and BEGIN is refused. An audit record
  written alone can be lost with another thread's rollback.
- Two first requests of a user that overlap create two LabStates over one file.
  A later calendar event may then replace one that was reported as created, and a
  draft whose id is taken leaves its connection in a transaction that locks the
  user's memory until that connection writes again or is closed.
- Deleting a user from the command line leaves the LabState that the server has
  cached: its file stays readable although it has been unlinked, while the
  command reports that all associated data has been deleted.
- A crash in the middle of seeding leaves the fixtures incomplete for good.
- Snapshot numbers may repeat on the pool, and may be too high after a refresh.
  On the thread pool an answer may carry another request's turn.
- A fingerprint stays seen after its memory was deleted. A model that fails after
  a tool acted leaves an action nobody was told about.
- `build_memory_context` subtracts reserves of 50 tokens, so that it raises for a
  smaller `max_tokens`. The compression ratio sets the latest bundle against the
  latest search, which need not be its own.
- An event that was corrected twice has two successors, and random ids decide
  which of them a stale chain follows.
- In a service of `in_memory()`, which counts its ids, an event can be recorded
  with a lineage that supersedes one that is still to come: `event-1` claims
  `event-2`, is corrected, which makes `event-2`, and that is corrected in turn.
  Both are then superseded and each is a successor of the other, so that the walk
  of `defrag()` (`maintenance.py` 165-170) follows the circle and never returns.
  The states of `memory_lifecycle` include this one; `ReportsAreSound` exempts
  exactly the states in which something claims to supersede itself or a later event
  (`SupersessionIsEarlier`). With ids nobody can foresee there are none, which is
  proved (`ChainsAlwaysEnd`).
- Recorded events may claim to supersede an active one, which then stays active
  and current. `explain` lists such claims beside the corrections of an event as
  "superseded by correction", and a stale chain may follow one in place of the
  correction. `defrag()` reports references to events that do not exist;
  `ReportsAreSound` says that callers supplied all of them, and that corrections,
  quarantines and deletions make none.

## Fairness

Only `AgentTurns` has a liveness property. It assumes weak fairness of the steps
of each turn that has started: a turn is a thread that the operating system keeps
running, or holds the event loop until it ends, and the model client bounds each
call by a timeout of 60 seconds (`openai_client.py`), after which the turn fails.
The model may ask for tools in every answer; that the turn ends rests on
`max_tool_iterations`. No fairness is assumed for requests that have not started,
for refreshes, or in the other modules, whose properties are all safety.

## Proofs

The theorems hold for all values of the constants that satisfy the modules'
assumptions (types only), and for the further assumption a theorem states.

`MemoryService!Spec` (`MemoryServiceProofs`):

- `TypeCorrect` proves `TypeOK`. Lemmas give the type of every row an
  operation builds (`Construct`, `Corrected`, the quarantined event), what
  `WithState` and `EdgesWithState` preserve, and one lemma per action.
- The lifecycle invariants are not inductive one by one. That only corrections
  supersede (`SupersededIsLinked`) speaks of the audit log, so it needs that an
  allowed update only names stored events (`UpdatesNameEvents`): else a new row
  could fall under an old record. Deletions need that tombstones name existing
  rows, the evidence of a quarantine needs that texts are never rewritten, and
  auditing needs that the audit log only grows. The argument goes over rows: each
  step changes the table by appending one event, by changing the state of some, or
  both (a correction), and row lemmas say what each of the three does to each
  invariant. No lemma assumes anything of the lineage an event is recorded with.
  `HistoryKept` is the action property that no step does more.
- The index never changes a decision (`IndexExact`: a scope of one operation is
  indexed by it, any other by the wildcard, and the match is repeated on the rows
  found) and every effect is authorised as a whole (`EffectsAuthorized`).

`ConcurrentService!CSpec` (`ConcurrentServiceProofs`), for any number of threads
and calls:

- `ServiceInvariantHolds` proves the inductive invariant, which has two parts.
  `StoreOK` is the lifecycle invariants of `MemoryService`: the row lemmas serve
  again, now with rows that were built from an earlier read, and with any lineage. `CallOK` says of each
  call what it may still rely on: what it selected is stored and was not barred
  from its caller when it began, unless a grant came since; the evidence it found
  is stored and still contradicts; what it took for free of conflicts is in
  conflict only with what was recorded since. The proof has two halves that meet
  nowhere: the steps of a call establish its `CallOK` in the state before the
  step, and no change of the store, whoever makes it, disturbs the `CallOK` of a
  call (events are only appended and their texts stay, grants are only added or
  revoked).
- From it follow `CallsTyped`, `RightsRespected`, `ExplanationGrounded`,
  `SupersessionLinkedByCalls`, `DeletionRepresentedByCalls`,
  `QuarantineEvidencedByCalls` and `ChangesAuditedByCalls`; `HistoryKeptByCalls`
  and `OnlyOverlapConflicts` are action properties under it. So what the
  lifecycle invariants say does not rest on an operation being one step, with the
  one exception that recording may put a conflict among the active events, and
  `OnlyOverlapConflicts` says exactly when.

`MemoryMaintenance` (`MemoryMaintenanceProofs`): the reports are functions of the
state, so the theorems follow from the lifecycle invariants.

- `FiguresMissCorrections`: what the figures miss was corrected, since every
  change is audited and a deleted event leaves that state by a correction only.
- `ReportsSound` rests on `LineageIsEarlier`: a lineage, supplied or not, only
  names earlier events, none, or ids its caller foresaw, and that of a correction
  or a quarantine only stored events, so that a missing reference is one that was
  supplied. The part about chains rests on an invariant of the loop (`WalkedFrom`:
  it has seen one event more than it has walked, all linked) and on successors being
  later, so that a walk of as many turns as there are events must have ended.
- `ChainsAlwaysEnd`: without foreseen ids every claim is earlier, and every walk
  ends.

`FoldLemmas` is what such a proof needs of a loop. A fold of the community modules
is a recursive function on sets of positions; that it exists is well-founded
recursion, once (`FoldExists`, `LoopExists`), and an invariant of its turns holds
by `EveryTurn`, which takes a set in place of a predicate and the least
counterexample in place of an induction schema.

`StoreTransactions!Spec` (`StoreTransactionsProofs`):

- `TypeCorrect`, for any number of threads.
- `NothingIsPending` and `OneCallerIsAtomic` assume one caller
  (`MaxInFlight <= 1`). Their invariant `OneCall` has a `Stage` for each place a
  call can be at: what the depth is there, and what a reader sees beside what is
  durable. The refinement shows for each step which one step of `AtomicStore` it
  is (`Maps`): a COMMIT is the commit of all rows, everything before it starts or
  stutters, a crash is a crash.
- `OnlyRollbacksLoseRows` and `LoneBlocksAreDurable` hold for any number of
  threads. `Course` is what each call keeps to whatever the others do. The first
  rests on `AllIsThere`: until a rollback or a crash, what was
  written is visible. The second rests on `LoneCall`, what a block that no other
  overlaps can count on, and on `DepthHasOwner`: a depth above zero has an outer
  block in flight, so that a block that enters alone is never taken for nested.

`AgentTurns!Spec` (`AgentTurnsProofs`, each theorem with an inductive invariant of
its own over the fields it needs):

- `RefreshForgetsTurns` (`Forgets`: what a refresh between its two steps has
  already removed stays removed, since an ended turn appends nothing).
- `AnswersShowTheTurnOfTheRequest` (on the event loop one turn runs alone, so that
  the last snapshot is its own unless a refresh took it).
- `NumbersArePositions` (a number that waits to be appended is bounded by the
  length of the list on the side the property claims).
- `CaptureIsComplete` (a candidate of a turn is in memory, or still waiting in
  that turn; what is marked as seen is in memory).
- `PromptsAreWholeExchanges`, for windows of an even size: the history is a
  sequence of exchanges, and a window of even length cuts it between two. For an
  odd window the property is false; the default of the code is even.

- `TurnsTyped`: `TypeOK`, with the loop that filters the observations of a turn.

`WebLab!Spec` (`WebLabProofs`), for any requests, tool calls, restarts and
deletions:

- `HandlesHold` is what the rest stands on (`HandlesInOrder`: who holds which
  LabState, and that a file whose name no request has used yet is empty and
  unknown). With it each step is of one of a few kinds: it leaves the tables
  alone, adds a fixture, writes the row of a call, starts afresh on a new file, or
  removes the file. Each property is inductive over the kinds with a part of its
  own. `LabTyped` follows at once.
- `NobodyLocksHimselfOut` (`RivalsOnly`: an unshared file is open by one LabState,
  whose next ids are above all ids in it, so that its INSERT cannot fail).
- `RowsReferRightly` and `ServedAfterSeeding` (`FixturesKept`: a seeder has stored
  all fixtures before its place in the order, which puts contacts first; contacts
  and threads only grow).
- `ReportedItemsAreKept` (`CreatedRowsStay`: what a turn holds as created is in its
  file; on an unshared file the calendar's next id is free, so REPLACE replaces
  nothing).
- `DeletedStay` (`ItemsKept`: an item names the request and the call that made it,
  so no item is made twice, and one that was removed stays removed).
- `LabImplementsStore` maps each kind to a method of `PhoneStore` or to a stutter.
  `PhoneStore` chooses the ids from a bounded set, so the proof counts the calls
  made (`IdsCountCalls`): hence its hypothesis that the requests are finitely many.

`Retrieval` and `ContextAssembly` (`SearchAndContextProofs`), for any view, query,
number of results, list of results and budget. Both are pure, so that the theorems
follow from two lemmas that mention no state; each unrolls the folds that stand for
the loops of the code and proves what every turn keeps.

- `SearchRelevantAndDiverse` (`SearchIsSound`): the order is strict and total, so
  the number of results before one is a place of its own and `Ranked` lists every
  related event once. `NextIsBest` gives the choice of a turn, and a count of the
  choices shows that fewer than all leave one to make (`SomeRemain`), so that one
  whole selection exists (`IsSelection`) and every `top_k` gives its beginning
  (`SearchIsLeading`). That repetitions yield is then arithmetic over one choice:
  the repeated text pays the full penalty, the new one none. It assumes what
  `IsView` says: a view is finite, its texts and entities are finite sets of terms,
  and scores are natural numbers.
- `ContextFits` (`BundleFits`): `PackedSoFar` is what `Pack` has done after k turns
  (each of the first k positions kept or omitted, in order, the costs of those kept
  adding up, and what was omitted would not have fitted). The capsules are a second
  use of `Pack`, the evidence a use of `Merged` and `FlattenSeq`. That nothing is
  both shown and omitted needs that the results carry distinct event ids
  (`ContextAssumption`), which a search gives: its result is injective.

What is only model-checked: `AgentTurns!StartedTurnsEnd`, since liveness is out of
the provers' reach, and the five disagreements the violation runs show. Every
other property a passing run checks is stated by a theorem.

## Not modelled

JSON, ISO times with offsets, full-text rows, tokenising, prompts, HTTP and
templates are data or I/O no property here is about. The schema, opening and
closing the memory database and the wording of explanations are left out. Of
maintenance, `schema_diff` (it compares the names of fields and relation types with
the documented ones), the filters on confidence and the proposals made from the wording of a single event; of metrics,
the figures about the last search and bundle, which nothing but a report reads. Of
the web lab, cookies, logging out and pages: they change no state but the
response. The provider client appears as a call that may answer anything or raise.
`rebuild_relation_projection` is an atomic step of `MemoryService` only: nothing in
the package calls it beside other calls. Flush triggers other than the turn
boundary have no caller.

## Plan

Done: the modules above, in the order permissions, service, store transactions,
concurrent service, turns, web lab and phone tools, retrieval, context assembly,
maintenance; the proofs of all invariants and action properties that the passing
runs check, of the two refinements, and of the two pure computations.

What is left, most valuable first:

1. `AgentTurns` composed with `MemoryService`: restating what was deleted while its
   fingerprint is still seen, and an action that is repeated after its turn failed.
2. A memory connection left inside a transaction beside the other connections of
   the user's file (`StoreTransactions` composed with `WebLab`).
