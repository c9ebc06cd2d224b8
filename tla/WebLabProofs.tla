----------------------------- MODULE WebLabProofs -----------------------------
(***************************************************************************)
(* Proofs about WebLab: what holds of the LabStates of a user and of the   *)
(* tables of the phone, for every value of the constants, through crashes, *)
(* deletions and LabStates that are created side by side.                  *)
(*                                                                         *)
(* Everything rests on HandlesInOrder: who holds which LabState, and that a*)
(* file whose name a request has not used yet is empty and unknown.  With  *)
(* it each step of the lab is one of a few kinds, and each property is     *)
(* inductive over the kinds with the part of the invariant it needs.       *)
(***************************************************************************)
EXTENDS WebLab, FiniteSetTheorems, WellFoundedInduction, NaturalsInduction, TLAPS

Table == UNION {[ids -> Item] : ids \in SUBSET Nat}

Tables ==
    [contacts: SUBSET Contact, calendar: Table, threads: SUBSET Thread, drafts: Table]

File ==
    [tables: Tables, locked_by: Request \cup {None}, shared: BOOLEAN, torn: BOOLEAN]

LabState == [file: Request, next_cal_id: Nat \ {0}, next_draft_id: Nat \ {0}]

RequestState ==
    [step: Step, lab: Request \cup {None}, calls: 0 .. MaxToolCalls,
     created: SUBSET Row, worthy: BOOLEAN]

DeletionState ==
    [step: {"new", "rmdir", "deleted", "failed"}, before: SUBSET Item]

(* The ids of a table end somewhere, so that there is a next one.          *)
Bounded(table) == \E bound \in Nat : \A id \in DOMAIN table : id <= bound

Seeding == DOMAIN SeedOrder

(* The steps at which a request has not opened the database yet, has a     *)
(* LabState, and is over.                                                  *)
Unopened == {"new", "mkdir", "open"}
Holding == Seeding \cup {"store", "serve", "act"}
Ended == {"answered", "failed", "lost"}

StateTypeOK ==
    /\ directory \in BOOLEAN
    /\ entry \in Request \cup {None}
    /\ file \in [Request -> File]
    /\ lab \in [Request -> LabState \cup {NoLab}]
    /\ cached \in Request \cup {None}
    /\ request \in [Request -> RequestState]
    /\ deletion \in [Deletion -> DeletionState]
    /\ crashes \in 0 .. MaxCrashes

TablesAreBounded ==
    \A f \in Request : /\ Bounded(file[f].tables.calendar)
                       /\ Bounded(file[f].tables.drafts)

(* A request that has a LabState has one that is open; so has the cache.   *)
HandlesAreOpen ==
    /\ \A r \in Request :
          IF request[r].step \in Holding
          THEN request[r].lab # None /\ lab[request[r].lab] # NoLab
          ELSE request[r].lab = None
    /\ \A r \in Request :
          request[r].step \in Seeding \cup {"store"} => request[r].lab = r
    /\ cached # None => lab[cached] # NoLab

(* What a request has not opened is empty, and nothing refers to it.       *)
UnopenedIsUnknown ==
    \A r \in Request :
        request[r].step \in Unopened =>
            /\ file[r] = NewFile
            /\ lab[r] = NoLab
            /\ entry # r
            /\ \A l \in Request : lab[l].file # r
            /\ \A other \in Request :
                  \A row \in request[other].created : row.file # r

HandlesInOrder ==
    /\ StateTypeOK
    /\ TablesAreBounded
    /\ HandlesAreOpen
    /\ UnopenedIsUnknown

-----------------------------------------------------------------------------
(* A file that is not shared has one LabState at a time, and the ids this  *)
(* one hands out are free.                                                 *)
OneOwner ==
    \A f \in Request : \A l, k \in Request :
        (~file[f].shared /\ lab[l].file = f /\ lab[k].file = f) => l = k

NextIdsAreFree ==
    \A l \in Request :
        (lab[l] # NoLab /\ ~file[lab[l].file].shared) =>
            LET tables == file[lab[l].file].tables
            IN  /\ \A id \in DOMAIN tables.calendar : id < lab[l].next_cal_id
                /\ \A id \in DOMAIN tables.drafts : id < lab[l].next_draft_id

(* The fixtures are there in the order they are added.                     *)
FixturesInOrder ==
    \A r \in Request :
        LET tables == file[FileOf(r)].tables
        IN  /\ request[r].step \in {"calendar", "thread"} =>
                   SeedContact \in tables.contacts
            /\ request[r].step = "thread" => SeedEventId \in DOMAIN tables.calendar

(* The only thread is the one that is seeded last, and a file cannot be    *)
(* locked before: a draft needs a thread.                                  *)
LastFixtureIsThread ==
    \A f \in Request :
        LET tables == file[f].tables
        IN  /\ tables.threads \subseteq {SeedThread}
            /\ SeedThread \in tables.threads => IsFullySeeded(tables)
            /\ file[f].locked_by # None => SeedThread \in tables.threads

(* Seeding is under way, was cut off by a crash, or is done.               *)
SeedingGoesOn ==
    entry # None =>
        \/ IsFullySeeded(file[entry].tables)
        \/ file[entry].torn
        \/ \E r \in Request : request[r].step \in Seeding /\ FileOf(r) = entry

(* What a turn has created is in its file, be the turn over or not.        *)
IsKept(row, f) ==
    IF row.table = "drafts"
    THEN Keeps(f.tables.drafts, row)
    ELSE row.id # SeedEventId /\ (Keeps(f.tables.calendar, row) \/ f.shared)

CreatedRowsStay ==
    \A r \in Request : \A row \in request[r].created : IsKept(row, file[row.file])

(* An item that a request has created says so, and the request does not    *)
(* count the call again.                                                   *)
IsCounted(item) ==
    /\ item.by \in Request
    /\ \/ request[item.by].step \in Ended
       \/ request[item.by].step = "act" /\ item.number <= request[item.by].calls

ItemsAreCounted ==
    /\ \A f \in Request : \A item \in ItemsIn(file[f].tables) : IsCounted(item)
    /\ \A d \in Deletion : \A item \in deletion[d].before : IsCounted(item)

RemovedStayRemoved ==
    \A d \in Deletion : deletion[d].before \cap ItemsIn(Stored) = {}

-----------------------------------------------------------------------------
(* Tables.                                                                 *)

(* The contact is the fixture no other one is followed by.                 *)
LEMMA FirstFixtureIsContact == FirstFixture = "contact"
<1>1. /\ DOMAIN SeedOrder = {"contact", "calendar", "thread"}
      /\ SeedOrder["contact"] = "calendar" /\ SeedOrder["calendar"] = "thread"
      /\ SeedOrder["thread"] = "store"
  BY DEF SeedOrder
<1>2. \A part \in DOMAIN SeedOrder :
          (\A other \in DOMAIN SeedOrder : SeedOrder[other] # part)
              <=> part = "contact"
  BY <1>1
<1>3. "contact" \in DOMAIN SeedOrder
  BY <1>1
<1>4. QED
  BY <1>2, <1>3 DEF FirstFixture

(* The ids a table has end somewhere, so the next one is free.             *)
LEMMA NextNumericIdIsFree ==
    ASSUME NEW table, DOMAIN table \subseteq Nat, Bounded(table)
    PROVE  /\ NextNumericId(table) \in Nat \ {0}
           /\ \A id \in DOMAIN table : id < NextNumericId(table)
           /\ NextNumericId(table) - 1 \in DOMAIN table \cup {0}
<1> DEFINE ids == DOMAIN table \cup {0}
<1> DEFINE bounds == {bound \in Nat : \A id \in ids : id <= bound}
<1>1. ids \subseteq Nat /\ 0 \in ids
  OBVIOUS
<1>2. bounds \subseteq Nat /\ bounds # {}
  BY DEF Bounded
<1>3. PICK least \in bounds : \A bound \in bounds : ~(<<bound, least>> \in OpToRel(<, Nat))
  <2> HIDE DEF bounds
  <2>1. QED
    BY <1>2, NatLessThanWellFounded, WFMin, Zenon
<1>4. least \in Nat /\ \A id \in ids : id <= least
  OBVIOUS
<1>5. least \in ids
  <2> SUFFICES ASSUME least \notin ids PROVE FALSE
    OBVIOUS
  <2>1. least - 1 \in Nat /\ least - 1 < least
    BY <1>1, <1>4
  <2>2. \A id \in ids : id <= least - 1
    BY <1>1, <1>4
  <2>3. least - 1 \in bounds
    BY <2>1, <2>2
  <2>4. <<least - 1, least>> \in OpToRel(<, Nat)
    BY <1>4, <2>1, Zenon DEF OpToRel
  <2>5. QED
    BY <1>3, <2>3, <2>4
<1>6. Max(ids) \in ids /\ \A id \in ids : Max(ids) >= id
  <2>1. \A id \in ids : least >= id
    BY <1>1, <1>4
  <2> HIDE DEF ids
  <2>2. \E m \in ids : \A id \in ids : m >= id
    BY <1>5, <2>1
  <2>3. QED
    BY <2>2 DEF Max
<1>7. NextNumericId(table) = Max(ids) + 1
  BY DEF NextNumericId
<1> HIDE DEF ids
<1>8. Max(ids) \in Nat
  BY <1>1, <1>6
<1>9. QED
  BY <1>1, <1>6, <1>7, <1>8 DEF ids

LEMMA EmptyTable == <<>> \in Table /\ DOMAIN <<>> = {} /\ Bounded(<<>>)
<1>1. <<>> = [id \in {} |-> 0] /\ DOMAIN <<>> = {}
  OBVIOUS
<1>2. <<>> \in [{} -> Item]
  BY <1>1
<1>3. QED
  BY <1>1, <1>2 DEF Table, Bounded

LEMMA WithRowTable ==
    ASSUME NEW table \in Table, NEW id \in Nat, NEW item \in Item
    PROVE  /\ WithRow(table, id, item) \in Table
           /\ DOMAIN WithRow(table, id, item) = DOMAIN table \cup {id}
           /\ WithRow(table, id, item)[id] = item
           /\ \A i \in DOMAIN table \ {id} : WithRow(table, id, item)[i] = table[i]
           /\ Bounded(table) => Bounded(WithRow(table, id, item))
<1> DEFINE new == WithRow(table, id, item)
<1>1. PICK ids \in SUBSET Nat : table \in [ids -> Item]
  BY DEF Table
<1>2. new \in [ids \cup {id} -> Item]
  BY <1>1 DEF WithRow
<1>3. /\ DOMAIN new = DOMAIN table \cup {id} /\ new[id] = item
      /\ \A i \in DOMAIN table \ {id} : new[i] = table[i]
  BY DEF WithRow
<1>4. new \in Table
  <2>1. ids \cup {id} \in SUBSET Nat
    OBVIOUS
  <2> HIDE DEF new
  <2>2. QED
    BY <1>2, <2>1 DEF Table
<1>5. ASSUME Bounded(table) PROVE Bounded(new)
  <2>1. PICK bound \in Nat : \A i \in DOMAIN table : i <= bound
    BY <1>5 DEF Bounded
  <2>2. DOMAIN table \subseteq Nat
    BY <1>1
  <2>3. bound + id \in Nat /\ \A i \in DOMAIN new : i <= bound + id
    BY <1>3, <2>1, <2>2
  <2> HIDE DEF new
  <2>4. QED
    BY <2>3 DEF Bounded
<1>6. QED
  BY <1>3, <1>4, <1>5

(* What each statement leaves of the tables.                               *)
SameTablesBut(new, old, part) ==
    /\ part # "contacts" => new.contacts = old.contacts
    /\ part # "calendar" => new.calendar = old.calendar
    /\ part # "threads" => new.threads = old.threads
    /\ part # "drafts" => new.drafts = old.drafts

LEMMA TableTypes ==
    ASSUME NEW tables \in Tables
    PROVE  /\ tables.calendar \in Table /\ DOMAIN tables.calendar \subseteq Nat
           /\ \A id \in DOMAIN tables.calendar : tables.calendar[id] \in Item
           /\ tables.drafts \in Table /\ DOMAIN tables.drafts \subseteq Nat
           /\ \A id \in DOMAIN tables.drafts : tables.drafts[id] \in Item
           /\ tables.contacts \subseteq Contact /\ tables.threads \subseteq Thread
<1>1. \A table \in Table : /\ DOMAIN table \subseteq Nat
                           /\ \A id \in DOMAIN table : table[id] \in Item
  BY DEF Table
<1>2. tables.calendar \in Table /\ tables.drafts \in Table
  BY DEF Tables
<1>3. tables.contacts \subseteq Contact /\ tables.threads \subseteq Thread
  BY DEF Tables
<1>4. QED
  BY <1>1, <1>2, <1>3

LEMMA NoTablesType ==
    /\ NoTables \in Tables
    /\ NoTables.contacts = {} /\ NoTables.threads = {}
    /\ NoTables.calendar = <<>> /\ NoTables.drafts = <<>>
    /\ DOMAIN NoTables.calendar = {} /\ DOMAIN NoTables.drafts = {}
<1>1. /\ NoTables.contacts = {} /\ NoTables.threads = {}
      /\ NoTables.calendar = <<>> /\ NoTables.drafts = <<>>
  BY DEF NoTables
<1>2. NoTables \in Tables
  BY EmptyTable DEF NoTables, Tables
<1>3. QED
  BY <1>1, <1>2, EmptyTable

LEMMA EventTables ==
    ASSUME NEW tables \in Tables, NEW id \in Nat, NEW item \in Item
    PROVE  /\ WithEvent(tables, id, item) \in Tables
           /\ SameTablesBut(WithEvent(tables, id, item), tables, "calendar")
           /\ WithEvent(tables, id, item).calendar = WithRow(tables.calendar, id, item)
<1> DEFINE table == WithRow(tables.calendar, id, item)
<1>1. table \in Table
  BY TableTypes, WithRowTable
<1>2. WithEvent(tables, id, item) = [tables EXCEPT !.calendar = table]
  BY DEF WithEvent
<1> HIDE DEF table
<1>3. /\ [tables EXCEPT !.calendar = table] \in Tables
      /\ [tables EXCEPT !.calendar = table].calendar = table
      /\ [tables EXCEPT !.calendar = table].contacts = tables.contacts
      /\ [tables EXCEPT !.calendar = table].threads = tables.threads
      /\ [tables EXCEPT !.calendar = table].drafts = tables.drafts
  BY <1>1 DEF Tables
<1>4. QED
  BY <1>2, <1>3 DEF SameTablesBut, table

LEMMA DraftTables ==
    ASSUME NEW tables \in Tables, NEW id \in Nat, NEW item \in Item
    PROVE  /\ WithDraft(tables, id, item) \in Tables
           /\ SameTablesBut(WithDraft(tables, id, item), tables, "drafts")
           /\ WithDraft(tables, id, item).drafts = WithRow(tables.drafts, id, item)
<1> DEFINE table == WithRow(tables.drafts, id, item)
<1>1. table \in Table
  BY TableTypes, WithRowTable
<1>2. WithDraft(tables, id, item) = [tables EXCEPT !.drafts = table]
  BY DEF WithDraft
<1> HIDE DEF table
<1>3. /\ [tables EXCEPT !.drafts = table] \in Tables
      /\ [tables EXCEPT !.drafts = table].drafts = table
      /\ [tables EXCEPT !.drafts = table].contacts = tables.contacts
      /\ [tables EXCEPT !.drafts = table].threads = tables.threads
      /\ [tables EXCEPT !.drafts = table].calendar = tables.calendar
  BY <1>1 DEF Tables
<1>4. QED
  BY <1>2, <1>3 DEF SameTablesBut, table

(* A fixture is added and nothing else is touched.                         *)
LEMMA FixtureTables ==
    ASSUME NEW tables \in Tables, NEW part \in Seeding
    PROVE  LET new == WithFixture(tables, part)
           IN  /\ new \in Tables
               /\ new.contacts =
                      IF part = "contact" THEN tables.contacts \cup {SeedContact}
                      ELSE tables.contacts
               /\ new.calendar =
                      IF part = "calendar"
                      THEN WithRow(tables.calendar, SeedEventId, SeedEvent)
                      ELSE tables.calendar
               /\ new.threads =
                      IF part = "thread" THEN tables.threads \cup {SeedThread}
                      ELSE tables.threads
               /\ new.drafts = tables.drafts
<1>1. part \in {"contact", "calendar", "thread"}
  BY DEF Seeding, SeedOrder
<1>2. CASE part = "contact"
  <2>1. WithFixture(tables, part) = [tables EXCEPT !.contacts = @ \cup {SeedContact}]
    BY <1>2 DEF WithFixture, WithContact
  <2>2. QED
    BY <1>2, <2>1, WebLabAssumption DEF Tables
<1>3. CASE part = "calendar"
  <2>1. WithFixture(tables, part) = WithEvent(tables, SeedEventId, SeedEvent)
    BY <1>3 DEF WithFixture
  <2>2. SeedEvent \in Item /\ SeedEventId \in Nat
    BY WebLabAssumption DEF SeedEvent, Item, SeedEventId
  <2>3. QED
    BY <1>3, <2>1, <2>2, EventTables DEF SameTablesBut
<1>4. CASE part = "thread"
  <2>1. WithFixture(tables, part) = [tables EXCEPT !.threads = @ \cup {SeedThread}]
    BY <1>4 DEF WithFixture, WithThread
  <2>2. QED
    BY <1>4, <2>1, WebLabAssumption DEF Tables
<1>5. QED
  BY <1>1, <1>2, <1>3, <1>4

-----------------------------------------------------------------------------
(* The kinds of steps.                                                     *)

(* A request that has a LabState has a file with it.                       *)
LEMMA HeldLab ==
    ASSUME HandlesInOrder, NEW r \in Request, request[r].step \in Holding
    PROVE  /\ request[r].lab \in Request /\ lab[request[r].lab] \in LabState
           /\ lab[request[r].lab] # NoLab
           /\ FileOf(r) \in Request /\ file[FileOf(r)] \in File
<1>1. /\ request[r] \in RequestState /\ request[r].lab # None
      /\ lab[request[r].lab] # NoLab
  BY DEF HandlesInOrder, StateTypeOK, HandlesAreOpen
<1>2. request[r].lab \in Request
  BY <1>1 DEF RequestState
<1>3. lab[request[r].lab] \in LabState
  BY <1>1, <1>2 DEF HandlesInOrder, StateTypeOK
<1>4. FileOf(r) \in Request
  BY <1>3 DEF FileOf, LabState
<1>5. QED
  BY <1>1, <1>2, <1>3, <1>4 DEF HandlesInOrder, StateTypeOK

(* A request moves on, and neither the files nor the LabStates change.     *)
Quiet(r, q) ==
    /\ UNCHANGED <<entry, file, lab, deletion, crashes>>
    /\ request' = [request EXCEPT ![r] = q]

(* What may become of a request in such a step.                            *)
MovesOn(r, q) ==
    /\ q \in RequestState
    /\ request[r].step \notin Ended
    /\ q.step \in Unopened => request[r].step \in Unopened
    /\ q.step \notin Seeding \cup {"store"}
    /\ request[r].step \in Seeding => ~MayWrite(r)
    /\ IF q.step \in Holding
       THEN /\ q.lab # None /\ lab[q.lab] # NoLab
            /\ request[r].step \in Holding => q.lab = request[r].lab
       ELSE q.lab = None
    /\ q.created \subseteq request[r].created
    /\ request[r].step = "act" =>
           \/ q.step \in Ended
           \/ q.step = "act" /\ request[r].calls <= q.calls

QuietAction(r) ==
    \/ Lookup(r) \/ MakeDirectory(r) \/ OpenFails(r) \/ (Seed(r) /\ ~MayWrite(r))
    \/ Store(r) \/ Answer(r) \/ ReadMemory(r) \/ ChangeMemory(r)
    \/ StartTurn(r) \/ FailTurn(r) \/ FinishTurn(r)
    \/ \E call \in ToolCalls :
           CallMemory(r, call) \/ LookUpPhone(r, call) \/ RefuseCall(r, call)

QuietStep(r) ==
    /\ \E q : Quiet(r, q) /\ MovesOn(r, q)
    /\ directory' \in BOOLEAN
    /\ cached' \in Request \cup {None}
    /\ cached' # None => lab[cached'] # NoLab

LEMMA NewRequestType ==
    /\ NewRequest \in RequestState
    /\ NewRequest.step = "new" /\ NewRequest.lab = None
    /\ NewRequest.calls = 0 /\ NewRequest.created = {}
<1>1. "new" \in Step /\ 0 \in 0 .. MaxToolCalls
  BY WebLabAssumption DEF Step
<1>2. \A no \in BOOLEAN :
          [step |-> "new", lab |-> None, calls |-> 0, created |-> {}, worthy |-> no]
              \in RequestState
  BY <1>1 DEF RequestState
<1>3. NewRequest \in RequestState
  BY <1>2, Zenon DEF NewRequest
<1>4. /\ NewRequest.step = "new" /\ NewRequest.lab = None
      /\ NewRequest.calls = 0 /\ NewRequest.created = {}
  BY DEF NewRequest
<1>5. QED
  BY <1>3, <1>4

LEMMA OverRequest ==
    ASSUME NEW step \in Ended
    PROVE  LET q == [NewRequest EXCEPT !.step = step]
           IN  /\ q \in RequestState /\ q.step = step
               /\ q.lab = None /\ q.created = {}
<1>1. step \in Step
  BY DEF Ended, Step
<1>2. QED
  BY <1>1, NewRequestType DEF RequestState

(* A tool call is counted.                                                 *)
LEMMA CalledRequest ==
    ASSUME NEW r \in Request, request[r] \in RequestState, MayCall(r),
           NEW call, NEW failed \in BOOLEAN
    PROVE  LET q == Called(r, call, failed)
           IN  /\ q \in RequestState /\ q.step = "act"
               /\ q.lab = request[r].lab /\ q.created = request[r].created
               /\ q.calls = request[r].calls + 1
               /\ request[r].calls + 1 \in 1 .. MaxToolCalls
<1> DEFINE calls == request[r].calls + 1
<1> DEFINE worthy == request[r].worthy \/ IsCaptureWorthy(call, failed)
<1>1. /\ request[r].calls \in 0 .. MaxToolCalls
      /\ request[r].calls < MaxToolCalls /\ request[r].step = "act"
  BY DEF RequestState, MayCall, At
<1>2. calls \in 1 .. MaxToolCalls
  BY <1>1, WebLabAssumption
<1>3. worthy \in BOOLEAN
  OBVIOUS
<1>4. Called(r, call, failed) = [request[r] EXCEPT !.calls = calls, !.worthy = worthy]
  BY Zenon DEF Called
<1>5. calls \in 0 .. MaxToolCalls
  BY <1>2
<1> HIDE DEF calls, worthy
<1>6. \A no \in BOOLEAN :
          LET q == [request[r] EXCEPT !.calls = calls, !.worthy = no]
          IN  /\ q \in RequestState /\ q.step = request[r].step
              /\ q.lab = request[r].lab /\ q.created = request[r].created
              /\ q.calls = calls
  BY <1>5 DEF RequestState
<1>7. LET q == Called(r, call, failed)
      IN  /\ q \in RequestState /\ q.step = request[r].step
          /\ q.lab = request[r].lab /\ q.created = request[r].created
          /\ q.calls = calls
  BY <1>3, <1>4, <1>6, Zenon
<1>8. QED
  BY <1>1, <1>2, <1>7 DEF calls

(* The request is over, and lets go of its LabState.                       *)
LEMMA QuietRelease ==
    ASSUME HandlesInOrder, NEW r \in Request, request[r].step \notin Ended,
           request[r].step \in Seeding => ~MayWrite(r),
           NEW q \in RequestState, q.step \in Ended, q.lab = None,
           q.created \subseteq request[r].created,
           Go(r, q),
           UNCHANGED <<directory, entry, file, lab, cached, deletion, crashes>>
    PROVE  QuietStep(r)
<1>1. /\ q.step \notin Unopened /\ q.step \notin Holding
      /\ q.step \notin Seeding \cup {"store"}
  BY DEF Ended, Unopened, Holding, Seeding, SeedOrder
<1>2. MovesOn(r, q)
  BY <1>1 DEF MovesOn
<1>3. /\ directory \in BOOLEAN /\ cached \in Request \cup {None}
      /\ cached # None => lab[cached] # NoLab
  BY DEF HandlesInOrder, StateTypeOK, HandlesAreOpen
<1>4. QED
  BY <1>2, <1>3 DEF QuietStep, Quiet, Go

(* The request goes on to another step with the LabState it has.           *)
LEMMA QuietAdvance ==
    ASSUME HandlesInOrder, NEW r \in Request, request[r].step \in {"serve", "act"},
           NEW q \in RequestState, q.step = "act",
           q.lab = request[r].lab, q.created = request[r].created,
           request[r].calls <= q.calls,
           Go(r, q),
           UNCHANGED <<directory, entry, file, lab, cached, deletion, crashes>>
    PROVE  QuietStep(r)
<1>1. /\ directory \in BOOLEAN /\ cached \in Request \cup {None}
      /\ cached # None => lab[cached] # NoLab
  BY DEF HandlesInOrder, StateTypeOK, HandlesAreOpen
<1>2. request[r].lab # None /\ lab[request[r].lab] # NoLab
  BY DEF HandlesInOrder, HandlesAreOpen, Holding
<1>3. MovesOn(r, q)
  BY <1>2 DEF MovesOn, Ended, Unopened, Seeding, SeedOrder, Holding
<1>4. QED
  BY <1>1, <1>3 DEF QuietStep, Quiet, Go

LEMMA QuietFail ==
    ASSUME HandlesInOrder, NEW r \in Request, request[r].step \notin Ended,
           request[r].step \in Seeding => ~MayWrite(r), Fail(r),
           UNCHANGED <<directory, entry, file, lab, cached, deletion, crashes>>
    PROVE  QuietStep(r)
<1>1. LET q == [NewRequest EXCEPT !.step = "failed"]
      IN  /\ q \in RequestState /\ q.step = "failed"
          /\ q.lab = None /\ q.created = {}
  BY OverRequest DEF Ended
<1>2. QED
  BY <1>1, QuietRelease DEF Fail, Ended

LEMMA QuietAnswer ==
    ASSUME HandlesInOrder, NEW r \in Request, request[r].step \in {"serve", "act"},
           Go(r, [NewRequest EXCEPT !.step = "answered"]),
           UNCHANGED <<directory, entry, file, lab, cached, deletion, crashes>>
    PROVE  QuietStep(r)
<1>1. LET q == [NewRequest EXCEPT !.step = "answered"]
      IN  /\ q \in RequestState /\ q.step = "answered"
          /\ q.lab = None /\ q.created = {}
  BY OverRequest DEF Ended
<1>2. request[r].step \notin Ended /\ request[r].step \notin Seeding
  BY DEF Ended, Seeding, SeedOrder
<1>3. QED
  BY <1>1, <1>2, QuietRelease DEF Ended

(* The steps of a request that change neither the files nor the LabStates. *)
LEMMA QuietSteps ==
    ASSUME HandlesInOrder, NEW r \in Request, QuietAction(r)
    PROVE  QuietStep(r)
<1>1. /\ directory \in BOOLEAN /\ cached \in Request \cup {None}
      /\ request[r] \in RequestState
  BY DEF HandlesInOrder, StateTypeOK
<1>2. /\ cached # None => lab[cached] # NoLab
      /\ IF request[r].step \in Holding
         THEN request[r].lab # None /\ lab[request[r].lab] # NoLab
         ELSE request[r].lab = None
      /\ request[r].step \in Seeding \cup {"store"} => request[r].lab = r
  BY DEF HandlesInOrder, HandlesAreOpen
<1>3. Seeding = {"contact", "calendar", "thread"}
  BY DEF Seeding, SeedOrder
<1>4. {"mkdir", "open", "serve", "act"} \subseteq Step
  BY DEF Step, Acting, Creating
<1>5. \A step \in {"mkdir", "open", "serve", "act"} :
          LET q == [request[r] EXCEPT !.step = step]
          IN  /\ q \in RequestState /\ q.step = step
              /\ q.lab = request[r].lab /\ q.calls = request[r].calls
              /\ q.created = request[r].created
  BY <1>1, <1>4 DEF RequestState
<1>6. CASE Lookup(r)
  <2>1. request[r].step = "new" /\ request[r].lab = None
    BY <1>2, <1>3, <1>6 DEF Lookup, At, Holding
  <2>2. CASE cached = None
    <3> DEFINE q == [request[r] EXCEPT !.step = "mkdir"]
    <3>1. Quiet(r, q) /\ UNCHANGED <<directory, cached>>
      BY <1>6, <2>2 DEF Lookup, GoTo, Go, Quiet
    <3>2. /\ q \in RequestState /\ q.step = "mkdir" /\ q.lab = None
          /\ q.created = request[r].created
      BY <1>5, <2>1
    <3> HIDE DEF q
    <3>3. MovesOn(r, q)
      BY <1>3, <2>1, <3>2 DEF MovesOn, Ended, Unopened, Holding
    <3>4. QED
      BY <1>1, <1>2, <3>1, <3>3 DEF QuietStep
  <2>3. CASE cached # None
    <3> DEFINE q == [request[r] EXCEPT !.step = "serve", !.lab = cached]
    <3>1. Quiet(r, q) /\ UNCHANGED <<directory, cached>>
      BY <1>6, <2>3 DEF Lookup, Go, Quiet
    <3>2. /\ q \in RequestState /\ q.step = "serve" /\ q.lab = cached
          /\ q.created = request[r].created
      BY <1>1, <1>4 DEF RequestState
    <3> HIDE DEF q
    <3>3. MovesOn(r, q)
      BY <1>2, <1>3, <2>1, <2>3, <3>2 DEF MovesOn, Ended, Unopened, Holding
    <3>4. QED
      BY <1>1, <1>2, <3>1, <3>3 DEF QuietStep
  <2>4. QED
    BY <2>2, <2>3
<1>7. CASE MakeDirectory(r)
  <2> DEFINE q == [request[r] EXCEPT !.step = "open"]
  <2>1. request[r].step = "mkdir" /\ request[r].lab = None
    BY <1>2, <1>3, <1>7 DEF MakeDirectory, At, Holding
  <2>2. Quiet(r, q) /\ directory' = TRUE /\ UNCHANGED cached
    BY <1>7 DEF MakeDirectory, GoTo, Go, Quiet
  <2>3. /\ q \in RequestState /\ q.step = "open" /\ q.lab = None
        /\ q.created = request[r].created
    BY <1>5, <2>1
  <2> HIDE DEF q
  <2>4. MovesOn(r, q)
    BY <1>3, <2>1, <2>3 DEF MovesOn, Ended, Unopened, Holding
  <2>5. QED
    BY <1>1, <1>2, <2>2, <2>4 DEF QuietStep
<1>8. CASE OpenFails(r)
  <2>1. request[r].step \notin Ended /\ request[r].step \notin Seeding
    BY <1>3, <1>8 DEF OpenFails, At, Ended
  <2>2. QED
    BY <1>8, <2>1, QuietFail DEF OpenFails
<1>9. CASE Seed(r) /\ ~MayWrite(r)
  <2>1. request[r].step \notin Ended
    BY <1>3, <1>9 DEF Seed, Seeding, Ended
  <2>2. QED
    BY <1>9, <2>1, QuietFail DEF Seed
<1>10. CASE Store(r)
  <2> DEFINE q == [request[r] EXCEPT !.step = "serve"]
  <2>1. /\ request[r].step = "store" /\ request[r].lab = r
        /\ request[r].lab # None /\ lab[request[r].lab] # NoLab
    BY <1>2, <1>10 DEF Store, At, Holding
  <2>2. Quiet(r, q) /\ cached' = r /\ UNCHANGED directory
    BY <1>10 DEF Store, GoTo, Go, Quiet
  <2>3. /\ q \in RequestState /\ q.step = "serve" /\ q.lab = request[r].lab
        /\ q.created = request[r].created
    BY <1>5
  <2> HIDE DEF q
  <2>4. MovesOn(r, q)
    BY <1>3, <2>1, <2>3 DEF MovesOn, Ended, Unopened, Holding
  <2>5. QED
    BY <1>1, <2>1, <2>2, <2>4 DEF QuietStep
<1>11. CASE Answer(r)
  BY <1>11, QuietAnswer DEF Answer, At
<1>12. CASE ReadMemory(r)
  <2>1. request[r].step = "serve"
    BY <1>12 DEF ReadMemory, At
  <2>2. request[r].step \notin Ended /\ request[r].step \notin Seeding
    BY <1>3, <2>1 DEF Ended
  <2>3. QED
    BY <1>12, <2>1, <2>2, QuietAnswer, QuietFail DEF ReadMemory
<1>13. CASE ChangeMemory(r)
  <2>1. request[r].step = "serve"
    BY <1>13 DEF ChangeMemory, At
  <2>2. request[r].step \notin Ended /\ request[r].step \notin Seeding
    BY <1>3, <2>1 DEF Ended
  <2>3. QED
    BY <1>13, <2>1, <2>2, QuietAnswer, QuietFail DEF ChangeMemory
<1>14. CASE StartTurn(r)
  <2>1. request[r].step = "serve"
    BY <1>14 DEF StartTurn, At
  <2>2. request[r].step \notin Ended /\ request[r].step \notin Seeding
    BY <1>3, <2>1 DEF Ended
  <2>3. request[r].calls <= request[r].calls
    <3>1. request[r].calls \in Nat
      BY <1>1, WebLabAssumption DEF RequestState
    <3>2. QED
      BY <3>1
  <2>4. CASE GoTo(r, "act")
    BY <1>5, <1>14, <2>1, <2>3, <2>4, QuietAdvance DEF StartTurn, GoTo
  <2>5. CASE Fail(r)
    BY <1>14, <2>2, <2>5, QuietFail DEF StartTurn
  <2>6. QED
    BY <1>14, <2>4, <2>5 DEF StartTurn
<1>15. CASE FailTurn(r)
  <2>1. request[r].step = "act"
    BY <1>15 DEF FailTurn, At
  <2>2. request[r].step \notin Ended /\ request[r].step \notin Seeding
    BY <1>3, <2>1 DEF Ended
  <2>3. QED
    BY <1>15, <2>2, QuietFail DEF FailTurn
<1>16. CASE FinishTurn(r)
  <2>1. request[r].step = "act"
    BY <1>16 DEF FinishTurn, At
  <2>2. request[r].step \notin Ended /\ request[r].step \notin Seeding
    BY <1>3, <2>1 DEF Ended
  <2> DEFINE q == [NewRequest EXCEPT !.step = "answered",
                                     !.created = request[r].created]
  <2>3. /\ q \in RequestState /\ q.step = "answered" /\ q.lab = None
        /\ q.created = request[r].created
    <3>1. request[r].created \in SUBSET Row /\ "answered" \in Step
      BY <1>1 DEF RequestState, Step
    <3>2. QED
      BY <3>1, NewRequestType DEF RequestState
  <2>4. Go(r, q) \/ Fail(r)
    BY <1>16 DEF FinishTurn
  <2>5. CASE Go(r, q)
    <3> HIDE DEF q
    <3>1. QED
      BY <1>16, <2>2, <2>3, <2>5, QuietRelease DEF FinishTurn, Ended
  <2>6. CASE Fail(r)
    BY <1>16, <2>2, <2>6, QuietFail DEF FinishTurn
  <2>7. QED
    BY <2>4, <2>5, <2>6
<1>17. ASSUME NEW call \in ToolCalls,
              CallMemory(r, call) \/ LookUpPhone(r, call) \/ RefuseCall(r, call)
       PROVE  QuietStep(r)
  <2>1. /\ MayCall(r)
        /\ UNCHANGED <<directory, entry, file, lab, cached, deletion, crashes>>
    BY <1>17 DEF CallMemory, LookUpPhone, RefuseCall
  <2>2. PICK failed \in BOOLEAN : Go(r, Called(r, call, failed))
    <3>1. CASE CallMemory(r, call)
      BY <3>1, Zenon DEF CallMemory
    <3>2. CASE LookUpPhone(r, call)
      BY <3>2, Zenon DEF LookUpPhone
    <3>3. CASE RefuseCall(r, call)
      BY <3>3, Zenon DEF RefuseCall
    <3>4. QED
      BY <1>17, <3>1, <3>2, <3>3
  <2> DEFINE q == Called(r, call, failed)
  <2>3. /\ q \in RequestState /\ q.step = "act" /\ q.lab = request[r].lab
        /\ q.created = request[r].created /\ q.calls = request[r].calls + 1
    BY <1>1, <2>1, CalledRequest
  <2>4. request[r].step = "act" /\ request[r].calls <= q.calls
    <3>1. request[r].calls \in Nat
      BY <1>1, WebLabAssumption DEF RequestState
    <3>2. QED
      BY <2>1, <2>3, <3>1 DEF MayCall, At
  <2> HIDE DEF q
  <2>5. QED
    BY <2>1, <2>2, <2>3, <2>4, QuietAdvance DEF q
<1>18. QED
  BY <1>6, <1>7, <1>8, <1>9, <1>10, <1>11, <1>12, <1>13, <1>14, <1>15, <1>16, <1>17
     DEF QuietAction

(* What a step that gives one request another state does to the others.    *)
LEMMA OneRequestMoves ==
    ASSUME HandlesInOrder, NEW r \in Request, NEW q \in RequestState,
           request' = [request EXCEPT ![r] = q]
    PROVE  /\ request' \in [Request -> RequestState]
           /\ request'[r] = q
           /\ \A other \in Request \ {r} : request'[other] = request[other]
BY DEF HandlesInOrder, StateTypeOK

LEMMA QuietKeepsHandles ==
    ASSUME HandlesInOrder, NEW r \in Request, QuietStep(r)
    PROVE  HandlesInOrder'
<1>1. PICK q : Quiet(r, q) /\ MovesOn(r, q)
  BY DEF QuietStep
<1>2. /\ request' \in [Request -> RequestState]
      /\ request'[r] = q
      /\ \A other \in Request \ {r} : request'[other] = request[other]
  BY <1>1, OneRequestMoves DEF Quiet, MovesOn
<1>3. UNCHANGED <<entry, file, lab, deletion, crashes>>
  BY <1>1 DEF Quiet
<1>4. StateTypeOK'
  BY <1>2, <1>3 DEF HandlesInOrder, StateTypeOK, QuietStep
<1>5. TablesAreBounded'
  BY <1>3 DEF HandlesInOrder, TablesAreBounded
<1>6. HandlesAreOpen'
  <2>1. ASSUME NEW other \in Request
        PROVE  /\ IF request'[other].step \in Holding
                  THEN /\ request'[other].lab # None
                       /\ lab'[request'[other].lab] # NoLab
                  ELSE request'[other].lab = None
               /\ request'[other].step \in Seeding \cup {"store"} =>
                      request'[other].lab = other
    <3>1. CASE other = r
      BY <1>1, <1>2, <1>3, <3>1 DEF MovesOn
    <3>2. CASE other # r
      BY <1>2, <1>3, <3>2 DEF HandlesInOrder, HandlesAreOpen
    <3>3. QED
      BY <3>1, <3>2
  <2>2. cached' # None => lab'[cached'] # NoLab
    BY <1>3 DEF QuietStep
  <2>3. QED
    BY <2>1, <2>2 DEF HandlesAreOpen
<1>7. UnopenedIsUnknown'
  <2>1. \A other \in Request :
            /\ request'[other].step \in Unopened => request[other].step \in Unopened
            /\ request'[other].created \subseteq request[other].created
    BY <1>1, <1>2 DEF MovesOn
  <2>2. QED
    BY <1>3, <2>1 DEF HandlesInOrder, UnopenedIsUnknown
<1>8. QED
  BY <1>4, <1>5, <1>6, <1>7 DEF HandlesInOrder

-----------------------------------------------------------------------------
(* A request that writes to the file of its LabState, or takes an id from  *)
(* it.  F is what becomes of the file, and q of the request.               *)
Writes(r, F, q) ==
    /\ request[r].step \in Seeding \cup {"act"}
    /\ F \in File /\ Bounded(F.tables.calendar) /\ Bounded(F.tables.drafts)
    /\ F.shared = file[FileOf(r)].shared /\ F.torn = file[FileOf(r)].torn
    /\ file' = [file EXCEPT ![FileOf(r)] = F]
    /\ q \in RequestState /\ q.lab = request[r].lab
    /\ \/ /\ request[r].step = "act" /\ q.step = "act"
          /\ q.calls = request[r].calls + 1
       \/ /\ request[r].step \in Seeding /\ q.step = SeedOrder[request[r].step]
          /\ UNCHANGED lab
    /\ \A row \in q.created \ request[r].created : row.file = FileOf(r)
    /\ request' = [request EXCEPT ![r] = q]
    /\ lab' \in [Request -> LabState \cup {NoLab}]
    /\ \A l \in Request : /\ lab'[l].file = lab[l].file
                          /\ lab'[l] = NoLab <=> lab[l] = NoLab
                          /\ l # request[r].lab => lab'[l] = lab[l]
    /\ UNCHANGED <<directory, entry, cached, deletion, crashes>>

LEMMA WriteKeepsHandles ==
    ASSUME HandlesInOrder, NEW r \in Request, NEW F, NEW q, Writes(r, F, q)
    PROVE  HandlesInOrder'
<1>1. /\ request' \in [Request -> RequestState]
      /\ request'[r] = q
      /\ \A other \in Request \ {r} : request'[other] = request[other]
  BY OneRequestMoves DEF Writes
<1>2. request[r].step \in Holding /\ q.step \in Holding
  BY DEF Writes, Holding, Seeding, SeedOrder
<1>3. /\ request[r].lab \in Request /\ lab[request[r].lab] # NoLab
      /\ FileOf(r) \in Request
  BY <1>2, HeldLab
<1>4. /\ file' \in [Request -> File] /\ file'[FileOf(r)] = F
      /\ \A f \in Request \ {FileOf(r)} : file'[f] = file[f]
  BY <1>3 DEF Writes, HandlesInOrder, StateTypeOK
<1>5. StateTypeOK'
  BY <1>1, <1>4 DEF HandlesInOrder, StateTypeOK, Writes
<1>6. TablesAreBounded'
  BY <1>4 DEF HandlesInOrder, TablesAreBounded, Writes
<1>7. HandlesAreOpen'
  <2>1. ASSUME NEW other \in Request
        PROVE  /\ IF request'[other].step \in Holding
                  THEN /\ request'[other].lab # None
                       /\ lab'[request'[other].lab] # NoLab
                  ELSE request'[other].lab = None
               /\ request'[other].step \in Seeding \cup {"store"} =>
                      request'[other].lab = other
    <3>1. CASE other = r
      <4>1. q.lab = request[r].lab /\ q.lab # None /\ lab'[q.lab] # NoLab
        BY <1>3, WebLabAssumption DEF Writes
      <4>2. q.step \in Seeding \cup {"store"} => request[r].step \in Seeding
        BY DEF Writes, Seeding, SeedOrder
      <4>3. request[r].step \in Seeding => request[r].lab = r
        BY DEF HandlesInOrder, HandlesAreOpen
      <4>4. QED
        BY <1>1, <1>2, <3>1, <4>1, <4>2, <4>3
    <3>2. CASE other # r
      <4>1. request'[other] = request[other]
        BY <1>1, <3>2
      <4>2. request[other].step \in Holding =>
                request[other].lab # None /\ lab'[request[other].lab] # NoLab
        BY HeldLab, WebLabAssumption DEF Writes
      <4>3. QED
        BY <4>1, <4>2 DEF HandlesInOrder, HandlesAreOpen
    <3>3. QED
      BY <3>1, <3>2
  <2>2. cached' # None => lab'[cached'] # NoLab
    BY DEF Writes, HandlesInOrder, HandlesAreOpen, StateTypeOK
  <2>3. QED
    BY <2>1, <2>2 DEF HandlesAreOpen
<1>8. UnopenedIsUnknown'
  <2> SUFFICES ASSUME NEW late \in Request, request'[late].step \in Unopened
               PROVE  /\ file'[late] = NewFile
                      /\ lab'[late] = NoLab
                      /\ entry' # late
                      /\ \A l \in Request : lab'[l].file # late
                      /\ \A other \in Request :
                            \A row \in request'[other].created : row.file # late
    BY DEF UnopenedIsUnknown
  <2>1. late # r
    BY <1>1, <1>2 DEF Holding, Unopened, Seeding, SeedOrder
  <2>2. /\ file[late] = NewFile /\ lab[late] = NoLab /\ entry # late
        /\ \A l \in Request : lab[l].file # late
        /\ \A other \in Request : \A row \in request[other].created : row.file # late
    BY <1>1, <2>1 DEF HandlesInOrder, UnopenedIsUnknown
  <2>3. FileOf(r) # late
    BY <1>3, <2>2 DEF FileOf
  <2>4. \A other \in Request : \A row \in request'[other].created : row.file # late
    <3>1. \A row \in q.created : row.file # late
      BY <2>2, <2>3 DEF Writes
    <3>2. QED
      BY <1>1, <2>2, <3>1
  <2>5. QED
    BY <1>4, <2>2, <2>3, <2>4 DEF Writes
<1>9. QED
  BY <1>5, <1>6, <1>7, <1>8 DEF HandlesInOrder

(* The ways to write, and what each leaves behind.                         *)
OldTables(r) == file[FileOf(r)].tables

FixtureAdded(r, F, q) ==
    /\ MayWrite(r)
    /\ request[r].step \in Seeding
    /\ F.tables = WithFixture(OldTables(r), request[r].step)
    /\ F.locked_by = file[FileOf(r)].locked_by
    /\ q.created = request[r].created

Accepted(r, q, call) ==
    /\ request[r].step = "act"
    /\ Accepts(OldTables(r), call)
    /\ ItemOf(r, call) \in Item
    /\ request[r].calls + 1 \in 1 .. MaxToolCalls

RowOf(r, table, id, call) ==
    [table |-> table, id |-> id, item |-> ItemOf(r, call), file |-> FileOf(r)]

EventCreated(r, F, q, call) ==
    LET l == request[r].lab
    IN  /\ MayWrite(r)
        /\ Accepted(r, q, call)
        /\ call.tool = "create_calendar_event"
        /\ F.tables = WithEvent(OldTables(r), lab[l].next_cal_id, ItemOf(r, call))
        /\ F.locked_by = None
        /\ q.created = request[r].created
                           \cup {RowOf(r, "calendar", lab[l].next_cal_id, call)}
        /\ lab'[l].next_cal_id = lab[l].next_cal_id + 1
        /\ lab'[l].next_draft_id = lab[l].next_draft_id

DraftCreated(r, F, q, call) ==
    LET l == request[r].lab
    IN  /\ MayWrite(r)
        /\ Accepted(r, q, call)
        /\ call.tool = "draft_message"
        /\ lab[l].next_draft_id \notin DOMAIN OldTables(r).drafts
        /\ F.tables = WithDraft(OldTables(r), lab[l].next_draft_id, ItemOf(r, call))
        /\ F.locked_by = None
        /\ q.created = request[r].created
                           \cup {RowOf(r, "drafts", lab[l].next_draft_id, call)}
        /\ lab'[l].next_cal_id = lab[l].next_cal_id
        /\ lab'[l].next_draft_id = lab[l].next_draft_id + 1

(* The id of the draft is taken: the transaction stays open.               *)
DraftCollided(r, F, q, call) ==
    LET l == request[r].lab
    IN  /\ MayWrite(r)
        /\ Accepted(r, q, call)
        /\ call.tool = "draft_message"
        /\ lab[l].next_draft_id \in DOMAIN OldTables(r).drafts
        /\ F.tables = OldTables(r)
        /\ F.locked_by = l
        /\ q.created = request[r].created
        /\ lab'[l].next_cal_id = lab[l].next_cal_id
        /\ lab'[l].next_draft_id = lab[l].next_draft_id + 1

IdUsedUp(r, F, q) ==
    LET l == request[r].lab
    IN  /\ request[r].step = "act"
        /\ F = file[FileOf(r)]
        /\ q.created = request[r].created
        /\ lab'[l].next_cal_id \in {lab[l].next_cal_id, lab[l].next_cal_id + 1}
        /\ lab'[l].next_draft_id \in {lab[l].next_draft_id, lab[l].next_draft_id + 1}

WriteStep(r) ==
    \E F, q : /\ Writes(r, F, q)
              /\ \/ FixtureAdded(r, F, q)
                 \/ IdUsedUp(r, F, q)
                 \/ \E call \in ToolCalls : \/ EventCreated(r, F, q, call)
                                            \/ DraftCreated(r, F, q, call)
                                            \/ DraftCollided(r, F, q, call)

LEMMA SeedWrites ==
    ASSUME HandlesInOrder, NEW r \in Request, Seed(r), MayWrite(r)
    PROVE  WriteStep(r)
<1>1. request[r].step \in Seeding /\ request[r].step \in Holding
  BY DEF Seed, Seeding, Holding
<1>2. /\ FileOf(r) = entry /\ entry \in Request /\ file[entry] \in File
      /\ request[r] \in RequestState
  BY <1>1, HeldLab DEF MayWrite, HandlesInOrder, StateTypeOK
<1> DEFINE part == request[r].step
<1> DEFINE tables == WithFixture(file[entry].tables, part)
<1> DEFINE F == [file[entry] EXCEPT !.tables = tables]
<1> DEFINE q == [request[r] EXCEPT !.step = SeedOrder[part]]
<1>3. file[entry].tables \in Tables
  BY <1>2 DEF File
<1>4. /\ tables \in Tables
      /\ Bounded(tables.calendar) /\ Bounded(tables.drafts)
  <2>1. /\ Bounded(file[entry].tables.calendar) /\ Bounded(file[entry].tables.drafts)
        /\ file[entry].tables.calendar \in Table
    BY <1>2, <1>3, TableTypes DEF HandlesInOrder, TablesAreBounded
  <2>2. SeedEvent \in Item /\ SeedEventId \in Nat
    BY WebLabAssumption DEF SeedEvent, Item, SeedEventId
  <2>3. /\ tables \in Tables
        /\ \/ tables.calendar = file[entry].tables.calendar
           \/ tables.calendar
                  = WithRow(file[entry].tables.calendar, SeedEventId, SeedEvent)
        /\ tables.drafts = file[entry].tables.drafts
    BY <1>1, <1>3, FixtureTables
  <2>4. Bounded(WithRow(file[entry].tables.calendar, SeedEventId, SeedEvent))
    BY <2>1, <2>2, WithRowTable
  <2> HIDE DEF tables
  <2>5. QED
    BY <2>1, <2>3, <2>4
<1>5. /\ SeedOrder[part] \in Step
      /\ SeedOrder[part] \in {"calendar", "thread", "store"}
  BY <1>1 DEF SeedOrder, Seeding, Step, Acting, Creating
<1>6. file' = [file EXCEPT ![entry] = F] /\ request' = [request EXCEPT ![r] = q]
  BY <1>1 DEF Seed, GoTo, Go
<1> HIDE DEF tables
<1>7. /\ F \in File /\ F.tables = tables /\ F.shared = file[entry].shared
      /\ F.torn = file[entry].torn /\ F.locked_by = file[entry].locked_by
  BY <1>2, <1>4 DEF File
<1>8. /\ q \in RequestState /\ q.step = SeedOrder[part]
      /\ q.lab = request[r].lab /\ q.created = request[r].created
  BY <1>2, <1>5 DEF RequestState
<1> HIDE DEF F, q
<1>9. UNCHANGED <<directory, entry, lab, cached, deletion, crashes>>
  BY DEF Seed
<1>10. lab' \in [Request -> LabState \cup {NoLab}]
  BY <1>9 DEF HandlesInOrder, StateTypeOK
<1>11. Writes(r, F, q)
  BY <1>1, <1>2, <1>4, <1>6, <1>7, <1>8, <1>9, <1>10 DEF Writes
<1>12. FixtureAdded(r, F, q)
  BY <1>1, <1>2, <1>7, <1>8 DEF FixtureAdded, OldTables, tables
<1>13. QED
  BY <1>11, <1>12 DEF WriteStep

(* An id is taken from the LabState.                                       *)
LEMMA IdTaken ==
    ASSUME HandlesInOrder, NEW l \in Request, lab[l] \in LabState,
           NEW L \in LabState, L.file = lab[l].file, lab' = [lab EXCEPT ![l] = L]
    PROVE  /\ lab' \in [Request -> LabState \cup {NoLab}]
           /\ lab'[l] = L
           /\ \A k \in Request : /\ lab'[k].file = lab[k].file
                                 /\ lab'[k] = NoLab <=> lab[k] = NoLab
                                 /\ k # l => lab'[k] = lab[k]
<1>1. \A any \in LabState : any # NoLab
  BY WebLabAssumption DEF LabState, NoLab
<1>2. lab \in [Request -> LabState \cup {NoLab}]
  BY DEF HandlesInOrder, StateTypeOK
<1>3. QED
  BY <1>1, <1>2

LEMMA NextIds ==
    ASSUME NEW L \in LabState
    PROVE  LET event == [L EXCEPT !.next_cal_id = @ + 1]
               draft == [L EXCEPT !.next_draft_id = @ + 1]
           IN  /\ event \in LabState /\ event.file = L.file
               /\ event.next_cal_id = L.next_cal_id + 1
               /\ event.next_draft_id = L.next_draft_id
               /\ draft \in LabState /\ draft.file = L.file
               /\ draft.next_cal_id = L.next_cal_id
               /\ draft.next_draft_id = L.next_draft_id + 1
               /\ L.next_cal_id \in Nat /\ L.next_draft_id \in Nat
<1>1. L.next_cal_id \in Nat \ {0} /\ L.next_draft_id \in Nat \ {0}
  BY DEF LabState
<1>2. L.next_cal_id + 1 \in Nat \ {0} /\ L.next_draft_id + 1 \in Nat \ {0}
  BY <1>1
<1>3. QED
  BY <1>1, <1>2 DEF LabState

(* The call of an acting request that is accepted, and its item.           *)
LEMMA AcceptedCall ==
    ASSUME HandlesInOrder, NEW r \in Request, NEW call \in ToolCalls, NEW q,
           MayCall(r), Accepts(file[FileOf(r)].tables, call)
    PROVE  /\ Accepted(r, q, call)
           /\ request[r].step = "act" /\ request[r].step \in Holding
<1>1. request[r] \in RequestState /\ call \in ToolCall
  BY WebLabAssumption DEF HandlesInOrder, StateTypeOK
<1>2. request[r].step = "act" /\ request[r].step \in Holding
  BY DEF MayCall, At, Holding
<1>3. request[r].calls + 1 \in 1 .. MaxToolCalls
  BY <1>1, WebLabAssumption DEF RequestState, MayCall
<1>4. request[r].calls + 1 \in 0 .. MaxToolCalls
  BY <1>3
<1>5. ItemOf(r, call) \in Item
  BY <1>1, <1>4 DEF ItemOf, Item, ToolCall
<1>6. QED
  BY <1>2, <1>3, <1>5 DEF Accepted, OldTables

(* What the turn is told of a row: it is one.                              *)
LEMMA CreatedRow ==
    ASSUME HandlesInOrder, NEW r \in Request, NEW call, ItemOf(r, call) \in Item,
           FileOf(r) \in Request, NEW id \in Nat,
           NEW table \in {"calendar", "drafts"},
           NEW c \in RequestState
    PROVE  LET q == [c EXCEPT !.created = @ \cup {RowOf(r, table, id, call)}]
           IN  /\ q \in RequestState /\ q.step = c.step /\ q.lab = c.lab
               /\ q.calls = c.calls
               /\ q.created = c.created \cup {RowOf(r, table, id, call)}
               /\ RowOf(r, table, id, call).file = FileOf(r)
<1>1. RowOf(r, table, id, call) \in Row
  BY DEF RowOf, Row
<1>2. RowOf(r, table, id, call).file = FileOf(r)
  BY DEF RowOf
<1>3. c.created \cup {RowOf(r, table, id, call)} \in SUBSET Row
  BY <1>1 DEF RequestState
<1>4. QED
  BY <1>2, <1>3 DEF RequestState

LEMMA EventWrites ==
    ASSUME HandlesInOrder, NEW r \in Request, NEW call \in ToolCalls,
           CreateCalendarEvent(r, call)
    PROVE  WriteStep(r)
<1> DEFINE l == request[r].lab
<1> DEFINE f == FileOf(r)
<1> DEFINE id == lab[l].next_cal_id
<1> DEFINE L == [lab[l] EXCEPT !.next_cal_id = @ + 1]
<1>1. MayCall(r) /\ Accepts(file[f].tables, call)
  BY DEF CreateCalendarEvent
<1>2. \A q : Accepted(r, q, call)
  BY <1>1, AcceptedCall
<1>3. request[r].step = "act" /\ request[r].step \in Holding
  BY <1>1 DEF MayCall, At, Holding
<1>4. /\ l \in Request /\ lab[l] \in LabState /\ f \in Request /\ file[f] \in File
      /\ request[r] \in RequestState
  BY <1>3, HeldLab DEF HandlesInOrder, StateTypeOK
<1>5. /\ L \in LabState /\ L.file = lab[l].file /\ id \in Nat
      /\ L.next_cal_id = id + 1 /\ L.next_draft_id = lab[l].next_draft_id
      /\ lab[l].next_draft_id \in Nat
  BY <1>4, NextIds
<1>6. lab' = [lab EXCEPT ![l] = L]
  BY DEF CreateCalendarEvent
<1> HIDE DEF L
<1>7. /\ lab' \in [Request -> LabState \cup {NoLab}]
      /\ lab'[l] = L
      /\ \A k \in Request : /\ lab'[k].file = lab[k].file
                            /\ lab'[k] = NoLab <=> lab[k] = NoLab
                            /\ k # l => lab'[k] = lab[k]
  BY <1>4, <1>5, <1>6, IdTaken
<1>8. /\ file[f].tables \in Tables /\ Bounded(file[f].tables.calendar)
      /\ Bounded(file[f].tables.drafts)
  BY <1>4 DEF HandlesInOrder, TablesAreBounded, File
<1>9. UNCHANGED <<directory, entry, cached, deletion, crashes>>
  BY DEF CreateCalendarEvent
<1>10. \A failed \in BOOLEAN :
          LET c == Called(r, call, failed)
          IN  /\ c \in RequestState /\ c.step = "act" /\ c.lab = l
              /\ c.created = request[r].created
              /\ c.calls = request[r].calls + 1
  BY <1>1, <1>4, CalledRequest
<1>11. CASE call.zoned /\ MayWrite(r)
  <2>1. PICK c : c = Called(r, call, FALSE)
    OBVIOUS
  <2>2. /\ c \in RequestState /\ c.step = "act" /\ c.lab = l
        /\ c.created = request[r].created
        /\ c.calls = request[r].calls + 1
    BY <1>10, <2>1, Zenon
  <2> DEFINE tables == WithEvent(file[f].tables, id, ItemOf(r, call))
  <2> DEFINE F == [file[f] EXCEPT !.tables = tables, !.locked_by = None]
  <2> DEFINE q == [c EXCEPT !.created = @ \cup {RowOf(r, "calendar", id, call)}]
  <2>3. f = entry
    BY <1>11 DEF MayWrite
  <2>4. file' = [file EXCEPT ![f] = F]
    BY <1>11, <2>3 DEF CreateCalendarEvent
  <2>5. request' = [request EXCEPT ![r] = q]
    BY <1>11, <2>1, <2>3 DEF CreateCalendarEvent, RowOf, Go
  <2>6. ItemOf(r, call) \in Item
    BY <1>2 DEF Accepted
  <2>7. /\ tables \in Tables
        /\ Bounded(tables.calendar) /\ Bounded(tables.drafts)
    <3>1. file[f].tables.calendar \in Table
      BY <1>8, TableTypes
    <3>2. Bounded(WithRow(file[f].tables.calendar, id, ItemOf(r, call)))
      BY <1>5, <1>8, <2>6, <3>1, WithRowTable
    <3>3. QED
      BY <1>5, <1>8, <2>6, <3>2, EventTables DEF SameTablesBut
  <2> HIDE DEF tables
  <2>8. /\ F \in File /\ F.tables = tables /\ F.locked_by = None
        /\ F.shared = file[f].shared /\ F.torn = file[f].torn
    BY <1>4, <2>7 DEF File
  <2>9. /\ q \in RequestState /\ q.step = "act" /\ q.lab = l
        /\ q.calls = request[r].calls + 1
        /\ q.created = request[r].created \cup {RowOf(r, "calendar", id, call)}
        /\ \A row \in q.created \ request[r].created : row.file = f
    BY <1>4, <1>5, <2>2, <2>6, CreatedRow
  <2> HIDE DEF F, q
  <2>10. Writes(r, F, q)
    BY <1>3, <1>7, <1>9, <2>4, <2>5, <2>7, <2>8, <2>9 DEF Writes
  <2>11. EventCreated(r, F, q, call)
    <3>1. call.tool = "create_calendar_event"
      BY DEF CreateCalendarEvent
    <3>2. QED
      BY <1>2, <1>5, <1>7, <1>11, <2>8, <2>9, <3>1
         DEF EventCreated, OldTables, tables
  <2>12. QED
    BY <2>10, <2>11 DEF WriteStep
<1>12. CASE ~(call.zoned /\ MayWrite(r))
  <2>1. PICK c : c = Called(r, call, TRUE)
    OBVIOUS
  <2>2. /\ c \in RequestState /\ c.step = "act" /\ c.lab = l
        /\ c.created = request[r].created
        /\ c.calls = request[r].calls + 1
    BY <1>10, <2>1, Zenon
  <2>3. request' = [request EXCEPT ![r] = c] /\ UNCHANGED file
    BY <1>12, <2>1, Zenon DEF CreateCalendarEvent, Go
  <2>4. file' = [file EXCEPT ![f] = file[f]]
    BY <2>3, <1>4 DEF HandlesInOrder, StateTypeOK
  <2>5. Writes(r, file[f], c)
    BY <1>3, <1>4, <1>7, <1>8, <1>9, <2>2, <2>3, <2>4 DEF Writes
  <2>6. IdUsedUp(r, file[f], c)
    BY <1>3, <1>5, <1>7, <2>2 DEF IdUsedUp
  <2>7. QED
    BY <2>5, <2>6 DEF WriteStep
<1>13. QED
  BY <1>11, <1>12

LEMMA DraftWrites ==
    ASSUME HandlesInOrder, NEW r \in Request, NEW call \in ToolCalls,
           DraftMessage(r, call)
    PROVE  WriteStep(r)
<1> DEFINE l == request[r].lab
<1> DEFINE f == FileOf(r)
<1> DEFINE id == lab[l].next_draft_id
<1> DEFINE L == [lab[l] EXCEPT !.next_draft_id = @ + 1]
<1> DEFINE taken == id \in DOMAIN file[f].tables.drafts
<1>1. /\ MayCall(r) /\ Accepts(file[f].tables, call)
      /\ call.tool = "draft_message"
  BY DEF DraftMessage
<1>2. \A q : Accepted(r, q, call)
  BY <1>1, AcceptedCall
<1>3. request[r].step = "act" /\ request[r].step \in Holding
  BY <1>1 DEF MayCall, At, Holding
<1>4. /\ l \in Request /\ lab[l] \in LabState /\ f \in Request /\ file[f] \in File
      /\ request[r] \in RequestState
  BY <1>3, HeldLab DEF HandlesInOrder, StateTypeOK
<1>5. /\ L \in LabState /\ L.file = lab[l].file /\ id \in Nat
      /\ L.next_draft_id = id + 1 /\ L.next_cal_id = lab[l].next_cal_id
      /\ lab[l].next_cal_id \in Nat
  BY <1>4, NextIds
<1>6. lab' = [lab EXCEPT ![l] = L]
  BY DEF DraftMessage
<1> HIDE DEF L
<1>7. /\ lab' \in [Request -> LabState \cup {NoLab}]
      /\ lab'[l] = L
      /\ \A k \in Request : /\ lab'[k].file = lab[k].file
                            /\ lab'[k] = NoLab <=> lab[k] = NoLab
                            /\ k # l => lab'[k] = lab[k]
  BY <1>4, <1>5, <1>6, IdTaken
<1>8. /\ file[f].tables \in Tables /\ Bounded(file[f].tables.calendar)
      /\ Bounded(file[f].tables.drafts)
  BY <1>4 DEF HandlesInOrder, TablesAreBounded, File
<1>9. UNCHANGED <<directory, entry, cached, deletion, crashes>>
  BY DEF DraftMessage
<1>10. \A failed \in BOOLEAN :
          LET c == Called(r, call, failed)
          IN  /\ c \in RequestState /\ c.step = "act" /\ c.lab = l
              /\ c.created = request[r].created
              /\ c.calls = request[r].calls + 1
  BY <1>1, <1>4, CalledRequest
<1>11. CASE MayWrite(r) /\ ~taken
  <2>1. PICK c : c = Called(r, call, FALSE)
    OBVIOUS
  <2>2. /\ c \in RequestState /\ c.step = "act" /\ c.lab = l
        /\ c.created = request[r].created
        /\ c.calls = request[r].calls + 1
    BY <1>10, <2>1, Zenon
  <2> DEFINE tables == WithDraft(file[f].tables, id, ItemOf(r, call))
  <2> DEFINE F == [file[f] EXCEPT !.tables = tables, !.locked_by = None]
  <2> DEFINE q == [c EXCEPT !.created = @ \cup {RowOf(r, "drafts", id, call)}]
  <2>3. f = entry
    BY <1>11 DEF MayWrite
  <2>4. file' = [file EXCEPT ![f] = F]
    BY <1>11, <2>3 DEF DraftMessage
  <2>5. request' = [request EXCEPT ![r] = q]
    BY <1>11, <2>1, <2>3 DEF DraftMessage, RowOf, Go
  <2>6. ItemOf(r, call) \in Item
    BY <1>2 DEF Accepted
  <2>7. /\ tables \in Tables
        /\ Bounded(tables.calendar) /\ Bounded(tables.drafts)
    <3>1. file[f].tables.drafts \in Table
      BY <1>8, TableTypes
    <3>2. Bounded(WithRow(file[f].tables.drafts, id, ItemOf(r, call)))
      BY <1>5, <1>8, <2>6, <3>1, WithRowTable
    <3>3. QED
      BY <1>5, <1>8, <2>6, <3>2, DraftTables DEF SameTablesBut
  <2> HIDE DEF tables
  <2>8. /\ F \in File /\ F.tables = tables /\ F.locked_by = None
        /\ F.shared = file[f].shared /\ F.torn = file[f].torn
    BY <1>4, <2>7 DEF File
  <2>9. /\ q \in RequestState /\ q.step = "act" /\ q.lab = l
        /\ q.calls = request[r].calls + 1
        /\ q.created = request[r].created \cup {RowOf(r, "drafts", id, call)}
        /\ \A row \in q.created \ request[r].created : row.file = f
    BY <1>4, <1>5, <2>2, <2>6, CreatedRow
  <2> HIDE DEF F, q
  <2>10. Writes(r, F, q)
    BY <1>3, <1>7, <1>9, <2>4, <2>5, <2>7, <2>8, <2>9 DEF Writes
  <2>11. DraftCreated(r, F, q, call)
    BY <1>1, <1>2, <1>5, <1>7, <1>11, <2>8, <2>9 DEF DraftCreated, OldTables, tables
  <2>12. QED
    BY <2>10, <2>11 DEF WriteStep
<1>12. CASE ~(MayWrite(r) /\ ~taken)
  <2>1. PICK c : c = Called(r, call, TRUE)
    OBVIOUS
  <2>2. /\ c \in RequestState /\ c.step = "act" /\ c.lab = l
        /\ c.created = request[r].created
        /\ c.calls = request[r].calls + 1
    BY <1>10, <2>1, Zenon
  <2>3. request' = [request EXCEPT ![r] = c]
    BY <1>12, <2>1, Zenon DEF DraftMessage, Go
  <2>4. CASE MayWrite(r)
    <3> DEFINE F == [file[f] EXCEPT !.locked_by = l]
    <3>1. f = entry
      BY <2>4 DEF MayWrite
    <3>2. file' = [file EXCEPT ![f] = F]
      BY <1>12, <2>4, <3>1 DEF DraftMessage
    <3>3. /\ F \in File /\ F.tables = file[f].tables /\ F.locked_by = l
          /\ F.shared = file[f].shared /\ F.torn = file[f].torn
      BY <1>4 DEF File
    <3> HIDE DEF F
    <3>4. Writes(r, F, c)
      BY <1>3, <1>4, <1>7, <1>8, <1>9, <2>2, <2>3, <3>2, <3>3 DEF Writes
    <3>5. DraftCollided(r, F, c, call)
      BY <1>1, <1>2, <1>5, <1>7, <1>12, <2>2, <2>4, <3>3 DEF DraftCollided, OldTables
    <3>6. QED
      BY <3>4, <3>5 DEF WriteStep
  <2>5. CASE ~MayWrite(r)
    <3>1. file' = [file EXCEPT ![f] = file[f]]
      BY <1>4, <1>12, <2>5 DEF DraftMessage, HandlesInOrder, StateTypeOK
    <3>2. Writes(r, file[f], c)
      BY <1>3, <1>4, <1>7, <1>8, <1>9, <2>2, <2>3, <3>1 DEF Writes
    <3>3. IdUsedUp(r, file[f], c)
      BY <1>3, <1>5, <1>7, <2>2 DEF IdUsedUp
    <3>4. QED
      BY <3>2, <3>3 DEF WriteStep
  <2>6. QED
    BY <2>4, <2>5
<1>13. QED
  BY <1>11, <1>12

-----------------------------------------------------------------------------
(* A request opens the file of the user, which is its own when there was   *)
(* none.                                                                   *)
Name(r) == IF entry = None THEN r ELSE entry

Opens(r, q) ==
    /\ request[r].step = "open"
    /\ Name(r) \in Request
    /\ entry' = Name(r)
    /\ file' \in [Request -> File]
    /\ file'[Name(r)].tables = file[Name(r)].tables
    /\ file[Name(r)].locked_by = None /\ file'[Name(r)].locked_by = None
    /\ file'[Name(r)].torn = file[Name(r)].torn
    /\ file[Name(r)].shared => file'[Name(r)].shared
    /\ (\E l \in Request : lab[l].file = Name(r)) => file'[Name(r)].shared
    /\ \A f \in Request \ {Name(r)} : file'[f] = file[f]
    /\ lab' \in [Request -> LabState \cup {NoLab}]
    /\ lab[r] = NoLab /\ lab'[r] \in LabState /\ lab'[r].file = Name(r)
    /\ \A id \in DOMAIN file[Name(r)].tables.calendar : id < lab'[r].next_cal_id
    /\ \A id \in DOMAIN file[Name(r)].tables.drafts : id < lab'[r].next_draft_id
    /\ lab'[r].next_cal_id - 1 \in DOMAIN file[Name(r)].tables.calendar \cup {0}
    /\ lab'[r].next_draft_id - 1 \in DOMAIN file[Name(r)].tables.drafts \cup {0}
    /\ \A l \in Request \ {r} : lab'[l] = lab[l]
    /\ q \in RequestState /\ q.lab = r /\ q.created = request[r].created
    /\ q.step = IF file[Name(r)].tables.contacts = {} THEN "contact" ELSE "store"
    /\ request' = [request EXCEPT ![r] = q]
    /\ UNCHANGED <<directory, cached, deletion, crashes>>

LEMMA OpenSteps ==
    ASSUME HandlesInOrder, NEW r \in Request, Open(r)
    PROVE  \E q : Opens(r, q)
<1> DEFINE name == Name(r)
<1> DEFINE old == IF entry = None THEN NewFile ELSE file[entry]
<1> DEFINE shared == old.shared \/ \E l \in Request : lab[l].file = name
<1> DEFINE F == [old EXCEPT !.shared = shared]
<1> DEFINE L == [file |-> name,
                 next_cal_id |-> NextNumericId(old.tables.calendar),
                 next_draft_id |-> NextNumericId(old.tables.drafts)]
<1> DEFINE q == [request[r] EXCEPT
                    !.lab = r,
                    !.step = IF NeedsSeeding(old.tables) THEN FirstFixture ELSE "store"]
<1>1. request[r].step = "open" /\ request[r] \in RequestState
  BY DEF Open, At, HandlesInOrder, StateTypeOK
<1>2. name \in Request
  BY DEF HandlesInOrder, StateTypeOK, Name
<1>3. file[r] = NewFile /\ lab[r] = NoLab
  BY <1>1 DEF HandlesInOrder, UnopenedIsUnknown, Unopened
<1>4. old = file[name] /\ old \in File
  BY <1>2, <1>3 DEF HandlesInOrder, StateTypeOK, Name
<1>5. old.locked_by = None
  <2>1. CASE entry = None
    BY <2>1 DEF NewFile
  <2>2. CASE entry # None
    BY <2>2 DEF Open, IsLocked
  <2>3. QED
    BY <2>1, <2>2
<1>6. entry' = name
  BY DEF Open, Name
<1>7. file' = [file EXCEPT ![name] = F]
  BY DEF Open, Name
<1>8. lab' = [lab EXCEPT ![r] = L]
  BY DEF Open, Name
<1>9. request' = [request EXCEPT ![r] = q]
  BY Zenon DEF Open, Go
<1>10. shared \in BOOLEAN
  OBVIOUS
<1>11. /\ old.tables \in Tables /\ Bounded(old.tables.calendar)
       /\ Bounded(old.tables.drafts)
  BY <1>2, <1>4 DEF HandlesInOrder, TablesAreBounded, File
<1>12. /\ L \in LabState /\ L.file = name
       /\ \A id \in DOMAIN old.tables.calendar : id < L.next_cal_id
       /\ \A id \in DOMAIN old.tables.drafts : id < L.next_draft_id
       /\ L.next_cal_id - 1 \in DOMAIN old.tables.calendar \cup {0}
       /\ L.next_draft_id - 1 \in DOMAIN old.tables.drafts \cup {0}
  <2>1. DOMAIN old.tables.calendar \subseteq Nat /\ DOMAIN old.tables.drafts \subseteq Nat
    BY <1>11, TableTypes
  <2>2. /\ NextNumericId(old.tables.calendar) \in Nat \ {0}
        /\ \A id \in DOMAIN old.tables.calendar : id < NextNumericId(old.tables.calendar)
        /\ NextNumericId(old.tables.calendar) - 1 \in DOMAIN old.tables.calendar \cup {0}
    BY <1>11, <2>1, NextNumericIdIsFree
  <2>3. /\ NextNumericId(old.tables.drafts) \in Nat \ {0}
        /\ \A id \in DOMAIN old.tables.drafts : id < NextNumericId(old.tables.drafts)
        /\ NextNumericId(old.tables.drafts) - 1 \in DOMAIN old.tables.drafts \cup {0}
    BY <1>11, <2>1, NextNumericIdIsFree
  <2> HIDE DEF old, name
  <2>4. QED
    BY <1>2, <2>2, <2>3 DEF LabState
<1>13. /\ q \in RequestState /\ q.lab = r /\ q.created = request[r].created
       /\ q.step = IF old.tables.contacts = {} THEN "contact" ELSE "store"
  <2>1. \A step \in {"contact", "store"} :
            LET p == [request[r] EXCEPT !.lab = r, !.step = step]
            IN  /\ p \in RequestState /\ p.lab = r /\ p.step = step
                /\ p.created = request[r].created
    <3>1. {"contact", "store"} \subseteq Step
      BY DEF Step, Acting, Creating, SeedOrder
    <3>2. QED
      BY <1>1, <3>1 DEF RequestState
  <2> HIDE DEF old
  <2>2. QED
    BY <2>1, FirstFixtureIsContact DEF NeedsSeeding
<1> HIDE DEF L, q
<1>14. /\ F \in File /\ F.tables = old.tables /\ F.locked_by = old.locked_by
       /\ F.torn = old.torn /\ (shared => F.shared)
  <2> HIDE DEF shared, old
  <2>1. QED
    BY <1>4, <1>10 DEF File
<1>15. /\ file \in [Request -> File] /\ lab \in [Request -> LabState \cup {NoLab}]
  BY DEF HandlesInOrder, StateTypeOK
<1>16. old.shared => shared
  OBVIOUS
<1>17. (\E l \in Request : lab[l].file = name) => shared
  OBVIOUS
<1> HIDE DEF F, shared, old
<1>18. /\ file' \in [Request -> File] /\ file'[name] = F
       /\ \A f \in Request \ {name} : file'[f] = file[f]
  BY <1>2, <1>7, <1>14, <1>15
<1>19. /\ lab' \in [Request -> LabState \cup {NoLab}] /\ lab'[r] = L
       /\ \A l \in Request \ {r} : lab'[l] = lab[l]
  BY <1>8, <1>12, <1>15
<1>20. UNCHANGED <<directory, cached, deletion, crashes>>
  BY DEF Open
<1>21. Opens(r, q)
  BY <1>1, <1>2, <1>3, <1>4, <1>5, <1>6, <1>9, <1>12, <1>13, <1>14, <1>16, <1>17,
     <1>18, <1>19, <1>20 DEF Opens
<1>22. QED
  BY <1>21

LEMMA OpenKeepsHandles ==
    ASSUME HandlesInOrder, NEW r \in Request, NEW q, Opens(r, q)
    PROVE  HandlesInOrder'
<1>1. /\ request' \in [Request -> RequestState]
      /\ request'[r] = q
      /\ \A other \in Request \ {r} : request'[other] = request[other]
  BY OneRequestMoves DEF Opens
<1>2. q.step \in Holding /\ q.step \notin Unopened
  BY DEF Opens, Holding, Unopened, Seeding, SeedOrder
<1>3. \A any \in LabState : any # NoLab
  BY WebLabAssumption DEF LabState, NoLab
<1>4. StateTypeOK'
  BY <1>1 DEF HandlesInOrder, StateTypeOK, Opens
<1>5. TablesAreBounded'
  BY DEF HandlesInOrder, TablesAreBounded, Opens
<1>6. HandlesAreOpen'
  <2>1. \A l \in Request : lab[l] # NoLab => lab'[l] # NoLab
    BY DEF Opens
  <2>2. ASSUME NEW other \in Request
        PROVE  /\ IF request'[other].step \in Holding
                  THEN /\ request'[other].lab # None
                       /\ lab'[request'[other].lab] # NoLab
                  ELSE request'[other].lab = None
               /\ request'[other].step \in Seeding \cup {"store"} =>
                      request'[other].lab = other
    <3>1. CASE other = r
      BY <1>1, <1>2, <1>3, <3>1, WebLabAssumption DEF Opens
    <3>2. CASE other # r
      <4>1. request'[other] = request[other]
        BY <1>1, <3>2
      <4>2. request[other].step \in Holding =>
                request[other].lab # None /\ lab'[request[other].lab] # NoLab
        BY <2>1, HeldLab, WebLabAssumption
      <4>3. QED
        BY <4>1, <4>2 DEF HandlesInOrder, HandlesAreOpen
    <3>3. QED
      BY <3>1, <3>2
  <2>3. cached' # None => lab'[cached'] # NoLab
    BY <2>1 DEF Opens, HandlesInOrder, HandlesAreOpen, StateTypeOK
  <2>4. QED
    BY <2>2, <2>3 DEF HandlesAreOpen
<1>7. UnopenedIsUnknown'
  <2> SUFFICES ASSUME NEW late \in Request, request'[late].step \in Unopened
               PROVE  /\ file'[late] = NewFile
                      /\ lab'[late] = NoLab
                      /\ entry' # late
                      /\ \A l \in Request : lab'[l].file # late
                      /\ \A other \in Request :
                            \A row \in request'[other].created : row.file # late
    BY DEF UnopenedIsUnknown
  <2>1. late # r
    BY <1>1, <1>2
  <2>2. /\ file[late] = NewFile /\ lab[late] = NoLab /\ entry # late
        /\ \A l \in Request : lab[l].file # late
        /\ \A other \in Request : \A row \in request[other].created : row.file # late
    BY <1>1, <2>1 DEF HandlesInOrder, UnopenedIsUnknown
  <2>3. Name(r) # late
    BY <2>1, <2>2 DEF Name
  <2>4. \A other \in Request : \A row \in request'[other].created : row.file # late
    BY <1>1, <2>2 DEF Opens
  <2>5. \A l \in Request : lab'[l].file # late
    BY <2>2, <2>3 DEF Opens
  <2>6. QED
    BY <2>1, <2>2, <2>3, <2>4, <2>5 DEF Opens
<1>8. QED
  BY <1>4, <1>5, <1>6, <1>7 DEF HandlesInOrder

-----------------------------------------------------------------------------
(* A LabState is collected, or all of them are with the server.            *)
Collects(l) ==
    /\ lab[l] # NoLab /\ l # cached
    /\ \A r \in Request : request[r].lab # l
    /\ lab' \in [Request -> LabState \cup {NoLab}] /\ lab'[l] = NoLab
    /\ \A k \in Request \ {l} : lab'[k] = lab[k]
    /\ file' \in [Request -> File]
    /\ \A f \in Request : /\ file'[f].tables = file[f].tables
                          /\ file'[f].locked_by \in {None, file[f].locked_by}
                          /\ file'[f].shared = file[f].shared
                          /\ file'[f].torn = file[f].torn
                          /\ file'[f] # file[f] => f = lab[l].file
    /\ UNCHANGED <<directory, entry, cached, request, deletion, crashes>>

LEMMA CollectSteps ==
    ASSUME HandlesInOrder, NEW l \in Request, Collect(l)
    PROVE  Collects(l)
<1> DEFINE f == lab[l].file
<1> DEFINE F == Unlocked(file[f], l)
<1>1. lab[l] \in LabState /\ lab \in [Request -> LabState \cup {NoLab}]
  BY DEF HandlesInOrder, StateTypeOK, Collect
<1>2. f \in Request /\ file[f] \in File /\ file \in [Request -> File]
  BY <1>1 DEF LabState, HandlesInOrder, StateTypeOK
<1>3. /\ F \in File /\ F.tables = file[f].tables
      /\ F.locked_by \in {None, file[f].locked_by}
      /\ F.shared = file[f].shared /\ F.torn = file[f].torn
  <2>1. CASE file[f].locked_by = l
    <3>1. F = [file[f] EXCEPT !.locked_by = None]
      BY <2>1 DEF Unlocked
    <3>2. QED
      BY <1>2, <3>1 DEF File
  <2>2. CASE file[f].locked_by # l
    BY <1>2, <2>2 DEF Unlocked
  <2>3. QED
    BY <2>1, <2>2
<1>4. file' = [file EXCEPT ![f] = F] /\ lab' = [lab EXCEPT ![l] = NoLab]
  BY DEF Collect
<1> HIDE DEF F
<1>5. file' \in [Request -> File] /\ file'[f] = F
  BY <1>2, <1>3, <1>4
<1>6. \A other \in Request \ {f} : file'[other] = file[other]
  BY <1>2, <1>4
<1>7. lab' \in [Request -> LabState \cup {NoLab}] /\ lab'[l] = NoLab
  BY <1>1, <1>4
<1>8. \A k \in Request \ {l} : lab'[k] = lab[k]
  BY <1>1, <1>4
<1>9. /\ lab[l] # NoLab /\ l # cached
      /\ \A r \in Request : request[r].lab # l
      /\ UNCHANGED <<directory, entry, cached, request, deletion, crashes>>
  BY DEF Collect
<1>10. QED
  BY <1>3, <1>5, <1>6, <1>7, <1>8, <1>9 DEF Collects

LEMMA CollectKeepsHandles ==
    ASSUME HandlesInOrder, NEW l \in Request, Collects(l)
    PROVE  HandlesInOrder'
<1>1. StateTypeOK'
  BY DEF HandlesInOrder, StateTypeOK, Collects
<1>2. TablesAreBounded'
  BY DEF HandlesInOrder, TablesAreBounded, Collects
<1>3. HandlesAreOpen'
  <2>1. \A k \in Request : (k # l /\ lab[k] # NoLab) => lab'[k] # NoLab
    BY DEF Collects
  <2>2. ASSUME NEW r \in Request
        PROVE  request'[r].step \in Holding =>
                   request'[r].lab # None /\ lab'[request'[r].lab] # NoLab
    BY <2>1, HeldLab, WebLabAssumption DEF Collects
  <2>3. cached' # None => lab'[cached'] # NoLab
    BY <2>1 DEF Collects, HandlesInOrder, HandlesAreOpen, StateTypeOK
  <2>4. QED
    BY <2>2, <2>3 DEF Collects, HandlesInOrder, HandlesAreOpen
<1>4. UnopenedIsUnknown'
  <2>1. NoLab.file \notin Request
    BY WebLabAssumption DEF NoLab
  <2>2. QED
    BY <2>1 DEF Collects, HandlesInOrder, UnopenedIsUnknown
<1>5. QED
  BY <1>1, <1>2, <1>3, <1>4 DEF HandlesInOrder

Restarts ==
    /\ lab' = [l \in Request |-> NoLab]
    /\ cached' = None
    /\ file' \in [Request -> File]
    /\ \A f \in Request :
          /\ file'[f].tables = file[f].tables
          /\ file'[f].locked_by = None
          /\ file'[f].shared = file[f].shared
          /\ file[f].torn => file'[f].torn
          /\ (\E r \in Request : request[r].step \in Seeding /\ FileOf(r) = f)
                 => file'[f].torn
          /\ file[f] = NewFile =>
                 file'[f] = NewFile
                     \/ \E r \in Request : request[r].step \in Seeding /\ FileOf(r) = f
    /\ request' \in [Request -> RequestState]
    /\ \A r \in Request :
          IF request[r].step \in {"new"} \cup Ended
          THEN request'[r] = request[r]
          ELSE /\ request'[r].step = "lost" /\ request'[r].lab = None
               /\ request'[r].created = {}
    /\ crashes' \in 0 .. MaxCrashes
    /\ UNCHANGED <<directory, entry, deletion>>

LEMMA RestartSteps ==
    ASSUME HandlesInOrder, Restart
    PROVE  Restarts
<1> DEFINE torn(f) ==
              file[f].torn \/ \E r \in InFlight : /\ request[r].step \in DOMAIN SeedOrder
                                                  /\ FileOf(r) = f
<1> DEFINE F(f) == [file[f] EXCEPT !.locked_by = None, !.torn = torn(f)]
<1>1. /\ file \in [Request -> File] /\ request \in [Request -> RequestState]
      /\ crashes \in 0 .. MaxCrashes
  BY DEF HandlesInOrder, StateTypeOK
<1>2. file' = [f \in Request |-> F(f)]
  BY DEF Restart
<1>3. \A r \in Request : /\ request[r].step \in Step
                         /\ r \in InFlight <=> request[r].step \notin {"new"} \cup Ended
  <2>1. \A r \in Request : request[r].step \in Step
    BY <1>1 DEF RequestState
  <2>2. /\ Step = Acting \cup {"new", "serve", "answered", "failed", "lost"}
        /\ Ended = {"answered", "failed", "lost"}
        /\ \A step \in {"new", "serve", "answered", "failed", "lost"} : step \notin Acting
    BY DEF Step, Ended, Acting, Creating, SeedOrder
  <2>3. QED
    BY <2>1, <2>2 DEF InFlight
<1>4. Seeding \cap ({"new"} \cup Ended) = {}
  BY DEF Seeding, SeedOrder, Ended
<1>5. \A f \in Request : torn(f) \in BOOLEAN
  OBVIOUS
<1>6. \A f \in Request :
          /\ file[f].torn => torn(f)
          /\ (\E r \in Request : request[r].step \in Seeding /\ FileOf(r) = f) => torn(f)
          /\ torn(f) => \/ file[f].torn
                        \/ \E r \in Request : request[r].step \in Seeding /\ FileOf(r) = f
  BY <1>3, <1>4 DEF Seeding, InFlight
<1> HIDE DEF torn
<1>7. \A f \in Request :
          /\ F(f) \in File /\ F(f).tables = file[f].tables /\ F(f).locked_by = None
          /\ F(f).shared = file[f].shared /\ F(f).torn = torn(f)
  BY <1>1, <1>5 DEF File
<1>8. \A f \in Request : (file[f].locked_by = None /\ file[f].torn = torn(f)) => F(f) = file[f]
  BY <1>1 DEF File
<1> HIDE DEF F
<1>9. file' \in [Request -> File] /\ \A f \in Request : file'[f] = F(f)
  BY <1>2, <1>7
<1>10. NewFile.locked_by = None /\ ~NewFile.torn
  BY DEF NewFile
<1>11. \A f \in Request :
           file[f] = NewFile =>
               F(f) = NewFile
                   \/ \E r \in Request : request[r].step \in Seeding /\ FileOf(r) = f
  <2> SUFFICES ASSUME NEW f \in Request, file[f] = NewFile,
                      ~\E r \in Request : request[r].step \in Seeding /\ FileOf(r) = f
               PROVE  F(f) = NewFile
    OBVIOUS
  <2>1. file[f].torn \in BOOLEAN
    BY <1>1 DEF File
  <2>2. file[f].torn = torn(f)
    BY <1>5, <1>6, <2>1, Zenon
  <2>3. QED
    BY <1>8, <1>10, <2>2
<1> DEFINE lost == [NewRequest EXCEPT !.step = "lost"]
<1>12. /\ lost \in RequestState /\ lost.step = "lost" /\ lost.lab = None
       /\ lost.created = {}
  BY OverRequest DEF Ended
<1>13. request' = [r \in Request |-> IF r \in InFlight THEN lost ELSE request[r]]
  BY DEF Restart
<1> HIDE DEF lost
<1>14. request' \in [Request -> RequestState]
  BY <1>1, <1>12, <1>13
<1>15. \A r \in Request :
          IF request[r].step \in {"new"} \cup Ended
          THEN request'[r] = request[r]
          ELSE /\ request'[r].step = "lost" /\ request'[r].lab = None
               /\ request'[r].created = {}
  BY <1>3, <1>12, <1>13
<1>16. crashes' \in 0 .. MaxCrashes
  <2>1. crashes < MaxCrashes /\ crashes' = crashes + 1
    BY DEF Restart
  <2>2. QED
    BY <1>1, <2>1, WebLabAssumption
<1>17. /\ lab' = [l \in Request |-> NoLab] /\ cached' = None
       /\ UNCHANGED <<directory, entry, deletion>>
  BY DEF Restart
<1>18. QED
  BY <1>6, <1>7, <1>9, <1>11, <1>14, <1>15, <1>16, <1>17 DEF Restarts

LEMMA RestartKeepsHandles ==
    ASSUME HandlesInOrder, Restarts
    PROVE  HandlesInOrder'
<1>1. StateTypeOK'
  BY DEF HandlesInOrder, StateTypeOK, Restarts
<1>2. TablesAreBounded'
  BY DEF HandlesInOrder, TablesAreBounded, Restarts
<1>3. \A r \in Request : /\ request'[r].step \notin Holding
                         /\ request'[r].lab = None
  <2>1. ({"new"} \cup Ended) \cap Holding = {}
    BY DEF Ended, Holding, Seeding, SeedOrder
  <2>2. \A r \in Request : request[r].step \notin Holding => request[r].lab = None
    BY DEF HandlesInOrder, HandlesAreOpen
  <2>3. "lost" \notin Holding
    BY DEF Holding, Seeding, SeedOrder
  <2>4. QED
    BY <2>1, <2>2, <2>3 DEF Restarts
<1>4. HandlesAreOpen'
  <2>1. Seeding \cup {"store"} \subseteq Holding
    BY DEF Holding
  <2>2. QED
    BY <1>3, <2>1 DEF HandlesAreOpen, Restarts
<1>5. UnopenedIsUnknown'
  <2> SUFFICES ASSUME NEW late \in Request, request'[late].step \in Unopened
               PROVE  /\ file'[late] = NewFile
                      /\ lab'[late] = NoLab
                      /\ entry' # late
                      /\ \A l \in Request : lab'[l].file # late
                      /\ \A other \in Request :
                            \A row \in request'[other].created : row.file # late
    BY DEF UnopenedIsUnknown
  <2>1. request[late].step \in Unopened
    <3>1. "lost" \notin Unopened
      BY DEF Unopened
    <3>2. QED
      BY <3>1 DEF Restarts
  <2>2. /\ file[late] = NewFile /\ lab[late] = NoLab /\ entry # late
        /\ \A l \in Request : lab[l].file # late
        /\ \A other \in Request : \A row \in request[other].created : row.file # late
    BY <2>1 DEF HandlesInOrder, UnopenedIsUnknown
  <2>3. \A r \in Request : request[r].step \in Seeding => FileOf(r) # late
    <3>1. Seeding \subseteq Holding
      BY DEF Holding
    <3>2. QED
      BY <2>2, <3>1, HeldLab DEF FileOf
  <2>4. file'[late] = NewFile
    BY <2>2, <2>3 DEF Restarts
  <2>5. \A other \in Request : request'[other].created \subseteq request[other].created
    BY DEF Restarts
  <2>6. NoLab.file # late
    BY WebLabAssumption DEF NoLab
  <2>7. QED
    BY <2>2, <2>4, <2>5, <2>6 DEF Restarts
<1>6. QED
  BY <1>1, <1>2, <1>4, <1>5 DEF HandlesInOrder

-----------------------------------------------------------------------------
(* A deletion removes the file, or the directory, or finds neither.        *)
Removes(d) ==
    /\ directory' \in BOOLEAN
    /\ entry' \in {entry, None}
    /\ deletion' \in [Deletion -> DeletionState]
    /\ \A other \in Deletion \ {d} : deletion'[other] = deletion[other]
    /\ \/ deletion'[d].before = deletion[d].before
       \/ entry' = None /\ deletion'[d].before = ItemsIn(Stored)
    /\ UNCHANGED <<file, lab, cached, request, crashes>>

LEMMA StoredTables ==
    ASSUME HandlesInOrder
    PROVE  Stored \in Tables /\ ItemsIn(Stored) \in SUBSET Item
<1>1. Stored \in Tables
  <2>1. CASE entry = None
    BY <2>1, NoTablesType DEF Stored
  <2>2. CASE entry # None
    BY <2>2 DEF HandlesInOrder, StateTypeOK, File, Stored
  <2>3. QED
    BY <2>1, <2>2
<1>2. /\ \A id \in DOMAIN Stored.calendar : Stored.calendar[id] \in Item
      /\ \A id \in DOMAIN Stored.drafts : Stored.drafts[id] \in Item
  BY <1>1, TableTypes
<1>3. QED
  BY <1>1, <1>2 DEF ItemsIn

LEMMA RemoveSteps ==
    ASSUME HandlesInOrder, NEW d \in Deletion,
           RemoveFile(d) \/ RemoveDirectory(d)
    PROVE  Removes(d)
<1>1. /\ deletion \in [Deletion -> DeletionState] /\ directory \in BOOLEAN
      /\ deletion[d] \in DeletionState
  BY DEF HandlesInOrder, StateTypeOK
<1>2. ItemsIn(Stored) \in SUBSET Item
  BY StoredTables
<1>3. CASE RemoveFile(d)
  <2>1. CASE directory
    <3> DEFINE D == [step |-> "rmdir", before |-> ItemsIn(Stored)]
    <3>1. D \in DeletionState /\ D.before = ItemsIn(Stored)
      BY <1>2 DEF DeletionState
    <3>2. deletion' = [deletion EXCEPT ![d] = D] /\ entry' = None
      BY <1>3, <2>1 DEF RemoveFile
    <3>3. UNCHANGED <<directory, file, lab, cached, request, crashes>>
      BY <1>3 DEF RemoveFile
    <3> HIDE DEF D
    <3>4. /\ deletion' \in [Deletion -> DeletionState] /\ deletion'[d] = D
          /\ \A other \in Deletion \ {d} : deletion'[other] = deletion[other]
      BY <1>1, <3>1, <3>2
    <3>5. QED
      BY <1>1, <3>1, <3>2, <3>3, <3>4 DEF Removes
  <2>2. CASE ~directory
    <3> DEFINE D == [deletion[d] EXCEPT !.step = "failed"]
    <3>1. D \in DeletionState /\ D.before = deletion[d].before
      BY <1>1 DEF DeletionState
    <3>2. deletion' = [deletion EXCEPT ![d] = D] /\ entry' = entry
      BY <1>3, <2>2 DEF RemoveFile
    <3>3. UNCHANGED <<directory, file, lab, cached, request, crashes>>
      BY <1>3 DEF RemoveFile
    <3> HIDE DEF D
    <3>4. /\ deletion' \in [Deletion -> DeletionState] /\ deletion'[d] = D
          /\ \A other \in Deletion \ {d} : deletion'[other] = deletion[other]
      BY <1>1, <3>1, <3>2
    <3>5. QED
      BY <1>1, <3>1, <3>2, <3>3, <3>4 DEF Removes
  <2>3. QED
    BY <2>1, <2>2
<1>4. CASE RemoveDirectory(d)
  <2> DEFINE step == IF directory /\ entry = None THEN "deleted" ELSE "failed"
  <2> DEFINE D == [deletion[d] EXCEPT !.step = step]
  <2>1. D \in DeletionState /\ D.before = deletion[d].before
    BY <1>1 DEF DeletionState
  <2>2. deletion' = [deletion EXCEPT ![d] = D]
    BY <1>4 DEF RemoveDirectory
  <2>3. UNCHANGED <<entry, file, lab, cached, request, crashes>>
    BY <1>4 DEF RemoveDirectory
  <2>4. directory' \in BOOLEAN
    <3>1. directory' = (directory /\ entry # None)
      BY <1>4 DEF RemoveDirectory
    <3>2. (directory /\ entry # None) \in BOOLEAN
      OBVIOUS
    <3>3. QED
      BY <3>1, <3>2, Zenon
  <2> HIDE DEF D
  <2>5. /\ deletion' \in [Deletion -> DeletionState] /\ deletion'[d] = D
        /\ \A other \in Deletion \ {d} : deletion'[other] = deletion[other]
    BY <1>1, <2>1, <2>2
  <2>6. QED
    BY <2>1, <2>3, <2>4, <2>5 DEF Removes
<1>5. QED
  BY <1>3, <1>4

LEMMA RemovalKeepsHandles ==
    ASSUME HandlesInOrder, NEW d \in Deletion, Removes(d)
    PROVE  HandlesInOrder'
<1>1. StateTypeOK'
  BY DEF HandlesInOrder, StateTypeOK, Removes
<1>2. TablesAreBounded'
  BY DEF HandlesInOrder, TablesAreBounded, Removes
<1>3. HandlesAreOpen'
  BY DEF HandlesInOrder, HandlesAreOpen, Removes
<1>4. UnopenedIsUnknown'
  BY WebLabAssumption DEF HandlesInOrder, UnopenedIsUnknown, Removes
<1>5. QED
  BY <1>1, <1>2, <1>3, <1>4 DEF HandlesInOrder

(* Each step of the lab is of one of these kinds.                          *)
LEMMA KindsOfSteps ==
    ASSUME HandlesInOrder, Next
    PROVE  \/ \E r \in Request : QuietStep(r)
           \/ \E r \in Request : WriteStep(r)
           \/ \E r \in Request : \E q : Opens(r, q)
           \/ \E l \in Request : Collects(l)
           \/ \E d \in Deletion : Removes(d)
           \/ Restarts
<1>1. ASSUME NEW r \in Request, QuietAction(r)
      PROVE  QuietStep(r)
  BY <1>1, QuietSteps
<1>2. ASSUME NEW r \in Request, Seed(r), MayWrite(r)
      PROVE  WriteStep(r)
  BY <1>2, SeedWrites
<1>3. ASSUME NEW r \in Request, NEW call \in ToolCalls,
             CreateCalendarEvent(r, call) \/ DraftMessage(r, call)
      PROVE  WriteStep(r)
  BY <1>3, EventWrites, DraftWrites
<1>4. ASSUME NEW r \in Request, Open(r)
      PROVE  \E q : Opens(r, q)
  BY <1>4, OpenSteps
<1>5. ASSUME NEW l \in Request, Collect(l)
      PROVE  Collects(l)
  BY <1>5, CollectSteps
<1>6. ASSUME NEW d \in Deletion, RemoveFile(d) \/ RemoveDirectory(d)
      PROVE  Removes(d)
  BY <1>6, RemoveSteps
<1>7. Restart => Restarts
  BY RestartSteps
<1>8. \/ \E r \in Request : QuietAction(r) \/ (Seed(r) /\ MayWrite(r)) \/ Open(r)
                                \/ Collect(r)
      \/ \E r \in Request : \E call \in ToolCalls :
             CreateCalendarEvent(r, call) \/ DraftMessage(r, call)
      \/ \E d \in Deletion : RemoveFile(d) \/ RemoveDirectory(d)
      \/ Restart
  BY Zenon DEF Next, QuietAction
<1>9. QED
  BY <1>1, <1>2, <1>3, <1>4, <1>5, <1>6, <1>7, <1>8, Zenon

LEMMA InitHandles == Init => HandlesInOrder
<1> SUFFICES ASSUME Init PROVE HandlesInOrder
  OBVIOUS
<1>1. NewFile.tables = NoTables /\ NewFile \in File
  <2>1. \A no \in BOOLEAN :
            [tables |-> NoTables, locked_by |-> None, shared |-> no, torn |-> no] \in File
    BY NoTablesType DEF File
  <2>2. NewFile \in File
    BY <2>1, Zenon DEF NewFile
  <2>3. QED
    BY <2>2 DEF NewFile
<1>2. /\ directory = FALSE /\ entry = None /\ cached = None /\ crashes = 0
      /\ file = [r \in Request |-> NewFile]
      /\ lab = [r \in Request |-> NoLab]
      /\ request = [r \in Request |-> NewRequest]
      /\ deletion = [d \in Deletion |-> [step |-> "new", before |-> {}]]
  BY DEF Init
<1>3. [step |-> "new", before |-> {}] \in DeletionState
  BY DEF DeletionState
<1>4. directory \in BOOLEAN /\ crashes \in 0 .. MaxCrashes
  <2>1. directory \in BOOLEAN
    BY <1>2, Zenon
  <2>2. crashes \in 0 .. MaxCrashes
    BY <1>2, WebLabAssumption
  <2>3. QED
    BY <2>1, <2>2
<1>5. /\ file \in [Request -> File] /\ request \in [Request -> RequestState]
      /\ deletion \in [Deletion -> DeletionState]
      /\ lab \in [Request -> LabState \cup {NoLab}]
  BY <1>1, <1>2, <1>3, NewRequestType
<1>6. StateTypeOK
  BY <1>2, <1>4, <1>5 DEF StateTypeOK
<1>7. TablesAreBounded
  BY <1>1, <1>2, NoTablesType, EmptyTable DEF TablesAreBounded
<1>8. HandlesAreOpen
  <2>1. NewRequest.step \notin Holding /\ NewRequest.step \notin Seeding \cup {"store"}
    BY NewRequestType DEF Holding, Seeding, SeedOrder
  <2>2. QED
    BY <1>2, <2>1, NewRequestType DEF HandlesAreOpen
<1>9. UnopenedIsUnknown
  <2>1. NoLab.file \notin Request
    BY WebLabAssumption DEF NoLab
  <2>2. QED
    BY <1>2, <2>1, NewRequestType, WebLabAssumption DEF UnopenedIsUnknown
<1>10. QED
  BY <1>6, <1>7, <1>8, <1>9 DEF HandlesInOrder

LEMMA HandlesStayInOrder == HandlesInOrder /\ [Next]_wvars => HandlesInOrder'
<1> SUFFICES ASSUME HandlesInOrder, [Next]_wvars PROVE HandlesInOrder'
  OBVIOUS
<1>1. CASE Next
  BY <1>1, KindsOfSteps, QuietKeepsHandles, WriteKeepsHandles, OpenKeepsHandles,
     CollectKeepsHandles, RemovalKeepsHandles, RestartKeepsHandles, Zenon DEF WriteStep
<1>2. CASE UNCHANGED wvars
  BY <1>2 DEF wvars, HandlesInOrder, StateTypeOK, TablesAreBounded, HandlesAreOpen,
              UnopenedIsUnknown, FileOf
<1>3. QED
  BY <1>1, <1>2

(***************************************************************************)
(* Who holds which LabState, and what nobody has opened, stays in order.   *)
(***************************************************************************)
THEOREM HandlesHold == Spec => []HandlesInOrder
<1>1. Init => HandlesInOrder
  BY InitHandles
<1>2. HandlesInOrder /\ [Next]_wvars => HandlesInOrder'
  BY HandlesStayInOrder
<1>3. QED
  BY <1>1, <1>2, PTL DEF Spec

(***************************************************************************)
(* The state of the lab has its type, and whoever refers to a LabState     *)
(* refers to one that is open.                                             *)
(***************************************************************************)
THEOREM LabTyped == Spec => []TypeOK
<1>1. HandlesInOrder => TypeOK
  <2> SUFFICES ASSUME HandlesInOrder PROVE TypeOK
    OBVIOUS
  <2>1. /\ directory \in BOOLEAN /\ entry \in Request \cup {None}
        /\ crashes \in 0 .. MaxCrashes
        /\ cached # None => lab[cached] # NoLab
    BY DEF HandlesInOrder, StateTypeOK, HandlesAreOpen
  <2>2. ASSUME NEW r \in Request
        PROVE  /\ TablesTypeOK(file[r].tables)
               /\ file[r].locked_by \in Request \cup {None}
               /\ file[r].shared \in BOOLEAN /\ file[r].torn \in BOOLEAN
    <3>1. file[r] \in File
      BY DEF HandlesInOrder, StateTypeOK
    <3>2. file[r].tables \in Tables
      BY <3>1 DEF File
    <3>3. TablesTypeOK(file[r].tables)
      BY <3>2, TableTypes DEF TablesTypeOK, IsTable
    <3>4. QED
      BY <3>1, <3>3 DEF File
  <2>3. ASSUME NEW r \in Request
        PROVE  lab[r] # NoLab =>
                   /\ lab[r].file \in Request
                   /\ lab[r].next_cal_id \in Nat \ {0}
                   /\ lab[r].next_draft_id \in Nat \ {0}
    BY DEF HandlesInOrder, StateTypeOK, LabState
  <2>4. ASSUME NEW r \in Request
        PROVE  /\ request[r].step \in Step
               /\ request[r].calls \in 0 .. MaxToolCalls
               /\ \A row \in request[r].created : row \in Row
               /\ request[r].lab # None => lab[request[r].lab] # NoLab
    BY DEF HandlesInOrder, StateTypeOK, RequestState, HandlesAreOpen
  <2>5. QED
    BY <2>1, <2>2, <2>3, <2>4 DEF TypeOK
<1>2. QED
  BY <1>1, HandlesHold, PTL

-----------------------------------------------------------------------------
(* One LabState never locks its own user out.                              *)

RivalsOnly == OneOwner /\ NextIdsAreFree /\ OnlyRivalsLockOut

(* The state after a request has written.                                  *)
LEMMA Written ==
    ASSUME HandlesInOrder, NEW r \in Request, NEW F, NEW q, Writes(r, F, q)
    PROVE  LET l == request[r].lab
               f == FileOf(r)
           IN  /\ l \in Request /\ lab[l] \in LabState /\ lab[l].file = f
               /\ f \in Request /\ file[f] \in File
               /\ lab'[l] \in LabState /\ lab'[l].file = f
               /\ file'[f] = F /\ F \in File
               /\ \A other \in Request \ {f} : file'[other] = file[other]
               /\ request'[r] = q
               /\ \A other \in Request \ {r} : request'[other] = request[other]
               /\ \A k \in Request : /\ lab'[k].file = lab[k].file
                                     /\ lab'[k] = NoLab <=> lab[k] = NoLab
                                     /\ k # l => lab'[k] = lab[k]
<1>1. request[r].step \in Holding
  BY DEF Writes, Holding, Seeding
<1>2. /\ request[r].lab \in Request /\ lab[request[r].lab] \in LabState
      /\ lab[request[r].lab] # NoLab
      /\ FileOf(r) \in Request /\ file[FileOf(r)] \in File
  BY <1>1, HeldLab
<1>3. /\ request'[r] = q
      /\ \A other \in Request \ {r} : request'[other] = request[other]
  BY OneRequestMoves DEF Writes
<1>4. /\ file'[FileOf(r)] = F /\ F \in File
      /\ \A other \in Request \ {FileOf(r)} : file'[other] = file[other]
  BY <1>2 DEF Writes, HandlesInOrder, StateTypeOK
<1>5. \A k \in Request : /\ lab'[k].file = lab[k].file
                         /\ lab'[k] = NoLab <=> lab[k] = NoLab
                         /\ k # request[r].lab => lab'[k] = lab[k]
  BY DEF Writes
<1>6. lab'[request[r].lab] \in LabState
  BY <1>2, <1>5 DEF Writes
<1>7. QED
  BY <1>2, <1>3, <1>4, <1>5, <1>6 DEF FileOf

(* The rows of a file keep to the ids that have been handed out.           *)
IdsBelow(tables, L) ==
    /\ \A id \in DOMAIN tables.calendar : id < L.next_cal_id
    /\ \A id \in DOMAIN tables.drafts : id < L.next_draft_id

LEMMA IdsStayBelow ==
    ASSUME HandlesInOrder, NEW r \in Request, NEW F, NEW q, Writes(r, F, q),
           FixtureAdded(r, F, q) \/ IdUsedUp(r, F, q)
               \/ \E call \in ToolCalls : \/ EventCreated(r, F, q, call)
                                          \/ DraftCreated(r, F, q, call)
                                          \/ DraftCollided(r, F, q, call),
           IdsBelow(OldTables(r), lab[request[r].lab])
    PROVE  IdsBelow(F.tables, lab'[request[r].lab])
<1> DEFINE l == request[r].lab
<1>1. /\ l \in Request /\ lab[l] \in LabState /\ lab'[l] \in LabState
      /\ OldTables(r) \in Tables
  BY Written DEF OldTables, File
<1>2. PICK old, n, m : /\ old = OldTables(r)
                       /\ n = lab[l].next_cal_id /\ m = lab[l].next_draft_id
  OBVIOUS
<1>3. /\ old \in Tables /\ n \in Nat \ {0} /\ m \in Nat \ {0}
      /\ \A id \in DOMAIN old.calendar : id < n
      /\ \A id \in DOMAIN old.drafts : id < m
  BY <1>1, <1>2 DEF IdsBelow, LabState
<1>4. /\ n \in Nat /\ m \in Nat
      /\ old.calendar \in Table /\ DOMAIN old.calendar \subseteq Nat
      /\ old.drafts \in Table /\ DOMAIN old.drafts \subseteq Nat
  BY <1>3, TableTypes
<1>5. CASE FixtureAdded(r, F, q)
  <2>1. PICK part \in Seeding : F.tables = WithFixture(old, part)
    BY <1>2, <1>5 DEF FixtureAdded
  <2>2. SeedEvent \in Item /\ SeedEventId \in Nat /\ SeedEventId = 0
    BY WebLabAssumption DEF SeedEvent, Item, SeedEventId
  <2>3. DOMAIN WithRow(old.calendar, SeedEventId, SeedEvent)
            = DOMAIN old.calendar \cup {SeedEventId}
    BY <1>4, <2>2, WithRowTable
  <2>4. /\ F.tables.calendar \in {old.calendar, WithRow(old.calendar, SeedEventId, SeedEvent)}
        /\ F.tables.drafts = old.drafts
    <3>1. PICK new : new = WithFixture(old, part)
      OBVIOUS
    <3>2. /\ new.calendar \in {old.calendar, WithRow(old.calendar, SeedEventId, SeedEvent)}
          /\ new.drafts = old.drafts
      BY <1>3, <3>1, FixtureTables
    <3>3. QED
      BY <2>1, <3>1, <3>2
  <2>5. \A id \in DOMAIN F.tables.calendar : id < n
    BY <1>3, <2>2, <2>3, <2>4
  <2>6. UNCHANGED lab
    BY <1>5 DEF FixtureAdded, Writes, Seeding, SeedOrder
  <2>7. QED
    BY <1>2, <1>3, <2>4, <2>5, <2>6 DEF IdsBelow
<1>6. CASE IdUsedUp(r, F, q)
  <2>1. /\ F.tables = old
        /\ lab'[l].next_cal_id \in {n, n + 1} /\ lab'[l].next_draft_id \in {m, m + 1}
    BY <1>2, <1>6 DEF IdUsedUp, OldTables
  <2>2. lab'[l].next_cal_id \in Nat /\ lab'[l].next_draft_id \in Nat
    BY <1>1 DEF LabState
  <2>3. QED
    BY <1>3, <1>4, <2>1, <2>2 DEF IdsBelow
<1>7. ASSUME NEW call \in ToolCalls, EventCreated(r, F, q, call)
      PROVE  IdsBelow(F.tables, lab'[l])
  <2>1. PICK item \in Item : item = ItemOf(r, call)
    BY <1>7 DEF EventCreated, Accepted
  <2>2. /\ F.tables = WithEvent(old, n, item)
        /\ lab'[l].next_cal_id = n + 1 /\ lab'[l].next_draft_id = m
    BY <1>2, <1>7, <2>1 DEF EventCreated
  <2>3. /\ F.tables.calendar = WithRow(old.calendar, n, item)
        /\ F.tables.drafts = old.drafts
    <3>1. PICK new : new = WithEvent(old, n, item)
      OBVIOUS
    <3>2. new.calendar = WithRow(old.calendar, n, item) /\ new.drafts = old.drafts
      BY <1>3, <1>4, <3>1, EventTables DEF SameTablesBut
    <3>3. QED
      BY <2>2, <3>1, <3>2
  <2>4. DOMAIN F.tables.calendar = DOMAIN old.calendar \cup {n}
    <3>1. DOMAIN WithRow(old.calendar, n, item) = DOMAIN old.calendar \cup {n}
      BY <1>4, WithRowTable
    <3>2. QED
      BY <2>3, <3>1
  <2>5. \A id \in DOMAIN F.tables.calendar : id < n + 1
    BY <1>3, <1>4, <2>4
  <2>6. QED
    BY <1>3, <2>2, <2>3, <2>5 DEF IdsBelow
<1>8. ASSUME NEW call \in ToolCalls, DraftCreated(r, F, q, call)
      PROVE  IdsBelow(F.tables, lab'[l])
  <2>1. PICK item \in Item : item = ItemOf(r, call)
    BY <1>8 DEF DraftCreated, Accepted
  <2>2. /\ F.tables = WithDraft(old, m, item)
        /\ lab'[l].next_draft_id = m + 1 /\ lab'[l].next_cal_id = n
    BY <1>2, <1>8, <2>1 DEF DraftCreated
  <2>3. /\ F.tables.drafts = WithRow(old.drafts, m, item)
        /\ F.tables.calendar = old.calendar
    <3>1. PICK new : new = WithDraft(old, m, item)
      OBVIOUS
    <3>2. new.drafts = WithRow(old.drafts, m, item) /\ new.calendar = old.calendar
      BY <1>3, <1>4, <3>1, DraftTables DEF SameTablesBut
    <3>3. QED
      BY <2>2, <3>1, <3>2
  <2>4. DOMAIN F.tables.drafts = DOMAIN old.drafts \cup {m}
    <3>1. DOMAIN WithRow(old.drafts, m, item) = DOMAIN old.drafts \cup {m}
      BY <1>4, WithRowTable
    <3>2. QED
      BY <2>3, <3>1
  <2>5. \A id \in DOMAIN F.tables.drafts : id < m + 1
    BY <1>3, <1>4, <2>4
  <2>6. QED
    BY <1>3, <2>2, <2>3, <2>5 DEF IdsBelow
<1>9. ASSUME NEW call \in ToolCalls, DraftCollided(r, F, q, call)
      PROVE  IdsBelow(F.tables, lab'[l])
  <2>1. /\ F.tables = old
        /\ lab'[l].next_draft_id = m + 1 /\ lab'[l].next_cal_id = n
    BY <1>2, <1>9 DEF DraftCollided
  <2>2. \A id \in DOMAIN old.drafts : id < m + 1
    BY <1>3, <1>4
  <2>3. QED
    BY <1>3, <2>1, <2>2 DEF IdsBelow
<1>10. QED
  BY <1>5, <1>6, <1>7, <1>8, <1>9

LEMMA WriteKeepsRivals ==
    ASSUME HandlesInOrder, RivalsOnly, NEW r \in Request, WriteStep(r)
    PROVE  RivalsOnly'
<1> DEFINE Kind(F, q) ==
              FixtureAdded(r, F, q) \/ IdUsedUp(r, F, q)
                 \/ \E call \in ToolCalls : \/ EventCreated(r, F, q, call)
                                            \/ DraftCreated(r, F, q, call)
                                            \/ DraftCollided(r, F, q, call)
<1>1. PICK F, q : Writes(r, F, q) /\ Kind(F, q)
  BY DEF WriteStep
<1> DEFINE l == request[r].lab
<1> DEFINE f == FileOf(r)
<1>2. /\ l \in Request /\ lab[l] \in LabState /\ lab[l].file = f
      /\ f \in Request /\ file[f] \in File
      /\ lab'[l] \in LabState /\ lab'[l].file = f
      /\ file'[f] = F /\ F \in File
      /\ \A other \in Request \ {f} : file'[other] = file[other]
      /\ \A k \in Request : /\ lab'[k].file = lab[k].file
                            /\ lab'[k] = NoLab <=> lab[k] = NoLab
                            /\ k # l => lab'[k] = lab[k]
  BY <1>1, Written
<1>3. F.shared = file[f].shared
  BY <1>1 DEF Writes
<1>4. OneOwner'
  BY <1>2, <1>3 DEF RivalsOnly, OneOwner
<1>5. lab[l] # NoLab
  BY <1>2, WebLabAssumption DEF LabState, NoLab
<1>6. ~file[f].shared => IdsBelow(OldTables(r), lab[l])
  BY <1>2, <1>5 DEF RivalsOnly, NextIdsAreFree, IdsBelow, OldTables
<1>7. NextIdsAreFree'
  <2> SUFFICES ASSUME NEW k \in Request, lab'[k] # NoLab, ~file'[lab'[k].file].shared
               PROVE  IdsBelow(file'[lab'[k].file].tables, lab'[k])
    BY DEF NextIdsAreFree, IdsBelow
  <2>1. /\ lab'[k].file = lab[k].file /\ lab[k] # NoLab /\ lab[k].file \in Request
        /\ ~file[lab[k].file].shared
    BY <1>2, <1>3 DEF HandlesInOrder, StateTypeOK, LabState
  <2>2. CASE k = l
    <3>1. IdsBelow(OldTables(r), lab[l])
      BY <1>2, <1>6, <2>1, <2>2
    <3>2. IdsBelow(F.tables, lab'[l])
      BY <1>1, <3>1, IdsStayBelow
    <3>3. QED
      BY <1>2, <2>2, <3>2
  <2>3. CASE k # l
    <3>1. lab[k].file # f
      BY <1>2, <2>1, <2>3 DEF RivalsOnly, OneOwner
    <3>2. /\ file'[lab[k].file] = file[lab[k].file]
          /\ lab'[k] = lab[k]
      BY <1>2, <2>1, <2>3, <3>1
    <3>3. IdsBelow(file[lab[k].file].tables, lab[k])
      BY <2>1 DEF RivalsOnly, NextIdsAreFree, IdsBelow
    <3>4. QED
      BY <2>1, <3>2, <3>3
  <2>4. QED
    BY <2>2, <2>3
<1>8. OnlyRivalsLockOut'
  <2>1. F.locked_by # None => F.shared
    <3>1. CASE FixtureAdded(r, F, q)
      BY <1>2, <1>3, <3>1 DEF FixtureAdded, RivalsOnly, OnlyRivalsLockOut
    <3>2. CASE IdUsedUp(r, F, q)
      BY <1>2, <3>2 DEF IdUsedUp, RivalsOnly, OnlyRivalsLockOut
    <3>3. ASSUME NEW call \in ToolCalls,
                 EventCreated(r, F, q, call) \/ DraftCreated(r, F, q, call)
          PROVE  F.locked_by = None
      BY <3>3 DEF EventCreated, DraftCreated
    <3>4. ASSUME NEW call \in ToolCalls, DraftCollided(r, F, q, call),
                 ~file[f].shared
          PROVE  FALSE
      <4>1. PICK m, old : m = lab[l].next_draft_id /\ old = OldTables(r)
        OBVIOUS
      <4>2. m \in DOMAIN old.drafts
        BY <3>4, <4>1 DEF DraftCollided
      <4>3. m < m
        BY <1>6, <3>4, <4>1, <4>2 DEF IdsBelow
      <4>4. m \in Nat
        BY <1>2, <4>1 DEF LabState
      <4>5. QED
        BY <4>3, <4>4
    <3>5. QED
      BY <1>1, <1>3, <3>1, <3>2, <3>3, <3>4
  <2>2. QED
    BY <1>2, <2>1 DEF RivalsOnly, OnlyRivalsLockOut
<1>9. QED
  BY <1>4, <1>7, <1>8 DEF RivalsOnly

LEMMA OpenKeepsRivals ==
    ASSUME HandlesInOrder, RivalsOnly, NEW r \in Request, NEW q, Opens(r, q)
    PROVE  RivalsOnly'
<1>1. NoLab.file = None /\ None \notin Request
  BY WebLabAssumption DEF NoLab
<1>2. \A l \in Request : lab[l] # NoLab => lab[l].file \in Request
  BY DEF HandlesInOrder, StateTypeOK, LabState
<1>3. \A f \in Request : file[f].shared => file'[f].shared
  BY DEF Opens
<1>4. OneOwner'
  <2> SUFFICES ASSUME NEW f \in Request, NEW l \in Request, NEW k \in Request,
                      ~file'[f].shared, lab'[l].file = f, lab'[k].file = f
               PROVE  l = k
    BY DEF OneOwner
  <2>1. CASE f = Name(r)
    BY <2>1 DEF Opens
  <2>2. CASE f # Name(r)
    BY <1>3, <2>2 DEF Opens, RivalsOnly, OneOwner
  <2>3. QED
    BY <2>1, <2>2
<1>5. NextIdsAreFree'
  <2> SUFFICES ASSUME NEW k \in Request, lab'[k] # NoLab, ~file'[lab'[k].file].shared
               PROVE  IdsBelow(file'[lab'[k].file].tables, lab'[k])
    BY DEF NextIdsAreFree, IdsBelow
  <2>1. CASE k = r
    BY <2>1 DEF Opens, IdsBelow
  <2>2. CASE k # r
    <3>1. lab'[k] = lab[k] /\ lab[k].file \in Request
      BY <1>2, <2>2 DEF Opens
    <3>2. lab[k].file # Name(r)
      BY <3>1 DEF Opens
    <3>3. file'[lab[k].file] = file[lab[k].file]
      BY <3>1, <3>2 DEF Opens
    <3>4. IdsBelow(file[lab[k].file].tables, lab[k])
      BY <3>1, <3>3 DEF RivalsOnly, NextIdsAreFree, IdsBelow
    <3>5. QED
      BY <3>1, <3>3, <3>4
  <2>3. QED
    BY <2>1, <2>2
<1>6. OnlyRivalsLockOut'
  BY DEF Opens, RivalsOnly, OnlyRivalsLockOut
<1>7. QED
  BY <1>4, <1>5, <1>6 DEF RivalsOnly

LEMMA RivalsStay == HandlesInOrder /\ RivalsOnly /\ [Next]_wvars => RivalsOnly'
<1> SUFFICES ASSUME HandlesInOrder, RivalsOnly, [Next]_wvars PROVE RivalsOnly'
  OBVIOUS
<1>1. \A l \in Request : lab[l] # NoLab => lab[l].file \in Request
  BY DEF HandlesInOrder, StateTypeOK, LabState
<1>2. NoLab.file = None /\ None \notin Request
  BY WebLabAssumption DEF NoLab
<1>3. ASSUME UNCHANGED <<file, lab>> PROVE RivalsOnly'
  BY <1>3 DEF RivalsOnly, OneOwner, NextIdsAreFree, OnlyRivalsLockOut
<1>4. ASSUME NEW l \in Request, Collects(l) PROVE RivalsOnly'
  <2>1. \A k \in Request : lab'[k] = lab[k] \/ lab'[k] = NoLab
    BY <1>4 DEF Collects
  <2>2. \A f \in Request : /\ file'[f].tables = file[f].tables
                           /\ file'[f].shared = file[f].shared
                           /\ file'[f].locked_by \in {None, file[f].locked_by}
    BY <1>4 DEF Collects
  <2>3. OneOwner'
    BY <1>2, <2>1, <2>2 DEF RivalsOnly, OneOwner
  <2>4. NextIdsAreFree'
    BY <1>1, <2>1, <2>2 DEF RivalsOnly, NextIdsAreFree
  <2>5. OnlyRivalsLockOut'
    BY <2>2 DEF RivalsOnly, OnlyRivalsLockOut
  <2>6. QED
    BY <2>3, <2>4, <2>5 DEF RivalsOnly
<1>5. ASSUME Restarts PROVE RivalsOnly'
  <2>1. \A k \in Request : lab'[k] = NoLab
    BY <1>5 DEF Restarts
  <2>2. \A f \in Request : file'[f].locked_by = None
    BY <1>5 DEF Restarts
  <2>3. QED
    BY <1>2, <2>1, <2>2 DEF RivalsOnly, OneOwner, NextIdsAreFree, OnlyRivalsLockOut
<1>6. ASSUME NEW r \in Request, QuietStep(r) PROVE UNCHANGED <<file, lab>>
  BY <1>6 DEF QuietStep, Quiet
<1>7. ASSUME NEW d \in Deletion, Removes(d) PROVE UNCHANGED <<file, lab>>
  BY <1>7 DEF Removes
<1>8. CASE Next
  BY <1>3, <1>4, <1>5, <1>6, <1>7, <1>8, KindsOfSteps, WriteKeepsRivals,
     OpenKeepsRivals, Zenon
<1>9. CASE UNCHANGED wvars
  BY <1>3, <1>9 DEF wvars
<1>10. QED
  BY <1>8, <1>9

LEMMA RivalsAtFirst == Init => RivalsOnly
<1> SUFFICES ASSUME Init PROVE RivalsOnly
  OBVIOUS
<1>1. /\ \A r \in Request : lab[r] = NoLab
      /\ \A r \in Request : file[r].locked_by = None
  BY DEF Init, NewFile
<1>2. NoLab.file \notin Request
  BY WebLabAssumption DEF NoLab
<1>3. QED
  BY <1>1, <1>2 DEF RivalsOnly, OneOwner, NextIdsAreFree, OnlyRivalsLockOut

(***************************************************************************)
(* A file that is not shared is open by one LabState at most, whose next   *)
(* ids are free in it.                                                     *)
(***************************************************************************)
THEOREM IdsAreFree == Spec => [](OneOwner /\ NextIdsAreFree)
<1>1. Init => HandlesInOrder /\ RivalsOnly
  BY InitHandles, RivalsAtFirst
<1>2. HandlesInOrder /\ RivalsOnly /\ [Next]_wvars => HandlesInOrder' /\ RivalsOnly'
  BY HandlesStayInOrder, RivalsStay
<1>3. RivalsOnly => OneOwner /\ NextIdsAreFree
  BY DEF RivalsOnly
<1>4. QED
  BY <1>1, <1>2, <1>3, PTL DEF Spec

(***************************************************************************)
(* A user whose file has only ever been open by one LabState at a time is  *)
(* never locked out by a draft that failed.                                *)
(***************************************************************************)
THEOREM NobodyLocksHimselfOut == Spec => []OnlyRivalsLockOut
<1>1. Init => HandlesInOrder /\ RivalsOnly
  BY InitHandles, RivalsAtFirst
<1>2. HandlesInOrder /\ RivalsOnly /\ [Next]_wvars => HandlesInOrder' /\ RivalsOnly'
  BY HandlesStayInOrder, RivalsStay
<1>3. RivalsOnly => OnlyRivalsLockOut
  BY DEF RivalsOnly
<1>4. QED
  BY <1>1, <1>2, <1>3, PTL DEF Spec

-----------------------------------------------------------------------------
(* Seeding, and what refers to the fixtures.                               *)

Consistent(tables) ==
    /\ \A item \in ItemsIn(tables) : RequireContacts(tables, item.people)
    /\ SeedEventId \in DOMAIN tables.calendar =>
           RequireContacts(tables, SeedEvent.people)
    /\ \A id \in DOMAIN tables.drafts : tables.drafts[id].thread \in tables.threads
    /\ SeedThread \in tables.threads => SeedContact \in tables.contacts

(* Nothing is taken out of the tables.                                     *)
Grow(new, old) ==
    /\ old.contacts \subseteq new.contacts
    /\ DOMAIN old.calendar \subseteq DOMAIN new.calendar
    /\ old.threads \subseteq new.threads
    /\ DOMAIN old.drafts \subseteq DOMAIN new.drafts

LEMMA SeedEventIsRow ==
    SeedEvent \in Item /\ SeedEventId \in Nat /\ SeedEvent.people = {SeedContact}
BY WebLabAssumption DEF SeedEvent, Item, SeedEventId

LEMMA FixtureConsistent ==
    ASSUME NEW old \in Tables, Consistent(old), NEW part \in Seeding,
           part \in {"calendar", "thread"} => SeedContact \in old.contacts,
           NEW new, new = WithFixture(old, part)
    PROVE  Consistent(new) /\ Grow(new, old)
<1>1. /\ new.contacts = (IF part = "contact" THEN old.contacts \cup {SeedContact}
                         ELSE old.contacts)
      /\ new.calendar = (IF part = "calendar"
                         THEN WithRow(old.calendar, SeedEventId, SeedEvent)
                         ELSE old.calendar)
      /\ new.threads = (IF part = "thread" THEN old.threads \cup {SeedThread}
                        ELSE old.threads)
      /\ new.drafts = old.drafts
  BY FixtureTables
<1>2. part \in {"contact", "calendar", "thread"}
  BY DEF Seeding, SeedOrder
<1>3. old.calendar \in Table
  BY TableTypes
<1>4. /\ DOMAIN WithRow(old.calendar, SeedEventId, SeedEvent)
             = DOMAIN old.calendar \cup {SeedEventId}
      /\ \A id \in DOMAIN old.calendar \ {SeedEventId} :
             WithRow(old.calendar, SeedEventId, SeedEvent)[id] = old.calendar[id]
  <2>1. PICK id \in Nat, item \in Item : id = SeedEventId /\ item = SeedEvent
    BY SeedEventIsRow
  <2>2. /\ DOMAIN WithRow(old.calendar, id, item) = DOMAIN old.calendar \cup {id}
        /\ \A i \in DOMAIN old.calendar \ {id} :
               WithRow(old.calendar, id, item)[i] = old.calendar[i]
    BY <1>3, WithRowTable
  <2>3. QED
    BY <2>1, <2>2
<1>5. Grow(new, old)
  BY <1>1, <1>4 DEF Grow
<1>6. ItemsIn(new) = ItemsIn(old)
  <2>1. /\ DOMAIN new.calendar \ {SeedEventId} = DOMAIN old.calendar \ {SeedEventId}
        /\ \A id \in DOMAIN old.calendar \ {SeedEventId} :
               new.calendar[id] = old.calendar[id]
        /\ new.drafts = old.drafts
    BY <1>1, <1>4
  <2>2. QED
    BY <2>1 DEF ItemsIn
<1>7. \A item \in ItemsIn(new) : RequireContacts(new, item.people)
  BY <1>5, <1>6 DEF Consistent, RequireContacts, Grow
<1>8. SeedEventId \in DOMAIN new.calendar => RequireContacts(new, SeedEvent.people)
  <2>1. CASE part = "calendar"
    BY <1>5, <2>1, SeedEventIsRow DEF RequireContacts, Grow
  <2>2. CASE part # "calendar"
    BY <1>1, <1>5, <2>2 DEF Consistent, RequireContacts, Grow
  <2>3. QED
    BY <2>1, <2>2
<1>9. \A id \in DOMAIN new.drafts : new.drafts[id].thread \in new.threads
  BY <1>1, <1>5 DEF Consistent, Grow
<1>10. SeedThread \in new.threads => SeedContact \in new.contacts
  <2>1. CASE part = "thread"
    BY <1>5, <2>1 DEF Grow
  <2>2. CASE part # "thread"
    BY <1>1, <1>5, <2>2 DEF Consistent, Grow
  <2>3. QED
    BY <2>1, <2>2
<1>11. QED
  BY <1>5, <1>7, <1>8, <1>9, <1>10 DEF Consistent

LEMMA EventConsistent ==
    ASSUME NEW old \in Tables, Consistent(old), NEW id \in Nat \ {0},
           NEW item \in Item, RequireContacts(old, item.people),
           NEW new, new = WithEvent(old, id, item)
    PROVE  Consistent(new) /\ Grow(new, old)
<1>1. id \in Nat /\ id # SeedEventId
  BY DEF SeedEventId
<1>2. /\ new.calendar = WithRow(old.calendar, id, item)
      /\ new.contacts = old.contacts /\ new.threads = old.threads
      /\ new.drafts = old.drafts
  BY <1>1, EventTables DEF SameTablesBut
<1>3. old.calendar \in Table
  BY TableTypes
<1>4. /\ DOMAIN WithRow(old.calendar, id, item) = DOMAIN old.calendar \cup {id}
      /\ WithRow(old.calendar, id, item)[id] = item
      /\ \A i \in DOMAIN old.calendar \ {id} :
             WithRow(old.calendar, id, item)[i] = old.calendar[i]
  BY <1>1, <1>3, WithRowTable
<1>5. Grow(new, old)
  BY <1>2, <1>4 DEF Grow
<1>6. \A other \in ItemsIn(new) : other = item \/ other \in ItemsIn(old)
  BY <1>2, <1>4 DEF ItemsIn
<1>7. SeedEventId \in DOMAIN new.calendar => SeedEventId \in DOMAIN old.calendar
  BY <1>1, <1>2, <1>4
<1>8. QED
  BY <1>2, <1>5, <1>6, <1>7 DEF Consistent, RequireContacts

LEMMA DraftConsistent ==
    ASSUME NEW old \in Tables, Consistent(old), NEW id \in Nat,
           NEW item \in Item, RequireContacts(old, item.people),
           item.thread \in old.threads,
           NEW new, new = WithDraft(old, id, item)
    PROVE  Consistent(new) /\ Grow(new, old)
<1>1. /\ new.drafts = WithRow(old.drafts, id, item)
      /\ new.contacts = old.contacts /\ new.threads = old.threads
      /\ new.calendar = old.calendar
  BY DraftTables DEF SameTablesBut
<1>2. old.drafts \in Table
  BY TableTypes
<1>3. /\ DOMAIN WithRow(old.drafts, id, item) = DOMAIN old.drafts \cup {id}
      /\ WithRow(old.drafts, id, item)[id] = item
      /\ \A i \in DOMAIN old.drafts \ {id} :
             WithRow(old.drafts, id, item)[i] = old.drafts[i]
  BY <1>2, WithRowTable
<1>4. Grow(new, old)
  BY <1>1, <1>3 DEF Grow
<1>5. \A other \in ItemsIn(new) : other = item \/ other \in ItemsIn(old)
  BY <1>1, <1>3 DEF ItemsIn
<1>6. \A i \in DOMAIN new.drafts : new.drafts[i].thread \in new.threads
  BY <1>1, <1>3 DEF Consistent
<1>7. QED
  BY <1>1, <1>4, <1>5, <1>6 DEF Consistent, RequireContacts

FixturesKept ==
    FixturesInOrder /\ RowsReferToContacts /\ LastFixtureIsThread /\ SeedingGoesOn

LEMMA ConsistentFiles ==
    RowsReferToContacts <=> \A f \in Request : Consistent(file[f].tables)
BY Zenon DEF RowsReferToContacts, Consistent

(* What a request that writes does to the tables.                          *)
LEMMA WrittenTables ==
    ASSUME HandlesInOrder, FixturesKept, NEW r \in Request, NEW F, NEW q,
           Writes(r, F, q),
           FixtureAdded(r, F, q) \/ IdUsedUp(r, F, q)
               \/ \E call \in ToolCalls : \/ EventCreated(r, F, q, call)
                                          \/ DraftCreated(r, F, q, call)
                                          \/ DraftCollided(r, F, q, call)
    PROVE  /\ Consistent(F.tables) /\ Grow(F.tables, OldTables(r))
           /\ F.tables.threads # OldTables(r).threads =>
                  /\ request[r].step = "thread"
                  /\ F.tables.threads = OldTables(r).threads \cup {SeedThread}
           /\ request[r].step = "contact" => SeedContact \in F.tables.contacts
           /\ request[r].step = "calendar" => SeedEventId \in DOMAIN F.tables.calendar
           /\ request[r].step = "thread" => SeedThread \in F.tables.threads
<1>1. PICK old, l, n, m : /\ old = OldTables(r) /\ l = request[r].lab
                          /\ n = lab[l].next_cal_id /\ m = lab[l].next_draft_id
  OBVIOUS
<1>2. FileOf(r) \in Request /\ old \in Tables /\ n \in Nat \ {0} /\ m \in Nat
  BY <1>1, Written DEF OldTables, File, LabState
<1>3. Consistent(old)
  BY <1>1, <1>2, ConsistentFiles DEF FixturesKept, OldTables
<1>4. CASE FixtureAdded(r, F, q)
  <2>1. PICK part \in Seeding : part = request[r].step
    BY <1>4 DEF FixtureAdded
  <2>2. PICK new : new = F.tables
    OBVIOUS
  <2>3. new = WithFixture(old, part)
    BY <1>1, <1>4, <2>1, <2>2 DEF FixtureAdded
  <2>4. part \in {"calendar", "thread"} => SeedContact \in old.contacts
    BY <1>1, <2>1 DEF FixturesKept, FixturesInOrder, OldTables
  <2>5. Consistent(new) /\ Grow(new, old)
    BY <1>2, <1>3, <2>3, <2>4, FixtureConsistent
  <2>6. /\ new.contacts = (IF part = "contact" THEN old.contacts \cup {SeedContact}
                           ELSE old.contacts)
        /\ new.calendar = (IF part = "calendar"
                           THEN WithRow(old.calendar, SeedEventId, SeedEvent)
                           ELSE old.calendar)
        /\ new.threads = (IF part = "thread" THEN old.threads \cup {SeedThread}
                          ELSE old.threads)
    BY <1>2, <2>3, FixtureTables
  <2>7. SeedEventId \in DOMAIN WithRow(old.calendar, SeedEventId, SeedEvent)
    BY DEF WithRow
  <2>8. QED
    BY <1>1, <2>1, <2>2, <2>5, <2>6, <2>7
<1>5. ASSUME request[r].step = "act", NEW new, new = F.tables,
             Consistent(new), Grow(new, old), new.threads = old.threads
      PROVE  /\ Consistent(F.tables) /\ Grow(F.tables, OldTables(r))
             /\ F.tables.threads = OldTables(r).threads
             /\ request[r].step \notin {"contact", "calendar", "thread"}
  BY <1>1, <1>5
<1>6. ASSUME F.tables = old, request[r].step = "act"
      PROVE  /\ Consistent(F.tables) /\ Grow(F.tables, OldTables(r))
             /\ F.tables.threads = OldTables(r).threads
             /\ request[r].step \notin {"contact", "calendar", "thread"}
  <2>1. Grow(old, old)
    BY DEF Grow
  <2>2. QED
    BY <1>3, <1>5, <1>6, <2>1
<1>7. CASE IdUsedUp(r, F, q)
  BY <1>1, <1>6, <1>7 DEF IdUsedUp, OldTables
<1>8. ASSUME NEW call \in ToolCalls, DraftCollided(r, F, q, call)
      PROVE  F.tables = old /\ request[r].step = "act"
  BY <1>1, <1>8 DEF DraftCollided, Accepted
<1>9. ASSUME NEW call \in ToolCalls, EventCreated(r, F, q, call)
      PROVE  /\ Consistent(F.tables) /\ Grow(F.tables, OldTables(r))
             /\ F.tables.threads = OldTables(r).threads
             /\ request[r].step \notin {"contact", "calendar", "thread"}
  <2>1. PICK item \in Item : item = ItemOf(r, call)
    BY <1>9 DEF EventCreated, Accepted
  <2>2. PICK new : new = F.tables
    OBVIOUS
  <2>3. new = WithEvent(old, n, item) /\ request[r].step = "act"
    BY <1>1, <1>9, <2>1, <2>2 DEF EventCreated, Accepted
  <2>4. RequireContacts(old, item.people)
    <3>1. AcceptsEvent(old, call)
      BY <1>1, <1>9 DEF EventCreated, Accepted, Accepts
    <3>2. item.people = call.people
      BY <2>1 DEF ItemOf
    <3>3. QED
      BY <3>1, <3>2 DEF AcceptsEvent
  <2>5. Consistent(new) /\ Grow(new, old)
    BY <1>2, <1>3, <2>3, <2>4, EventConsistent
  <2>6. new.threads = old.threads
    BY <1>2, <2>3, EventTables DEF SameTablesBut
  <2>7. QED
    BY <1>5, <2>2, <2>3, <2>5, <2>6
<1>10. ASSUME NEW call \in ToolCalls, DraftCreated(r, F, q, call)
      PROVE  /\ Consistent(F.tables) /\ Grow(F.tables, OldTables(r))
             /\ F.tables.threads = OldTables(r).threads
             /\ request[r].step \notin {"contact", "calendar", "thread"}
  <2>1. PICK item \in Item : item = ItemOf(r, call)
    BY <1>10 DEF DraftCreated, Accepted
  <2>2. PICK new : new = F.tables
    OBVIOUS
  <2>3. new = WithDraft(old, m, item) /\ request[r].step = "act"
    BY <1>1, <1>10, <2>1, <2>2 DEF DraftCreated, Accepted
  <2>4. RequireContacts(old, item.people) /\ item.thread \in old.threads
    <3>1. AcceptsDraft(old, call)
      BY <1>1, <1>10 DEF DraftCreated, Accepted, Accepts
    <3>2. item.people = call.people /\ item.thread = call.thread
      BY <2>1 DEF ItemOf
    <3>3. QED
      BY <3>1, <3>2 DEF AcceptsDraft
  <2>5. Consistent(new) /\ Grow(new, old)
    BY <1>2, <1>3, <2>3, <2>4, DraftConsistent
  <2>6. new.threads = old.threads
    BY <1>2, <2>3, DraftTables DEF SameTablesBut
  <2>7. QED
    BY <1>5, <2>2, <2>3, <2>5, <2>6
<1>11. QED
  BY <1>4, <1>6, <1>7, <1>8, <1>9, <1>10

LEMMA WriteKeepsFixtures ==
    ASSUME HandlesInOrder, FixturesKept, NEW r \in Request, WriteStep(r)
    PROVE  FixturesKept'
<1> DEFINE Kind(F, q) ==
              FixtureAdded(r, F, q) \/ IdUsedUp(r, F, q)
                 \/ \E call \in ToolCalls : \/ EventCreated(r, F, q, call)
                                            \/ DraftCreated(r, F, q, call)
                                            \/ DraftCollided(r, F, q, call)
<1>1. PICK F, q : Writes(r, F, q) /\ Kind(F, q)
  BY DEF WriteStep
<1> DEFINE l == request[r].lab
<1> DEFINE f == FileOf(r)
<1>2. /\ l \in Request /\ lab[l] \in LabState /\ lab[l].file = f
      /\ f \in Request /\ file[f] \in File
      /\ file'[f] = F /\ F \in File
      /\ \A other \in Request \ {f} : file'[other] = file[other]
      /\ request'[r] = q
      /\ \A other \in Request \ {r} : request'[other] = request[other]
      /\ \A k \in Request : lab'[k].file = lab[k].file
  BY <1>1, Written
<1>3. /\ Consistent(F.tables) /\ Grow(F.tables, file[f].tables)
      /\ F.tables.threads # file[f].tables.threads =>
             /\ request[r].step = "thread"
             /\ F.tables.threads = file[f].tables.threads \cup {SeedThread}
      /\ request[r].step = "contact" => SeedContact \in F.tables.contacts
      /\ request[r].step = "calendar" => SeedEventId \in DOMAIN F.tables.calendar
      /\ request[r].step = "thread" => SeedThread \in F.tables.threads
  BY <1>1, WrittenTables DEF OldTables
<1>4. /\ q.lab = l /\ entry' = entry /\ F.torn = file[f].torn
      /\ \/ request[r].step = "act" /\ q.step = "act"
         \/ request[r].step \in Seeding /\ q.step = SeedOrder[request[r].step]
  BY <1>1 DEF Writes
<1>5. \A other \in Request : Grow(file'[other].tables, file[other].tables)
  <2>1. \A tables : Grow(tables, tables)
    BY DEF Grow
  <2>2. QED
    BY <1>2, <1>3, <2>1
<1>6. \A other \in Request :
          request[other].step \in Seeding => request[other].lab \in Request
  BY HeldLab DEF Holding
<1>7. FileOf(r)' = f
  BY <1>2, <1>4 DEF FileOf
<1>8. \A other \in Request \ {r} :
          request[other].step \in Seeding =>
              FileOf(other)' = FileOf(other) /\ FileOf(other) \in Request
  <2>1. \A other \in Request : request[other].step \in Seeding => FileOf(other) \in Request
    BY HeldLab DEF Holding
  <2>2. QED
    BY <1>2, <1>6, <2>1 DEF FileOf
<1>9. Seeding = {"contact", "calendar", "thread"}
      /\ SeedOrder["contact"] = "calendar" /\ SeedOrder["calendar"] = "thread"
      /\ SeedOrder["thread"] = "store"
  BY DEF Seeding, SeedOrder
<1>10. FixturesInOrder'
  <2> SUFFICES ASSUME NEW other \in Request
               PROVE  /\ request'[other].step \in {"calendar", "thread"} =>
                             SeedContact \in file'[FileOf(other)'].tables.contacts
                      /\ request'[other].step = "thread" =>
                             SeedEventId \in DOMAIN file'[FileOf(other)'].tables.calendar
    BY DEF FixturesInOrder
  <2>1. CASE other = r
    <3>1. request[r].step \in {"calendar", "thread"} =>
              SeedContact \in file[f].tables.contacts
      BY DEF FixturesKept, FixturesInOrder
    <3>2. file'[FileOf(other)'] = F /\ request'[other].step = q.step
      BY <1>2, <1>7, <2>1
    <3>3. QED
      BY <1>3, <1>4, <1>9, <3>1, <3>2 DEF Grow
  <2>2. CASE other # r
    <3>1. request'[other] = request[other]
      BY <1>2, <2>2
    <3>2. request[other].step \in Seeding =>
              /\ FileOf(other)' = FileOf(other)
              /\ Grow(file'[FileOf(other)].tables, file[FileOf(other)].tables)
      BY <1>5, <1>8, <2>2
    <3>3. QED
      BY <1>9, <3>1, <3>2 DEF FixturesKept, FixturesInOrder, Grow
  <2>3. QED
    BY <2>1, <2>2
<1>11. RowsReferToContacts'
  <2>1. \A other \in Request : Consistent(file[other].tables)
    BY ConsistentFiles DEF FixturesKept
  <2>2. \A other \in Request : Consistent(file'[other].tables)
    BY <1>2, <1>3, <2>1
  <2>3. QED
    BY <2>2, Zenon DEF RowsReferToContacts, Consistent
<1>12. LastFixtureIsThread'
  <2>1. /\ file[f].tables.threads \subseteq {SeedThread}
        /\ SeedThread \in file[f].tables.threads => IsFullySeeded(file[f].tables)
        /\ file[f].locked_by # None => SeedThread \in file[f].tables.threads
    BY <1>2 DEF FixturesKept, LastFixtureIsThread
  <2>2. F.tables.threads \subseteq {SeedThread}
    BY <1>3, <2>1
  <2>3. SeedThread \in F.tables.threads => IsFullySeeded(F.tables)
    <3>1. CASE SeedThread \in file[f].tables.threads
      BY <1>3, <2>1, <3>1 DEF IsFullySeeded, Grow
    <3>2. CASE SeedThread \notin file[f].tables.threads
      <4>1. SeedThread \in F.tables.threads => request[r].step = "thread"
        BY <1>3, <3>2
      <4>2. request[r].step = "thread" => /\ SeedContact \in file[f].tables.contacts
                                          /\ SeedEventId \in DOMAIN file[f].tables.calendar
        BY DEF FixturesKept, FixturesInOrder
      <4>3. QED
        BY <1>3, <4>1, <4>2 DEF IsFullySeeded, Grow
    <3>3. QED
      BY <3>1, <3>2
  <2>4. F.locked_by # None => SeedThread \in F.tables.threads
    <3>1. CASE FixtureAdded(r, F, q) \/ IdUsedUp(r, F, q)
      BY <1>3, <2>1, <3>1 DEF FixtureAdded, IdUsedUp, Grow
    <3>2. ASSUME NEW call \in ToolCalls,
                 EventCreated(r, F, q, call) \/ DraftCreated(r, F, q, call)
          PROVE  F.locked_by = None
      BY <3>2 DEF EventCreated, DraftCreated
    <3>3. ASSUME NEW call \in ToolCalls, DraftCollided(r, F, q, call)
          PROVE  SeedThread \in F.tables.threads
      <4>1. call.thread \in file[f].tables.threads
        BY <3>3 DEF DraftCollided, Accepted, Accepts, AcceptsDraft, OldTables
      <4>2. QED
        BY <1>3, <2>1, <4>1 DEF Grow
    <3>4. QED
      BY <1>1, <3>1, <3>2, <3>3
  <2>5. QED
    BY <1>2, <2>2, <2>3, <2>4 DEF FixturesKept, LastFixtureIsThread
<1>13. SeedingGoesOn'
  <2> SUFFICES ASSUME entry # None
               PROVE  \/ IsFullySeeded(file'[entry].tables)
                      \/ file'[entry].torn
                      \/ \E other \in Request : /\ request'[other].step \in Seeding
                                                /\ FileOf(other)' = entry
    BY <1>4 DEF SeedingGoesOn
  <2>1. entry \in Request
    BY DEF HandlesInOrder, StateTypeOK
  <2>2. CASE IsFullySeeded(file[entry].tables)
    BY <1>5, <2>1, <2>2 DEF IsFullySeeded, Grow
  <2>3. CASE file[entry].torn
    BY <1>2, <1>4, <2>1, <2>3
  <2>4. ASSUME NEW other \in Request, request[other].step \in Seeding,
               FileOf(other) = entry
        PROVE  \/ IsFullySeeded(file'[entry].tables)
               \/ \E any \in Request : /\ request'[any].step \in Seeding
                                       /\ FileOf(any)' = entry
    <3>1. CASE other # r
      BY <1>2, <1>8, <2>4, <3>1
    <3>2. CASE other = r /\ request[r].step = "thread"
      <4>1. /\ SeedContact \in file[f].tables.contacts
            /\ SeedEventId \in DOMAIN file[f].tables.calendar
        BY <3>2 DEF FixturesKept, FixturesInOrder
      <4>2. IsFullySeeded(F.tables)
        BY <1>3, <3>2, <4>1 DEF IsFullySeeded, Grow
      <4>3. QED
        BY <1>2, <2>4, <3>2, <4>2
    <3>3. CASE other = r /\ request[r].step # "thread"
      <4>1. request'[r].step \in Seeding
        BY <1>2, <1>4, <1>9, <2>4, <3>3
      <4>2. QED
        BY <1>7, <2>4, <3>3, <4>1
    <3>4. QED
      BY <3>1, <3>2, <3>3
  <2>5. QED
    BY <2>2, <2>3, <2>4 DEF FixturesKept, SeedingGoesOn
<1>14. QED
  BY <1>10, <1>11, <1>12, <1>13 DEF FixturesKept

(* The LabState of a request that is still seeding is its own.             *)
LEMMA SeedingFile ==
    ASSUME HandlesInOrder, NEW r \in Request, request[r].step \in Seeding
    PROVE  /\ request[r].lab = r /\ lab[r] # NoLab
           /\ FileOf(r) = lab[r].file /\ FileOf(r) \in Request
<1>1. request[r].step \in Holding
  BY DEF Holding
<1>2. request[r].lab = r
  BY DEF HandlesInOrder, HandlesAreOpen
<1>3. QED
  BY <1>1, <1>2, HeldLab DEF FileOf

(* The fixtures do not mind what leaves the tables and the LabStates of    *)
(* the requests that seed alone, and gives up seeding only of full files.  *)
LEMMA FixturesUndisturbed ==
    ASSUME HandlesInOrder, FixturesKept, entry' \in {entry, None},
           \A f \in Request : /\ file'[f].tables = file[f].tables
                              /\ file'[f].locked_by \in {None, file[f].locked_by}
                              /\ file[f].torn => file'[f].torn,
           \A r \in Request :
              request'[r].step \in Seeding =>
                 /\ request[r].step = request'[r].step
                 /\ request'[r].lab = request[r].lab
                 /\ lab'[r].file = lab[r].file,
           \A r \in Request :
              (request[r].step \in Seeding /\ FileOf(r) = entry) =>
                 \/ request'[r].step \in Seeding
                 \/ IsFullySeeded(file[entry].tables)
                 \/ file'[entry].torn
    PROVE  FixturesKept'
<1>1. \A r \in Request :
          request'[r].step \in Seeding =>
              FileOf(r)' = FileOf(r) /\ FileOf(r) \in Request
  BY SeedingFile DEF FileOf
<1>2. {"calendar", "thread"} \subseteq Seeding
  BY DEF Seeding, SeedOrder
<1>3. FixturesInOrder'
  <2> SUFFICES ASSUME NEW r \in Request
               PROVE  /\ request'[r].step \in {"calendar", "thread"} =>
                             SeedContact \in file'[FileOf(r)'].tables.contacts
                      /\ request'[r].step = "thread" =>
                             SeedEventId \in DOMAIN file'[FileOf(r)'].tables.calendar
    BY DEF FixturesInOrder
  <2>1. request'[r].step \in {"calendar", "thread"} =>
            /\ request[r].step = request'[r].step
            /\ file'[FileOf(r)'].tables = file[FileOf(r)].tables
    BY <1>1, <1>2
  <2>2. QED
    BY <2>1 DEF FixturesKept, FixturesInOrder
<1>4. RowsReferToContacts'
  BY DEF FixturesKept, RowsReferToContacts
<1>5. LastFixtureIsThread'
  BY DEF FixturesKept, LastFixtureIsThread
<1>6. SeedingGoesOn'
  <2> SUFFICES ASSUME entry # None, entry' = entry
               PROVE  \/ IsFullySeeded(file'[entry].tables)
                      \/ file'[entry].torn
                      \/ \E r \in Request : /\ request'[r].step \in Seeding
                                            /\ FileOf(r)' = entry
    BY DEF SeedingGoesOn
  <2>1. entry \in Request
    BY DEF HandlesInOrder, StateTypeOK
  <2>2. QED
    BY <1>1, <2>1 DEF FixturesKept, SeedingGoesOn
<1>7. QED
  BY <1>3, <1>4, <1>5, <1>6 DEF FixturesKept

LEMMA QuietKeepsFixtures ==
    ASSUME HandlesInOrder, FixturesKept, NEW r \in Request, QuietStep(r)
    PROVE  FixturesKept'
<1>1. PICK q : Quiet(r, q) /\ MovesOn(r, q)
  BY DEF QuietStep
<1>2. /\ request'[r] = q
      /\ \A other \in Request \ {r} : request'[other] = request[other]
  BY <1>1, OneRequestMoves DEF Quiet, MovesOn
<1>3. UNCHANGED <<entry, file, lab>>
  BY <1>1 DEF Quiet
<1>4. q.step \notin Seeding
  BY <1>1 DEF MovesOn
<1>5. (request[r].step \in Seeding /\ FileOf(r) = entry) =>
          IsFullySeeded(file[entry].tables)
  <2> SUFFICES ASSUME request[r].step \in Seeding, FileOf(r) = entry
               PROVE  IsFullySeeded(file[entry].tables)
    OBVIOUS
  <2>1. ~MayWrite(r) /\ entry \in Request
    BY <1>1, SeedingFile DEF MovesOn
  <2>2. file[entry].locked_by # None
    BY <2>1 DEF MayWrite
  <2>3. QED
    BY <2>1, <2>2 DEF FixturesKept, LastFixtureIsThread
<1>6. QED
  BY <1>2, <1>3, <1>4, <1>5, FixturesUndisturbed

LEMMA OpenKeepsFixtures ==
    ASSUME HandlesInOrder, FixturesKept, NEW r \in Request, NEW q, Opens(r, q)
    PROVE  FixturesKept'
<1>1. /\ request'[r] = q
      /\ \A other \in Request \ {r} : request'[other] = request[other]
  BY OneRequestMoves DEF Opens
<1>2. \A f \in Request : /\ file'[f].tables = file[f].tables
                         /\ file'[f].locked_by = file[f].locked_by
                         /\ file'[f].torn = file[f].torn
  BY DEF Opens
<1>3. FileOf(r)' = Name(r) /\ Name(r) \in Request /\ entry' = Name(r)
  BY <1>1 DEF Opens, FileOf
<1>4. q.step \in {"contact", "store"}
  BY DEF Opens
<1>5. \A other \in Request \ {r} :
          request[other].step \in Seeding =>
              FileOf(other)' = FileOf(other) /\ FileOf(other) \in Request
  BY <1>1, SeedingFile DEF Opens, FileOf
<1>6. {"contact", "calendar", "thread"} = Seeding
  BY DEF Seeding, SeedOrder
<1>7. FixturesInOrder'
  <2> SUFFICES ASSUME NEW other \in Request
               PROVE  /\ request'[other].step \in {"calendar", "thread"} =>
                             SeedContact \in file'[FileOf(other)'].tables.contacts
                      /\ request'[other].step = "thread" =>
                             SeedEventId \in DOMAIN file'[FileOf(other)'].tables.calendar
    BY DEF FixturesInOrder
  <2>1. CASE other = r
    BY <1>1, <1>4, <2>1
  <2>2. CASE other # r
    <3>1. request'[other] = request[other]
      BY <1>1, <2>2
    <3>2. request[other].step \in Seeding =>
              file'[FileOf(other)'].tables = file[FileOf(other)].tables
      BY <1>2, <1>5, <2>2
    <3>3. QED
      BY <1>6, <3>1, <3>2 DEF FixturesKept, FixturesInOrder
  <2>3. QED
    BY <2>1, <2>2
<1>8. RowsReferToContacts'
  BY <1>2 DEF FixturesKept, RowsReferToContacts
<1>9. LastFixtureIsThread'
  BY <1>2 DEF FixturesKept, LastFixtureIsThread
<1>10. SeedingGoesOn'
  <2>1. CASE entry = None
    <3>1. Name(r) = r
      BY <2>1 DEF Name
    <3>2. file[r].tables.contacts = {}
      <4>1. file[r] = NewFile
        BY DEF Opens, HandlesInOrder, UnopenedIsUnknown, Unopened
      <4>2. QED
        BY <4>1, NoTablesType DEF NewFile
    <3>3. q.step = "contact"
      BY <3>1, <3>2 DEF Opens
    <3>4. QED
      BY <1>1, <1>3, <1>6, <3>3 DEF SeedingGoesOn
  <2>2. CASE entry # None
    <3>1. entry' = entry /\ entry \in Request
      BY <1>3, <2>2 DEF Name
    <3>2. ASSUME NEW other \in Request, request[other].step \in Seeding,
                 FileOf(other) = entry
          PROVE  request'[other].step \in Seeding /\ FileOf(other)' = entry
      <4>1. other # r
        BY <1>6, <3>2 DEF Opens
      <4>2. QED
        BY <1>1, <1>5, <3>2, <4>1
    <3>3. QED
      BY <1>2, <2>2, <3>1, <3>2 DEF FixturesKept, SeedingGoesOn
  <2>3. QED
    BY <2>1, <2>2
<1>11. QED
  BY <1>7, <1>8, <1>9, <1>10 DEF FixturesKept

LEMMA FixturesStay == HandlesInOrder /\ FixturesKept /\ [Next]_wvars => FixturesKept'
<1> SUFFICES ASSUME HandlesInOrder, FixturesKept, [Next]_wvars PROVE FixturesKept'
  OBVIOUS
<1>1. ASSUME NEW l \in Request, Collects(l) PROVE FixturesKept'
  <2>1. \A r \in Request : request[r].step \in Seeding => r # l
    BY <1>1, SeedingFile DEF Collects
  <2>2. UNCHANGED <<request, entry>>
    BY <1>1 DEF Collects
  <2>3. \A r \in Request : request'[r].step \in Seeding =>
            /\ request[r].step = request'[r].step
            /\ request'[r].lab = request[r].lab
            /\ lab'[r].file = lab[r].file
    BY <1>1, <2>1, <2>2 DEF Collects
  <2>4. \A f \in Request : /\ file'[f].tables = file[f].tables
                           /\ file'[f].locked_by \in {None, file[f].locked_by}
                           /\ file[f].torn => file'[f].torn
    BY <1>1 DEF Collects
  <2>5. QED
    BY <2>2, <2>3, <2>4, FixturesUndisturbed
<1>2. ASSUME Restarts PROVE FixturesKept'
  <2>1. \A r \in Request : request'[r].step \notin Seeding
    BY <1>2 DEF Restarts, Seeding, SeedOrder, Ended
  <2>2. \A f \in Request : /\ file'[f].tables = file[f].tables
                           /\ file'[f].locked_by \in {None, file[f].locked_by}
                           /\ file[f].torn => file'[f].torn
    BY <1>2 DEF Restarts
  <2>3. entry' = entry
    BY <1>2 DEF Restarts
  <2>4. \A r \in Request :
            (request[r].step \in Seeding /\ FileOf(r) = entry) => file'[entry].torn
    BY <1>2, SeedingFile DEF Restarts
  <2>5. QED
    BY <2>1, <2>2, <2>3, <2>4, FixturesUndisturbed
<1>3. ASSUME NEW d \in Deletion, Removes(d) PROVE FixturesKept'
  <2>1. entry' \in {entry, None} /\ UNCHANGED <<file, lab, request>>
    BY <1>3 DEF Removes
  <2>2. QED
    BY <2>1, FixturesUndisturbed
<1>4. CASE Next
  BY <1>1, <1>2, <1>3, <1>4, KindsOfSteps, QuietKeepsFixtures, WriteKeepsFixtures,
     OpenKeepsFixtures, Zenon
<1>5. CASE UNCHANGED wvars
  <2>1. UNCHANGED <<entry, file, lab, request>>
    BY <1>5 DEF wvars
  <2>2. QED
    BY <2>1, FixturesUndisturbed
<1>6. QED
  BY <1>4, <1>5

LEMMA FixturesAtFirst == Init => FixturesKept
<1> SUFFICES ASSUME Init PROVE FixturesKept
  OBVIOUS
<1>1. /\ \A f \in Request : file[f] = NewFile
      /\ \A r \in Request : request[r].step = "new"
      /\ entry = None
  BY NewRequestType DEF Init
<1>2. /\ NewFile.tables = NoTables /\ NewFile.locked_by = None
  BY DEF NewFile
<1>3. ItemsIn(NoTables) = {}
  BY NoTablesType DEF ItemsIn
<1>4. FixturesInOrder /\ SeedingGoesOn
  BY <1>1 DEF FixturesInOrder, SeedingGoesOn
<1>5. LastFixtureIsThread
  BY <1>1, <1>2, NoTablesType DEF LastFixtureIsThread
<1>6. RowsReferToContacts
  BY <1>1, <1>2, <1>3, NoTablesType DEF RowsReferToContacts
<1>7. QED
  BY <1>4, <1>5, <1>6 DEF FixturesKept

(***************************************************************************)
(* Events and drafts refer to contacts and threads of their file, wherever *)
(* seeding was cut off.                                                    *)
(***************************************************************************)
THEOREM RowsReferRightly == Spec => []RowsReferToContacts
<1>1. Init => HandlesInOrder /\ FixturesKept
  BY InitHandles, FixturesAtFirst
<1>2. HandlesInOrder /\ FixturesKept /\ [Next]_wvars => HandlesInOrder' /\ FixturesKept'
  BY HandlesStayInOrder, FixturesStay
<1>3. FixturesKept => RowsReferToContacts
  BY DEF FixturesKept
<1>4. QED
  BY <1>1, <1>2, <1>3, PTL DEF Spec

(***************************************************************************)
(* A user who is served has all fixtures, unless another request is adding *)
(* them or the server died while it did.                                   *)
(***************************************************************************)
THEOREM ServedAfterSeeding == Spec => []SeededWhenServed
<1>1. Init => HandlesInOrder /\ FixturesKept
  BY InitHandles, FixturesAtFirst
<1>2. HandlesInOrder /\ FixturesKept /\ [Next]_wvars => HandlesInOrder' /\ FixturesKept'
  BY HandlesStayInOrder, FixturesStay
<1>3. HandlesInOrder /\ FixturesKept => SeededWhenServed
  <2> SUFFICES ASSUME HandlesInOrder, FixturesKept, NEW r \in Request,
                      request[r].step \in {"serve", "act"}, FileOf(r) = entry,
                      ~IsFullySeeded(file[entry].tables)
               PROVE  \/ file[entry].torn
                      \/ \E other \in Request :
                            /\ request[other].step \in DOMAIN SeedOrder
                            /\ FileOf(other) = entry
    BY DEF SeededWhenServed
  <2>1. entry \in Request
    BY HeldLab DEF Holding
  <2>2. entry # None
    BY <2>1, WebLabAssumption
  <2>3. QED
    BY <2>2 DEF FixturesKept, SeedingGoesOn, Seeding
<1>4. QED
  BY <1>1, <1>2, <1>3, PTL DEF Spec

-----------------------------------------------------------------------------
(* What a turn was told it had created.                                    *)

LEMMA CreatedUndisturbed ==
    ASSUME HandlesInOrder, CreatedRowsStay,
           \A f \in Request : /\ file'[f].tables = file[f].tables
                              /\ file[f].shared => file'[f].shared,
           \A r \in Request : request'[r].created \subseteq request[r].created
    PROVE  CreatedRowsStay'
<1>1. \A r \in Request : \A row \in request[r].created : row.file \in Request
  BY DEF HandlesInOrder, StateTypeOK, RequestState, Row
<1>2. QED
  BY <1>1 DEF CreatedRowsStay, IsKept, Keeps

(* The rows that are kept when one more is written.                        *)
LEMMA KeptWithEvent ==
    ASSUME NEW table \in Table, NEW id \in Nat, NEW item \in Item, NEW row,
           Keeps(table, row), row.id # id
    PROVE  Keeps(WithRow(table, id, item), row)
<1>1. row.id \in DOMAIN table /\ table[row.id] = row.item
  BY DEF Keeps
<1>2. /\ DOMAIN WithRow(table, id, item) = DOMAIN table \cup {id}
      /\ \A i \in DOMAIN table \ {id} : WithRow(table, id, item)[i] = table[i]
  BY WithRowTable
<1>3. QED
  BY <1>1, <1>2 DEF Keeps

LEMMA WriteKeepsCreated ==
    ASSUME HandlesInOrder, RivalsOnly, CreatedRowsStay, NEW r \in Request, WriteStep(r)
    PROVE  CreatedRowsStay'
<1> DEFINE Kind(F, q) ==
              FixtureAdded(r, F, q) \/ IdUsedUp(r, F, q)
                 \/ \E call \in ToolCalls : \/ EventCreated(r, F, q, call)
                                            \/ DraftCreated(r, F, q, call)
                                            \/ DraftCollided(r, F, q, call)
<1>1. PICK F, q : Writes(r, F, q) /\ Kind(F, q)
  BY DEF WriteStep
<1>2. PICK l, f, old, n, m :
          /\ l = request[r].lab /\ f = FileOf(r) /\ old = file[f]
          /\ n = lab[l].next_cal_id /\ m = lab[l].next_draft_id
  OBVIOUS
<1>3. /\ l \in Request /\ lab[l] \in LabState /\ lab[l].file = f
      /\ f \in Request /\ old \in File
      /\ file'[f] = F /\ F \in File
      /\ \A other \in Request \ {f} : file'[other] = file[other]
      /\ request'[r] = q
      /\ \A other \in Request \ {r} : request'[other] = request[other]
  BY <1>1, <1>2, Written
<1>4. F.shared = old.shared
  BY <1>1, <1>2 DEF Writes
<1>5. /\ n \in Nat /\ n # SeedEventId /\ m \in Nat /\ old.tables \in Tables
  BY <1>2, <1>3 DEF LabState, File, SeedEventId
<1>6. old.tables.calendar \in Table /\ old.tables.drafts \in Table
  BY <1>5, TableTypes
<1>7. \A any \in Request : \A row \in request[any].created :
          row.file \in Request /\ row.table \in {"calendar", "drafts"}
  BY DEF HandlesInOrder, StateTypeOK, RequestState, Row
<1>8. \A any \in Request : \A row \in request[any].created :
          IsKept(row, file[row.file])
  BY DEF CreatedRowsStay
(* It is enough that the rows in the file are kept, and what is new.       *)
<1>9. ASSUME \A row : IsKept(row, old) => IsKept(row, F),
             \A row \in q.created \ request[r].created :
                 row.file = f /\ IsKept(row, F)
      PROVE  CreatedRowsStay'
  <2>1. ASSUME NEW any \in Request, NEW row \in request[any].created
        PROVE  IsKept(row, file'[row.file])
    <3>1. row.file \in Request /\ IsKept(row, file[row.file])
      BY <1>7, <1>8
    <3>2. CASE row.file = f
      BY <1>2, <1>3, <1>9, <3>1, <3>2
    <3>3. CASE row.file # f
      BY <1>3, <3>1, <3>3
    <3>4. QED
      BY <3>2, <3>3
  <2>2. ASSUME NEW any \in Request, NEW row \in request'[any].created
        PROVE  IsKept(row, file'[row.file])
    <3>1. CASE row \in request[any].created
      BY <2>1, <3>1
    <3>2. CASE row \notin request[any].created
      <4>1. any = r /\ row \in q.created
        BY <1>3, <2>2, <3>2
      <4>2. row.file = f /\ IsKept(row, F)
        BY <1>9, <3>2, <4>1
      <4>3. QED
        BY <1>3, <4>2
    <3>3. QED
      BY <3>1, <3>2
  <2>3. QED
    BY <2>2 DEF CreatedRowsStay
<1>10. ASSUME F.tables = old.tables, q.created = request[r].created
       PROVE  CreatedRowsStay'
  <2>1. \A row : IsKept(row, old) => IsKept(row, F)
    BY <1>4, <1>10 DEF IsKept
  <2>2. QED
    BY <1>9, <1>10, <2>1
<1>11. CASE FixtureAdded(r, F, q)
  <2>1. PICK new, part : new = F.tables /\ part = request[r].step
    OBVIOUS
  <2>2. /\ part \in Seeding /\ new = WithFixture(old.tables, part)
        /\ q.created = request[r].created
    BY <1>2, <1>11, <2>1 DEF FixtureAdded, OldTables
  <2>3. /\ new.calendar \in {old.tables.calendar,
                             WithRow(old.tables.calendar, SeedEventId, SeedEvent)}
        /\ new.drafts = old.tables.drafts
    BY <1>5, <2>2, FixtureTables
  <2>4. PICK id \in Nat, item \in Item : id = SeedEventId /\ item = SeedEvent
    BY SeedEventIsRow
  <2>5. \A row : (row.id # id /\ Keeps(old.tables.calendar, row)) =>
                     Keeps(WithRow(old.tables.calendar, id, item), row)
    BY <1>6, KeptWithEvent
  <2>6. ASSUME NEW row, IsKept(row, old) PROVE IsKept(row, F)
    BY <1>4, <2>1, <2>3, <2>4, <2>5, <2>6 DEF IsKept
  <2>7. QED
    BY <1>9, <2>2, <2>6
<1>12. CASE IdUsedUp(r, F, q)
  BY <1>2, <1>10, <1>12 DEF IdUsedUp
<1>13. ASSUME NEW call \in ToolCalls, DraftCollided(r, F, q, call)
       PROVE  CreatedRowsStay'
  BY <1>2, <1>10, <1>13 DEF DraftCollided, OldTables
<1>14. ASSUME NEW call \in ToolCalls, EventCreated(r, F, q, call)
       PROVE  CreatedRowsStay'
  <2>1. PICK item \in Item : item = ItemOf(r, call)
    BY <1>14 DEF EventCreated, Accepted
  <2>2. PICK new : new = F.tables
    OBVIOUS
  <2>3. new = WithEvent(old.tables, n, item)
    BY <1>2, <1>14, <2>1, <2>2 DEF EventCreated, OldTables
  <2>4. /\ new.calendar = WithRow(old.tables.calendar, n, item)
        /\ new.drafts = old.tables.drafts
    BY <1>5, <2>3, EventTables DEF SameTablesBut
  <2>5. PICK made : made = RowOf(r, "calendar", n, call)
    OBVIOUS
  <2>6. /\ made.table = "calendar" /\ made.id = n /\ made.item = item
        /\ made.file = f
    BY <1>2, <2>1, <2>5 DEF RowOf
  <2>7. q.created = request[r].created \cup {made}
    BY <1>2, <1>14, <2>5 DEF EventCreated
  <2>8. WithRow(old.tables.calendar, n, item)[n] = item
        /\ n \in DOMAIN WithRow(old.tables.calendar, n, item)
    BY DEF WithRow
  <2>9. IsKept(made, F)
    BY <1>5, <2>2, <2>4, <2>6, <2>8 DEF IsKept, Keeps
  <2>10. ~old.shared => n \notin DOMAIN old.tables.calendar
    <3>1. lab[l] # NoLab
      BY <1>3, WebLabAssumption DEF LabState, NoLab
    <3>2. ~old.shared => \A id \in DOMAIN old.tables.calendar : id < n
      BY <1>2, <1>3, <3>1 DEF RivalsOnly, NextIdsAreFree
    <3>3. ~(n < n)
      BY <1>5
    <3>4. QED
      BY <3>2, <3>3
  <2>11. \A row : (row.id # n /\ Keeps(old.tables.calendar, row)) =>
                      Keeps(WithRow(old.tables.calendar, n, item), row)
    BY <1>5, <1>6, KeptWithEvent
  <2>12. ASSUME NEW row, IsKept(row, old) PROVE IsKept(row, F)
    <3>1. CASE row.table = "drafts"
      BY <2>2, <2>4, <2>12, <3>1 DEF IsKept
    <3>2. CASE row.table # "drafts" /\ old.shared
      BY <1>4, <2>12, <3>2 DEF IsKept
    <3>3. CASE row.table # "drafts" /\ ~old.shared
      <4>1. Keeps(old.tables.calendar, row) /\ row.id # SeedEventId
        BY <2>12, <3>3 DEF IsKept
      <4>2. row.id # n
        BY <2>10, <3>3, <4>1 DEF Keeps
      <4>3. QED
        BY <2>2, <2>4, <2>11, <3>3, <4>1, <4>2 DEF IsKept
    <3>4. QED
      BY <3>1, <3>2, <3>3
  <2>13. QED
    BY <1>9, <2>6, <2>7, <2>9, <2>12
<1>15. ASSUME NEW call \in ToolCalls, DraftCreated(r, F, q, call)
       PROVE  CreatedRowsStay'
  <2>1. PICK item \in Item : item = ItemOf(r, call)
    BY <1>15 DEF DraftCreated, Accepted
  <2>2. PICK new : new = F.tables
    OBVIOUS
  <2>3. new = WithDraft(old.tables, m, item) /\ m \notin DOMAIN old.tables.drafts
    BY <1>2, <1>15, <2>1, <2>2 DEF DraftCreated, OldTables
  <2>4. /\ new.drafts = WithRow(old.tables.drafts, m, item)
        /\ new.calendar = old.tables.calendar
    BY <1>5, <2>3, DraftTables DEF SameTablesBut
  <2>5. PICK made : made = RowOf(r, "drafts", m, call)
    OBVIOUS
  <2>6. /\ made.table = "drafts" /\ made.id = m /\ made.item = item
        /\ made.file = f
    BY <1>2, <2>1, <2>5 DEF RowOf
  <2>7. q.created = request[r].created \cup {made}
    BY <1>2, <1>15, <2>5 DEF DraftCreated
  <2>8. WithRow(old.tables.drafts, m, item)[m] = item
        /\ m \in DOMAIN WithRow(old.tables.drafts, m, item)
    BY DEF WithRow
  <2>9. IsKept(made, F)
    BY <2>2, <2>4, <2>6, <2>8 DEF IsKept, Keeps
  <2>10. \A row : (row.id # m /\ Keeps(old.tables.drafts, row)) =>
                      Keeps(WithRow(old.tables.drafts, m, item), row)
    BY <1>5, <1>6, KeptWithEvent
  <2>11. ASSUME NEW row, IsKept(row, old) PROVE IsKept(row, F)
    <3>1. CASE row.table # "drafts"
      BY <1>4, <2>2, <2>4, <2>11, <3>1 DEF IsKept
    <3>2. CASE row.table = "drafts"
      <4>1. Keeps(old.tables.drafts, row)
        BY <2>11, <3>2 DEF IsKept
      <4>2. row.id # m
        BY <2>3, <4>1 DEF Keeps
      <4>3. QED
        BY <2>2, <2>4, <2>10, <3>2, <4>1, <4>2 DEF IsKept
    <3>3. QED
      BY <3>1, <3>2
  <2>12. QED
    BY <1>9, <2>6, <2>7, <2>9, <2>11
<1>16. QED
  BY <1>1, <1>11, <1>12, <1>13, <1>14, <1>15

LEMMA CreatedStay ==
    HandlesInOrder /\ RivalsOnly /\ CreatedRowsStay /\ [Next]_wvars => CreatedRowsStay'
<1> SUFFICES ASSUME HandlesInOrder, RivalsOnly, CreatedRowsStay, [Next]_wvars
             PROVE  CreatedRowsStay'
  OBVIOUS
<1>1. ASSUME NEW r \in Request, QuietStep(r) PROVE CreatedRowsStay'
  <2>1. PICK q : Quiet(r, q) /\ MovesOn(r, q)
    BY <1>1 DEF QuietStep
  <2>2. /\ request'[r] = q
        /\ \A other \in Request \ {r} : request'[other] = request[other]
    BY <2>1, OneRequestMoves DEF Quiet, MovesOn
  <2>3. UNCHANGED file /\ q.created \subseteq request[r].created
    BY <2>1 DEF Quiet, MovesOn
  <2>4. \A other \in Request : request'[other].created \subseteq request[other].created
    BY <2>2, <2>3
  <2>5. QED
    BY <2>3, <2>4, CreatedUndisturbed
<1>2. ASSUME NEW r \in Request, NEW q, Opens(r, q) PROVE CreatedRowsStay'
  <2>1. /\ request'[r] = q /\ q.created = request[r].created
        /\ \A other \in Request \ {r} : request'[other] = request[other]
    BY <1>2, OneRequestMoves DEF Opens
  <2>2. \A f \in Request : /\ file'[f].tables = file[f].tables
                           /\ file[f].shared => file'[f].shared
    BY <1>2 DEF Opens
  <2>3. \A other \in Request : request'[other].created \subseteq request[other].created
    BY <2>1
  <2>4. QED
    BY <2>2, <2>3, CreatedUndisturbed
<1>3. ASSUME NEW l \in Request, Collects(l) PROVE CreatedRowsStay'
  <2>1. /\ UNCHANGED request
        /\ \A f \in Request : /\ file'[f].tables = file[f].tables
                              /\ file[f].shared => file'[f].shared
    BY <1>3 DEF Collects
  <2>2. QED
    BY <2>1, CreatedUndisturbed
<1>4. ASSUME Restarts PROVE CreatedRowsStay'
  <2>1. \A f \in Request : /\ file'[f].tables = file[f].tables
                           /\ file[f].shared => file'[f].shared
    BY <1>4 DEF Restarts
  <2>2. \A r \in Request : request'[r].created \subseteq request[r].created
    BY <1>4 DEF Restarts
  <2>3. QED
    BY <2>1, <2>2, CreatedUndisturbed
<1>5. ASSUME UNCHANGED <<file, request>> PROVE CreatedRowsStay'
  BY <1>5, CreatedUndisturbed
<1>6. ASSUME NEW d \in Deletion, Removes(d) PROVE UNCHANGED <<file, request>>
  BY <1>6 DEF Removes
<1>7. CASE Next
  BY <1>1, <1>2, <1>3, <1>4, <1>5, <1>6, <1>7, KindsOfSteps, WriteKeepsCreated, Zenon
<1>8. CASE UNCHANGED wvars
  BY <1>5, <1>8 DEF wvars
<1>9. QED
  BY <1>7, <1>8

(***************************************************************************)
(* What a turn that was answered says it has created stays: a draft in any *)
(* case, and an event unless its file has been shared.                     *)
(***************************************************************************)
THEOREM ReportedItemsAreKept == Spec => []ReportedItemsStay
<1>1. Init => HandlesInOrder /\ RivalsOnly /\ CreatedRowsStay
  <2>1. Init => CreatedRowsStay
    BY NewRequestType DEF Init, CreatedRowsStay
  <2>2. QED
    BY <2>1, InitHandles, RivalsAtFirst
<1>2. HandlesInOrder /\ RivalsOnly /\ CreatedRowsStay /\ [Next]_wvars
          => HandlesInOrder' /\ RivalsOnly' /\ CreatedRowsStay'
  BY HandlesStayInOrder, RivalsStay, CreatedStay
<1>3. CreatedRowsStay => ReportedItemsStay
  BY DEF CreatedRowsStay, ReportedItemsStay, IsKept
<1>4. QED
  BY <1>1, <1>2, <1>3, PTL DEF Spec

-----------------------------------------------------------------------------
(* Deletion.                                                               *)

LEMMA FixtureItems ==
    ASSUME NEW old \in Tables, NEW part \in Seeding
    PROVE  ItemsIn(WithFixture(old, part)) = ItemsIn(old)
<1>1. PICK new : new = WithFixture(old, part)
  OBVIOUS
<1>2. /\ new.calendar \in {old.calendar, WithRow(old.calendar, SeedEventId, SeedEvent)}
      /\ new.drafts = old.drafts
  BY <1>1, FixtureTables
<1>3. /\ DOMAIN WithRow(old.calendar, SeedEventId, SeedEvent)
             = DOMAIN old.calendar \cup {SeedEventId}
      /\ \A id \in DOMAIN old.calendar \ {SeedEventId} :
             WithRow(old.calendar, SeedEventId, SeedEvent)[id] = old.calendar[id]
  <2>1. PICK id \in Nat, item \in Item : id = SeedEventId /\ item = SeedEvent
    BY SeedEventIsRow
  <2>2. old.calendar \in Table
    BY TableTypes
  <2>3. /\ DOMAIN WithRow(old.calendar, id, item) = DOMAIN old.calendar \cup {id}
        /\ \A i \in DOMAIN old.calendar \ {id} :
               WithRow(old.calendar, id, item)[i] = old.calendar[i]
    BY <2>2, WithRowTable
  <2>4. QED
    BY <2>1, <2>3
<1>4. /\ DOMAIN new.calendar \ {SeedEventId} = DOMAIN old.calendar \ {SeedEventId}
      /\ \A id \in DOMAIN old.calendar \ {SeedEventId} :
             new.calendar[id] = old.calendar[id]
  BY <1>2, <1>3
<1>5. QED
  BY <1>1, <1>2, <1>4 DEF ItemsIn

LEMMA EventItems ==
    ASSUME NEW old \in Tables, NEW id \in Nat, NEW item \in Item
    PROVE  ItemsIn(WithEvent(old, id, item)) \subseteq ItemsIn(old) \cup {item}
<1>1. PICK new : new = WithEvent(old, id, item)
  OBVIOUS
<1>2. new.calendar = WithRow(old.calendar, id, item) /\ new.drafts = old.drafts
  BY <1>1, EventTables DEF SameTablesBut
<1>3. /\ DOMAIN new.calendar = DOMAIN old.calendar \cup {id}
      /\ new.calendar[id] = item
      /\ \A i \in DOMAIN old.calendar \ {id} : new.calendar[i] = old.calendar[i]
  BY <1>2 DEF WithRow
<1>4. QED
  BY <1>1, <1>2, <1>3 DEF ItemsIn

LEMMA DraftItems ==
    ASSUME NEW old \in Tables, NEW id \in Nat, NEW item \in Item
    PROVE  ItemsIn(WithDraft(old, id, item)) \subseteq ItemsIn(old) \cup {item}
<1>1. PICK new : new = WithDraft(old, id, item)
  OBVIOUS
<1>2. new.drafts = WithRow(old.drafts, id, item) /\ new.calendar = old.calendar
  BY <1>1, DraftTables DEF SameTablesBut
<1>3. /\ DOMAIN new.drafts = DOMAIN old.drafts \cup {id}
      /\ new.drafts[id] = item
      /\ \A i \in DOMAIN old.drafts \ {id} : new.drafts[i] = old.drafts[i]
  BY <1>2 DEF WithRow
<1>4. QED
  BY <1>1, <1>2, <1>3 DEF ItemsIn

(* What is new in a file is the item of the call that is being made.       *)
LEMMA WrittenItems ==
    ASSUME HandlesInOrder, NEW r \in Request, NEW F, NEW q, Writes(r, F, q),
           FixtureAdded(r, F, q) \/ IdUsedUp(r, F, q)
               \/ \E call \in ToolCalls : \/ EventCreated(r, F, q, call)
                                          \/ DraftCreated(r, F, q, call)
                                          \/ DraftCollided(r, F, q, call)
    PROVE  \A item \in ItemsIn(F.tables) :
               \/ item \in ItemsIn(OldTables(r))
               \/ /\ request[r].step = "act" /\ item \in Item /\ item.by = r
                  /\ item.number = request[r].calls + 1
<1>1. PICK old, l, n, m : /\ old = OldTables(r) /\ l = request[r].lab
                          /\ n = lab[l].next_cal_id /\ m = lab[l].next_draft_id
  OBVIOUS
<1>2. old \in Tables /\ n \in Nat /\ m \in Nat
  BY <1>1, Written DEF OldTables, File, LabState
<1>3. CASE FixtureAdded(r, F, q)
  <2>1. PICK part \in Seeding : part = request[r].step
    BY <1>3 DEF FixtureAdded
  <2>2. F.tables = WithFixture(old, part)
    BY <1>1, <1>3, <2>1 DEF FixtureAdded
  <2>3. QED
    BY <1>1, <1>2, <2>2, FixtureItems
<1>4. CASE IdUsedUp(r, F, q)
  BY <1>1, <1>4 DEF IdUsedUp, OldTables
<1>5. ASSUME NEW call \in ToolCalls, DraftCollided(r, F, q, call)
      PROVE  F.tables = old
  BY <1>1, <1>5 DEF DraftCollided
<1>6. ASSUME NEW call \in ToolCalls,
             EventCreated(r, F, q, call) \/ DraftCreated(r, F, q, call)
      PROVE  \A any \in ItemsIn(F.tables) :
                 \/ any \in ItemsIn(old)
                 \/ /\ request[r].step = "act" /\ any \in Item /\ any.by = r
                    /\ any.number = request[r].calls + 1
  <2>1. PICK item \in Item : item = ItemOf(r, call)
    BY <1>6 DEF EventCreated, DraftCreated, Accepted
  <2>2. item.by = r /\ item.number = request[r].calls + 1
    BY <2>1 DEF ItemOf
  <2>3. request[r].step = "act"
    BY <1>6 DEF EventCreated, DraftCreated, Accepted
  <2>4. F.tables = WithEvent(old, n, item) \/ F.tables = WithDraft(old, m, item)
    BY <1>1, <1>6, <2>1 DEF EventCreated, DraftCreated
  <2>5. ItemsIn(F.tables) \subseteq ItemsIn(old) \cup {item}
    BY <1>2, <2>4, EventItems, DraftItems
  <2>6. QED
    BY <2>2, <2>3, <2>5
<1>7. QED
  BY <1>1, <1>3, <1>4, <1>5, <1>6

ItemsKept == ItemsAreCounted /\ RemovedStayRemoved

LEMMA TableItems ==
    ASSUME NEW tables \in Tables
    PROVE  ItemsIn(tables) \subseteq Item
BY TableTypes DEF ItemsIn

LEMMA StoredIsFile ==
    /\ entry = None => ItemsIn(Stored) = {}
    /\ entry # None => Stored = file[entry].tables
<1>1. ItemsIn(NoTables) = {}
  BY NoTablesType DEF ItemsIn
<1>2. QED
  BY <1>1 DEF Stored

(* An item stays counted: a turn counts on, and what is over stays over.   *)
LEMMA CountedStays ==
    ASSUME HandlesInOrder, HandlesInOrder',
           \A r \in Request :
              /\ request[r].step \in Ended => request'[r].step \in Ended
              /\ request[r].step = "act" =>
                     \/ request'[r].step \in Ended
                     \/ /\ request'[r].step = "act"
                        /\ request[r].calls <= request'[r].calls,
           NEW item \in Item, IsCounted(item)
    PROVE  IsCounted(item)'
<1>1. PICK by \in Request : by = item.by
  BY DEF IsCounted
<1>2. CASE request'[by].step \in Ended
  BY <1>1, <1>2 DEF IsCounted
<1>3. CASE request'[by].step \notin Ended
  <2>1. request[by].step = "act" /\ item.number <= request[by].calls
    BY <1>1, <1>3 DEF IsCounted
  <2>2. request'[by].step = "act" /\ request[by].calls <= request'[by].calls
    BY <1>3, <2>1
  <2>3. item.number \in Nat
    BY WebLabAssumption DEF Item
  <2>4. request[by].calls \in Nat
    BY WebLabAssumption DEF HandlesInOrder, StateTypeOK, RequestState
  <2>5. request'[by].calls \in Nat
    BY WebLabAssumption DEF HandlesInOrder, StateTypeOK, RequestState
  <2>6. item.number <= request'[by].calls
    BY <2>1, <2>2, <2>3, <2>4, <2>5
  <2>7. QED
    BY <1>1, <2>2, <2>6 DEF IsCounted
<1>4. QED
  BY <1>2, <1>3

(* Nothing is written, and at most the file of the user is out of reach.   *)
LEMMA ItemsUndisturbed ==
    ASSUME HandlesInOrder, HandlesInOrder', ItemsKept,
           \A r \in Request :
              /\ request[r].step \in Ended => request'[r].step \in Ended
              /\ request[r].step = "act" =>
                     \/ request'[r].step \in Ended
                     \/ /\ request'[r].step = "act"
                        /\ request[r].calls <= request'[r].calls,
           \A f \in Request : file'[f].tables = file[f].tables,
           \/ entry' = entry \/ entry' = None
           \/ entry' \in Request /\ file[entry'].tables = NoTables,
           \A d \in Deletion : \/ deletion'[d].before = deletion[d].before
                               \/ /\ deletion'[d].before = ItemsIn(Stored)
                                  /\ entry' = None
    PROVE  ItemsKept'
<1>1. \A f \in Request : ItemsIn(file[f].tables) \subseteq Item
  BY TableItems DEF HandlesInOrder, StateTypeOK, File
<1>2. \A d \in Deletion : deletion[d].before \subseteq Item
  BY DEF HandlesInOrder, StateTypeOK, DeletionState
<1>3. \A item \in ItemsIn(Stored) : \E f \in Request : item \in ItemsIn(file[f].tables)
  <2>1. entry \in Request \cup {None}
    BY DEF HandlesInOrder, StateTypeOK
  <2>2. QED
    BY <2>1, StoredIsFile
<1>4. \A f \in Request : \A item \in ItemsIn(file[f].tables) : IsCounted(item)'
  BY <1>1, CountedStays DEF ItemsKept, ItemsAreCounted
<1>5. \A d \in Deletion : \A item \in deletion[d].before : IsCounted(item)'
  BY <1>2, CountedStays DEF ItemsKept, ItemsAreCounted
<1>6. \A f \in Request : ItemsIn(file'[f].tables) = ItemsIn(file[f].tables)
  OBVIOUS
<1>7. \A d \in Deletion : \A item \in deletion'[d].before : IsCounted(item)'
  BY <1>3, <1>4, <1>5
<1>8. ItemsAreCounted'
  BY <1>4, <1>6, <1>7, Zenon DEF ItemsAreCounted
<1>9. ItemsIn(Stored)' = {} \/ (entry' = entry /\ ItemsIn(Stored)' = ItemsIn(Stored))
  <2>1. entry \in Request \cup {None}
    BY DEF HandlesInOrder, StateTypeOK
  <2>2. ItemsIn(NoTables) = {}
    BY NoTablesType DEF ItemsIn
  <2>3. CASE entry' = None
    BY <2>2, <2>3 DEF Stored
  <2>4. CASE entry' # None /\ entry' = entry
    <3>1. Stored = file[entry].tables /\ Stored' = file'[entry'].tables
      BY <2>4 DEF Stored
    <3>2. Stored' = Stored
      BY <2>1, <2>4, <3>1
    <3>3. QED
      BY <2>4, <3>2 DEF ItemsIn
  <2>5. CASE entry' \in Request /\ file[entry'].tables = NoTables
    <3>1. Stored' = NoTables
      BY <2>5, WebLabAssumption DEF Stored
    <3>2. DOMAIN Stored'.calendar = {} /\ DOMAIN Stored'.drafts = {}
      BY <3>1, NoTablesType
    <3>3. ItemsIn(Stored)' = {}
      BY <3>2 DEF ItemsIn
    <3>4. QED
      BY <3>3
  <2>6. QED
    BY <2>3, <2>4, <2>5
<1>10. RemovedStayRemoved'
  <2> SUFFICES ASSUME NEW d \in Deletion
               PROVE  deletion'[d].before \cap ItemsIn(Stored)' = {}
    BY DEF RemovedStayRemoved
  <2>1. CASE ItemsIn(Stored)' = {}
    BY <2>1
  <2>2. CASE entry' = entry /\ ItemsIn(Stored)' = ItemsIn(Stored) /\ ItemsIn(Stored)' # {}
    <3>1. deletion[d].before \cap ItemsIn(Stored) = {}
      BY DEF ItemsKept, RemovedStayRemoved
    <3>2. deletion'[d].before = deletion[d].before
      BY <2>2, StoredIsFile
    <3>3. QED
      BY <2>2, <3>1, <3>2
  <2>3. QED
    BY <1>9, <2>1, <2>2
<1>11. QED
  BY <1>8, <1>10 DEF ItemsKept

LEMMA WriteKeepsItems ==
    ASSUME HandlesInOrder, ItemsKept, NEW r \in Request, WriteStep(r)
    PROVE  ItemsKept'
<1> DEFINE Kind(F, q) ==
              FixtureAdded(r, F, q) \/ IdUsedUp(r, F, q)
                 \/ \E call \in ToolCalls : \/ EventCreated(r, F, q, call)
                                            \/ DraftCreated(r, F, q, call)
                                            \/ DraftCollided(r, F, q, call)
<1>1. PICK F, q : Writes(r, F, q) /\ Kind(F, q)
  BY DEF WriteStep
<1>2. HandlesInOrder'
  BY <1>1, WriteKeepsHandles
<1> DEFINE f == FileOf(r)
<1>3. /\ f \in Request /\ file[f] \in File
      /\ file'[f] = F /\ F \in File
      /\ \A other \in Request \ {f} : file'[other] = file[other]
      /\ request'[r] = q
      /\ \A other \in Request \ {r} : request'[other] = request[other]
  BY <1>1, Written
<1>4. /\ UNCHANGED <<entry, deletion>>
      /\ \/ /\ request[r].step = "act" /\ q.step = "act"
            /\ q.calls = request[r].calls + 1
         \/ request[r].step \in Seeding
  BY <1>1 DEF Writes
<1>5. request[r].calls \in Nat
  BY WebLabAssumption DEF HandlesInOrder, StateTypeOK, RequestState
<1>6. \A other \in Request :
          /\ request[other].step \in Ended => request'[other].step \in Ended
          /\ request[other].step = "act" =>
                 \/ request'[other].step \in Ended
                 \/ /\ request'[other].step = "act"
                    /\ request[other].calls <= request'[other].calls
  <2>1. \A other \in Request : request[other].calls \in Nat
    BY WebLabAssumption DEF HandlesInOrder, StateTypeOK, RequestState
  <2>2. \A other \in Request : request[other].calls <= request[other].calls
    BY <2>1
  <2>3. "act" \notin Ended /\ "act" \notin Seeding /\ Seeding \cap Ended = {}
    BY DEF Ended, Seeding, SeedOrder
  <2>4. request[r].calls <= request[r].calls + 1
    BY <1>5
  <2>5. QED
    BY <1>3, <1>4, <2>2, <2>3, <2>4
<1>7. \A item \in ItemsIn(F.tables) :
          \/ item \in ItemsIn(file[f].tables)
          \/ /\ request[r].step = "act" /\ item \in Item /\ item.by = r
             /\ item.number = request[r].calls + 1
  BY <1>1, WrittenItems DEF OldTables
<1>8. /\ \A other \in Request : ItemsIn(file[other].tables) \subseteq Item
      /\ \A d \in Deletion : deletion[d].before \subseteq Item
  BY TableItems DEF HandlesInOrder, StateTypeOK, File, DeletionState
<1>9. /\ \A other \in Request : \A item \in ItemsIn(file[other].tables) : IsCounted(item)'
      /\ \A d \in Deletion : \A item \in deletion[d].before : IsCounted(item)'
  BY <1>2, <1>6, <1>8, CountedStays DEF ItemsKept, ItemsAreCounted
<1>10. ASSUME NEW item \in ItemsIn(F.tables) PROVE IsCounted(item)'
  <2>1. CASE item \in ItemsIn(file[f].tables)
    BY <1>3, <1>9, <2>1
  <2>2. CASE item \notin ItemsIn(file[f].tables)
    <3>1. /\ request[r].step = "act" /\ item.by = r
          /\ item.number = request[r].calls + 1
      BY <1>7, <2>2
    <3>2. "act" \notin Seeding
      BY DEF Seeding, SeedOrder
    <3>3. request'[r].step = "act" /\ request'[r].calls = item.number
      BY <1>3, <1>4, <3>1, <3>2
    <3>4. item.number <= item.number
      BY <1>5, <3>1
    <3>5. QED
      BY <3>1, <3>3, <3>4 DEF IsCounted
  <2>3. QED
    BY <2>1, <2>2
<1>11. ItemsAreCounted'
  <2>1. \A other \in Request : \A item \in ItemsIn(file'[other].tables) : IsCounted(item)'
    BY <1>3, <1>9, <1>10
  <2>2. \A d \in Deletion : \A item \in deletion'[d].before : IsCounted(item)'
    BY <1>4, <1>9
  <2>3. QED
    BY <2>1, <2>2, Zenon DEF ItemsAreCounted
<1>12. RemovedStayRemoved'
  <2> SUFFICES ASSUME NEW d \in Deletion, NEW item \in deletion[d].before,
                      item \in ItemsIn(Stored)'
               PROVE  FALSE
    BY <1>4 DEF RemovedStayRemoved
  <2>1. entry \in Request \cup {None}
    BY DEF HandlesInOrder, StateTypeOK
  <2>2. item \notin ItemsIn(Stored) /\ IsCounted(item)
    BY DEF ItemsKept, ItemsAreCounted, RemovedStayRemoved
  <2>3. CASE entry = None
    <3>1. Stored' = NoTables
      BY <1>4, <2>3 DEF Stored
    <3>2. DOMAIN Stored'.calendar = {} /\ DOMAIN Stored'.drafts = {}
      BY <3>1, NoTablesType
    <3>3. ItemsIn(Stored)' = {}
      BY <3>2 DEF ItemsIn
    <3>4. QED
      BY <3>3
  <2>4. CASE entry # None
    <3>1. Stored = file[entry].tables
      BY <2>4 DEF Stored
    <3>2. Stored' = file'[entry].tables
      BY <1>4, <2>4 DEF Stored
    <3>3. CASE entry # f
      <4>1. Stored' = Stored
        BY <1>3, <2>1, <2>4, <3>1, <3>2, <3>3
      <4>2. ItemsIn(Stored)' = ItemsIn(Stored)
        BY <4>1 DEF ItemsIn
      <4>3. QED
        BY <2>2, <4>2
    <3>4. CASE entry = f
      <4>1. Stored' = F.tables
        BY <1>3, <3>2, <3>4
      <4>2. ItemsIn(Stored)' = ItemsIn(F.tables)
        BY <4>1 DEF ItemsIn
      <4>3. /\ request[r].step = "act" /\ item.by = r
            /\ item.number = request[r].calls + 1
        BY <1>7, <2>2, <3>1, <3>4, <4>2
      <4>4. item.number <= request[r].calls
        BY <2>2, <4>3 DEF IsCounted, Ended
      <4>5. ~(request[r].calls + 1 <= request[r].calls)
        BY <1>5
      <4>6. QED
        BY <4>3, <4>4, <4>5
    <3>5. QED
      BY <3>3, <3>4
  <2>5. QED
    BY <2>3, <2>4
<1>13. QED
  BY <1>11, <1>12 DEF ItemsKept

LEMMA ItemsStay == HandlesInOrder /\ ItemsKept /\ [Next]_wvars => ItemsKept'
<1> SUFFICES ASSUME HandlesInOrder, ItemsKept, [Next]_wvars PROVE ItemsKept'
  OBVIOUS
<1>1. HandlesInOrder'
  BY HandlesStayInOrder
<1>2. \A r \in Request : request[r].calls <= request[r].calls
  <2>1. \A r \in Request : request[r].calls \in Nat
    BY WebLabAssumption DEF HandlesInOrder, StateTypeOK, RequestState
  <2>2. QED
    BY <2>1
<1>3. "act" \notin Ended /\ "open" \notin Ended
  BY DEF Ended
<1>4. ASSUME NEW r \in Request, QuietStep(r) PROVE ItemsKept'
  <2>1. PICK q : Quiet(r, q) /\ MovesOn(r, q)
    BY <1>4 DEF QuietStep
  <2>2. /\ request'[r] = q
        /\ \A other \in Request \ {r} : request'[other] = request[other]
    BY <2>1, OneRequestMoves DEF Quiet, MovesOn
  <2>3. UNCHANGED <<entry, file, deletion>>
    BY <2>1 DEF Quiet
  <2>4. /\ request[r].step \notin Ended
        /\ request[r].step = "act" =>
               \/ q.step \in Ended
               \/ q.step = "act" /\ request[r].calls <= q.calls
    BY <2>1 DEF MovesOn
  <2>5. \A other \in Request :
            /\ request[other].step \in Ended => request'[other].step \in Ended
            /\ request[other].step = "act" =>
                   \/ request'[other].step \in Ended
                   \/ /\ request'[other].step = "act"
                      /\ request[other].calls <= request'[other].calls
    BY <1>2, <2>2, <2>4
  <2>6. QED
    BY <1>1, <2>3, <2>5, ItemsUndisturbed
<1>5. ASSUME NEW r \in Request, NEW q, Opens(r, q) PROVE ItemsKept'
  <2>1. /\ \A other \in Request \ {r} : request'[other] = request[other]
        /\ request[r].step = "open"
    BY <1>5, OneRequestMoves DEF Opens
  <2>2. \A other \in Request :
            /\ request[other].step \in Ended => request'[other].step \in Ended
            /\ request[other].step = "act" =>
                   \/ request'[other].step \in Ended
                   \/ /\ request'[other].step = "act"
                      /\ request[other].calls <= request'[other].calls
    BY <1>2, <1>3, <2>1
  <2>3. entry' = entry \/ (entry' \in Request /\ file[entry'].tables = NoTables)
    <3>1. CASE entry = None
      <4>1. entry' = r /\ file[r] = NewFile
        BY <1>5, <3>1 DEF Opens, Name, HandlesInOrder, UnopenedIsUnknown, Unopened
      <4>2. QED
        BY <4>1 DEF NewFile
    <3>2. CASE entry # None
      BY <1>5, <3>2 DEF Opens, Name
    <3>3. QED
      BY <3>1, <3>2
  <2>4. /\ \A f \in Request : file'[f].tables = file[f].tables
        /\ UNCHANGED deletion
    BY <1>5 DEF Opens
  <2>5. QED
    BY <1>1, <2>2, <2>3, <2>4, ItemsUndisturbed
<1>6. ASSUME UNCHANGED request,
             \A f \in Request : file'[f].tables = file[f].tables,
             entry' \in {entry, None},
             \A d \in Deletion : \/ deletion'[d].before = deletion[d].before
                                 \/ /\ deletion'[d].before = ItemsIn(Stored)
                                    /\ entry' = None
      PROVE  ItemsKept'
  <2>1. \A other \in Request :
            /\ request[other].step \in Ended => request'[other].step \in Ended
            /\ request[other].step = "act" =>
                   \/ request'[other].step \in Ended
                   \/ /\ request'[other].step = "act"
                      /\ request[other].calls <= request'[other].calls
    BY <1>2, <1>6
  <2>2. QED
    BY <1>1, <1>6, <2>1, ItemsUndisturbed
<1>7. ASSUME NEW l \in Request, Collects(l) PROVE ItemsKept'
  <2>1. /\ UNCHANGED <<request, entry, deletion>>
        /\ \A f \in Request : file'[f].tables = file[f].tables
    BY <1>7 DEF Collects
  <2>2. QED
    BY <1>6, <2>1
<1>8. ASSUME NEW d \in Deletion, Removes(d) PROVE ItemsKept'
  <2>1. /\ UNCHANGED <<request, file>> /\ entry' \in {entry, None}
        /\ \A other \in Deletion :
               \/ deletion'[other].before = deletion[other].before
               \/ deletion'[other].before = ItemsIn(Stored) /\ entry' = None
    BY <1>8 DEF Removes
  <2>2. QED
    BY <1>6, <2>1
<1>9. ASSUME Restarts PROVE ItemsKept'
  <2>1. \A other \in Request :
            /\ request[other].step \in Ended => request'[other].step \in Ended
            /\ request[other].step = "act" =>
                   \/ request'[other].step \in Ended
                   \/ /\ request'[other].step = "act"
                      /\ request[other].calls <= request'[other].calls
    BY <1>9 DEF Restarts, Ended
  <2>2. /\ \A f \in Request : file'[f].tables = file[f].tables
        /\ UNCHANGED <<entry, deletion>>
    BY <1>9 DEF Restarts
  <2>3. QED
    BY <1>1, <2>1, <2>2, ItemsUndisturbed
<1>10. CASE Next
  BY <1>4, <1>5, <1>7, <1>8, <1>9, <1>10, KindsOfSteps, WriteKeepsItems, Zenon
<1>11. CASE UNCHANGED wvars
  BY <1>6, <1>11 DEF wvars
<1>12. QED
  BY <1>10, <1>11

LEMMA ItemsAtFirst == Init => ItemsKept
<1> SUFFICES ASSUME Init PROVE ItemsKept
  OBVIOUS
<1>1. /\ \A f \in Request : file[f] = NewFile
      /\ \A d \in Deletion : deletion[d].before = {}
  BY DEF Init
<1>2. NewFile.tables = NoTables
  BY DEF NewFile
<1>3. ItemsIn(NoTables) = {}
  BY NoTablesType DEF ItemsIn
<1>4. QED
  BY <1>1, <1>2, <1>3 DEF ItemsKept, ItemsAreCounted, RemovedStayRemoved

(***************************************************************************)
(* What was there when a user was deleted is never back in the file of the *)
(* user.                                                                   *)
(***************************************************************************)
THEOREM DeletedStay == Spec => []DeletedStayDeleted
<1>1. Init => HandlesInOrder /\ ItemsKept
  BY InitHandles, ItemsAtFirst
<1>2. HandlesInOrder /\ ItemsKept /\ [Next]_wvars => HandlesInOrder' /\ ItemsKept'
  BY HandlesStayInOrder, ItemsStay
<1>3. ItemsKept => DeletedStayDeleted
  BY DEF ItemsKept, RemovedStayRemoved, DeletedStayDeleted
<1>4. QED
  BY <1>1, <1>2, <1>3, PTL DEF Spec

-----------------------------------------------------------------------------
(* The database does what the in-memory store does.  The store has an id   *)
(* for each call that can be made, so the ids that are handed out are      *)
(* counted against the calls that have been.                               *)

CallOf == Request \X (1 .. MaxToolCalls)

(* A request that is over may have made all its calls.                     *)
Made ==
    {call \in CallOf :
        \/ request[call[1]].step \in Ended
        \/ request[call[1]].step = "act" /\ call[2] <= request[call[1]].calls}

(* No id is higher than the number of calls.                               *)
IdsUpTo(tables, count) ==
    /\ \A id \in DOMAIN tables.calendar : id <= count
    /\ \A id \in DOMAIN tables.drafts : id <= count

IdsCountCalls ==
    /\ \A l \in Request :
          lab[l] # NoLab => /\ lab[l].next_cal_id <= Cardinality(Made) + 1
                            /\ lab[l].next_draft_id <= Cardinality(Made) + 1
    /\ \A f \in Request : IdsUpTo(file[f].tables, Cardinality(Made))

GoesOn(r) ==
    /\ request[r].step \in Ended => request'[r].step \in Ended
    /\ request[r].step = "act" =>
           \/ request'[r].step \in Ended
           \/ request'[r].step = "act" /\ request[r].calls <= request'[r].calls

LEMMA MadeIsFinite ==
    ASSUME IsFiniteSet(Request), NEW calls \in SUBSET CallOf
    PROVE  /\ IsFiniteSet(calls) /\ Cardinality(calls) \in Nat
           /\ Cardinality(calls) <= Cardinality(Request) * MaxToolCalls
           /\ Cardinality(Request) * MaxToolCalls \in Nat
<1>1. MaxToolCalls \in Nat
  BY WebLabAssumption
<1>2. IsFiniteSet(1 .. MaxToolCalls) /\ Cardinality(1 .. MaxToolCalls) = MaxToolCalls
  <2>1. 1 \in Int /\ MaxToolCalls \in Int
    BY <1>1
  <2>2. /\ IsFiniteSet(1 .. MaxToolCalls)
        /\ Cardinality(1 .. MaxToolCalls)
               = IF 1 > MaxToolCalls THEN 0 ELSE MaxToolCalls - 1 + 1
    BY <2>1, FS_Interval
  <2>3. (IF 1 > MaxToolCalls THEN 0 ELSE MaxToolCalls - 1 + 1) = MaxToolCalls
    BY <1>1
  <2>4. QED
    BY <2>2, <2>3
<1>3. /\ IsFiniteSet(CallOf)
      /\ Cardinality(CallOf) = Cardinality(Request) * MaxToolCalls
  BY <1>2, FS_Product DEF CallOf
<1>4. Cardinality(CallOf) \in Nat
  BY <1>3, FS_CardinalityType
<1>5. IsFiniteSet(calls) /\ Cardinality(calls) <= Cardinality(CallOf)
  BY <1>3, FS_Subset
<1>6. Cardinality(calls) \in Nat
  BY <1>5, FS_CardinalityType
<1>7. QED
  BY <1>3, <1>4, <1>5, <1>6

(* Calls that have been made stay made.                                    *)
LEMMA MadeStays ==
    ASSUME HandlesInOrder, HandlesInOrder', \A r \in Request : GoesOn(r)
    PROVE  Made \subseteq Made'
<1> SUFFICES ASSUME NEW call \in Made PROVE call \in Made'
  OBVIOUS
<1>1. PICK r \in Request, n \in 1 .. MaxToolCalls : call = <<r, n>>
  BY DEF Made, CallOf
<1>2. call \in CallOf /\ call[1] = r /\ call[2] = n
  BY <1>1 DEF Made
<1>3. request[r].step \in Ended \/ (request[r].step = "act" /\ n <= request[r].calls)
  BY <1>2 DEF Made
<1>4. request[r].calls \in Nat
  BY WebLabAssumption DEF HandlesInOrder, StateTypeOK, RequestState
<1>5. request'[r].calls \in Nat
  BY WebLabAssumption DEF HandlesInOrder, StateTypeOK, RequestState
<1>6. n \in Nat
  BY WebLabAssumption
<1>7. \/ request'[r].step \in Ended
      \/ request'[r].step = "act" /\ n <= request'[r].calls
  <2>1. CASE request'[r].step \in Ended
    BY <2>1
  <2>2. CASE request'[r].step \notin Ended
    <3>1. request[r].step = "act" /\ n <= request[r].calls
      BY <1>3, <2>2 DEF GoesOn
    <3>2. request'[r].step = "act" /\ request[r].calls <= request'[r].calls
      BY <2>2, <3>1 DEF GoesOn
    <3>3. n <= request'[r].calls
      BY <1>4, <1>5, <1>6, <3>1, <3>2
    <3>4. QED
      BY <3>2, <3>3
  <2>3. QED
    BY <2>1, <2>2
<1>8. QED
  BY <1>2, <1>7 DEF Made

(* The ids keep to the calls when neither is changed but by more calls.    *)
LEMMA IdsUndisturbed ==
    ASSUME IsFiniteSet(Request), HandlesInOrder, HandlesInOrder', IdsCountCalls,
           \A r \in Request : GoesOn(r),
           \A f \in Request : file'[f].tables = file[f].tables,
           \A l \in Request :
              \/ lab'[l] = lab[l] \/ lab'[l] = NoLab
              \/ \E f \in Request :
                    /\ lab'[l] \in LabState
                    /\ lab'[l].next_cal_id - 1 \in DOMAIN file[f].tables.calendar \cup {0}
                    /\ lab'[l].next_draft_id - 1 \in DOMAIN file[f].tables.drafts \cup {0}
    PROVE  IdsCountCalls'
<1>1. Made \in SUBSET CallOf /\ Made' \in SUBSET CallOf
  BY DEF Made
<1>2. PICK u, v : u = Cardinality(Made) /\ v = Cardinality(Made')
  OBVIOUS
<1>3. u \in Nat /\ v \in Nat /\ u <= v
  <2>1. IsFiniteSet(Made') /\ u \in Nat /\ v \in Nat
    BY <1>1, <1>2, MadeIsFinite
  <2>2. Made \in SUBSET Made'
    BY MadeStays
  <2>3. QED
    BY <1>2, <2>1, <2>2, FS_Subset
<1>4. \A f \in Request : IdsUpTo(file[f].tables, u)
  BY <1>2 DEF IdsCountCalls
<1>5. \A f \in Request : /\ DOMAIN file[f].tables.calendar \subseteq Nat
                         /\ DOMAIN file[f].tables.drafts \subseteq Nat
  BY TableTypes DEF HandlesInOrder, StateTypeOK, File
<1>6. \A f \in Request : IdsUpTo(file[f].tables, v)
  BY <1>3, <1>4, <1>5 DEF IdsUpTo
<1>7. ASSUME NEW l \in Request, lab'[l] # NoLab
      PROVE  lab'[l].next_cal_id <= v + 1 /\ lab'[l].next_draft_id <= v + 1
  <2>1. lab'[l] \in LabState
    BY <1>7 DEF HandlesInOrder, StateTypeOK
  <2>2. PICK n, m : n = lab'[l].next_cal_id /\ m = lab'[l].next_draft_id
    OBVIOUS
  <2>3. n \in Nat /\ m \in Nat
    BY <2>1, <2>2 DEF LabState
  <2>4. CASE lab'[l] = lab[l]
    <3>1. n <= u + 1 /\ m <= u + 1
      BY <1>2, <1>7, <2>2, <2>4 DEF IdsCountCalls
    <3>2. n <= v + 1 /\ m <= v + 1
      BY <1>3, <2>3, <3>1
    <3>3. QED
      BY <2>2, <3>2
  <2>5. ASSUME NEW f \in Request,
               lab'[l].next_cal_id - 1 \in DOMAIN file[f].tables.calendar \cup {0},
               lab'[l].next_draft_id - 1 \in DOMAIN file[f].tables.drafts \cup {0}
        PROVE  n <= v + 1 /\ m <= v + 1
    <3>1. \A id \in DOMAIN file[f].tables.calendar \cup {0} : id \in Nat /\ id <= v
      BY <1>3, <1>5, <1>6 DEF IdsUpTo
    <3>2. \A id \in DOMAIN file[f].tables.drafts \cup {0} : id \in Nat /\ id <= v
      BY <1>3, <1>5, <1>6 DEF IdsUpTo
    <3>3. n - 1 <= v /\ m - 1 <= v
      BY <2>2, <2>5, <3>1, <3>2
    <3>4. QED
      BY <1>3, <2>3, <3>3
  <2>6. QED
    BY <1>7, <2>2, <2>4, <2>5
<1>8. QED
  BY <1>2, <1>6, <1>7 DEF IdsCountCalls

(* A call that is being made has not been counted, and there is room.      *)
LEMMA OneMoreCall ==
    ASSUME IsFiniteSet(Request), HandlesInOrder, NEW r \in Request,
           request[r].step = "act", request[r].calls + 1 \in 1 .. MaxToolCalls
    PROVE  /\ <<r, request[r].calls + 1>> \in CallOf \ Made
           /\ Cardinality(Made \cup {<<r, request[r].calls + 1>>}) = Cardinality(Made) + 1
           /\ Cardinality(Made) + 1 <= Cardinality(Request) * MaxToolCalls
<1> DEFINE n == request[r].calls + 1
<1>1. <<r, n>> \in CallOf
  BY DEF CallOf
<1>2. <<r, n>> \notin Made
  <2>1. request[r].calls \in Nat
    BY WebLabAssumption DEF HandlesInOrder, StateTypeOK, RequestState
  <2>2. ~(n <= request[r].calls)
    BY <2>1
  <2>3. "act" \notin Ended
    BY DEF Ended
  <2>4. <<r, n>>[1] = r /\ <<r, n>>[2] = n
    OBVIOUS
  <2> HIDE DEF n
  <2>5. QED
    BY <2>2, <2>3, <2>4 DEF Made
<1> HIDE DEF n
<1>3. Made \in SUBSET CallOf /\ Made \cup {<<r, n>>} \in SUBSET CallOf
  BY <1>1 DEF Made
<1>4. Cardinality(Made \cup {<<r, n>>}) = Cardinality(Made) + 1
  BY <1>2, <1>3, MadeIsFinite, FS_AddElement
<1>5. Cardinality(Made \cup {<<r, n>>}) <= Cardinality(Request) * MaxToolCalls
  BY <1>3, MadeIsFinite
<1>6. QED
  BY <1>1, <1>2, <1>4, <1>5 DEF n

LEMMA WriteGoesOn ==
    ASSUME HandlesInOrder, NEW r \in Request, NEW F, NEW q, Writes(r, F, q)
    PROVE  /\ \A other \in Request : GoesOn(other)
           /\ request[r].step = "act" =>
                  request'[r].step = "act" /\ request'[r].calls = request[r].calls + 1
<1>1. /\ request'[r] = q
      /\ \A other \in Request \ {r} : request'[other] = request[other]
  BY Written
<1>2. /\ "act" \notin Ended /\ "act" \notin Seeding /\ Seeding \cap Ended = {}
  BY DEF Ended, Seeding, SeedOrder
<1>3. \A other \in Request : request[other].calls \in Nat
  BY WebLabAssumption DEF HandlesInOrder, StateTypeOK, RequestState
<1>4. \A other \in Request : /\ request[other].calls <= request[other].calls
                             /\ request[other].calls <= request[other].calls + 1
  BY <1>3
<1>5. \/ /\ request[r].step = "act" /\ q.step = "act"
         /\ q.calls = request[r].calls + 1
      \/ request[r].step \in Seeding
  BY DEF Writes
<1>6. QED
  BY <1>1, <1>2, <1>4, <1>5 DEF GoesOn

LEMMA WriteCounts ==
    ASSUME IsFiniteSet(Request), HandlesInOrder, IdsCountCalls, NEW r \in Request,
           WriteStep(r)
    PROVE  IdsCountCalls'
<1> DEFINE Kind(F, q) ==
              FixtureAdded(r, F, q) \/ IdUsedUp(r, F, q)
                 \/ \E call \in ToolCalls : \/ EventCreated(r, F, q, call)
                                            \/ DraftCreated(r, F, q, call)
                                            \/ DraftCollided(r, F, q, call)
<1>1. PICK F, q : Writes(r, F, q) /\ Kind(F, q)
  BY DEF WriteStep
<1>2. HandlesInOrder'
  BY <1>1, WriteKeepsHandles
<1>3. PICK l, f, old, n, m, u, v :
          /\ l = request[r].lab /\ f = FileOf(r) /\ old = file[f].tables
          /\ n = lab[l].next_cal_id /\ m = lab[l].next_draft_id
          /\ u = Cardinality(Made) /\ v = Cardinality(Made')
  OBVIOUS
<1>4. /\ l \in Request /\ lab[l] \in LabState /\ lab[l].file = f
      /\ f \in Request /\ file[f] \in File
      /\ lab'[l] \in LabState
      /\ file'[f] = F /\ F \in File
      /\ \A other \in Request \ {f} : file'[other] = file[other]
      /\ \A k \in Request \ {l} : lab'[k] = lab[k]
  BY <1>1, <1>3, Written
<1>5. /\ n \in Nat /\ m \in Nat /\ old \in Tables
  BY <1>3, <1>4 DEF LabState, File
<1>6. /\ old.calendar \in Table /\ DOMAIN old.calendar \subseteq Nat
      /\ old.drafts \in Table /\ DOMAIN old.drafts \subseteq Nat
  BY <1>5, TableTypes
<1>7. \A other \in Request : GoesOn(other)
  BY <1>1, WriteGoesOn
<1>8. u \in Nat /\ v \in Nat /\ u <= v
  <2>1. Made' \in SUBSET CallOf /\ Made \in SUBSET CallOf
    BY DEF Made
  <2>2. IsFiniteSet(Made') /\ u \in Nat /\ v \in Nat
    BY <1>3, <2>1, MadeIsFinite
  <2>3. Made \in SUBSET Made'
    BY <1>2, <1>7, MadeStays
  <2>4. QED
    BY <1>3, <2>2, <2>3, FS_Subset
<1>9. /\ n <= u + 1 /\ m <= u + 1 /\ IdsUpTo(old, u)
  <2>1. lab[l] # NoLab
    BY <1>4, WebLabAssumption DEF LabState, NoLab
  <2>2. QED
    BY <1>3, <1>4, <2>1 DEF IdsCountCalls
<1>10. \A other \in Request : IdsUpTo(file[other].tables, v)
  <2>1. \A other \in Request : IdsUpTo(file[other].tables, u)
    BY <1>3 DEF IdsCountCalls
  <2>2. \A other \in Request : /\ DOMAIN file[other].tables.calendar \subseteq Nat
                               /\ DOMAIN file[other].tables.drafts \subseteq Nat
    BY TableTypes DEF HandlesInOrder, StateTypeOK, File
  <2>3. QED
    BY <1>8, <2>1, <2>2 DEF IdsUpTo
<1>11. \A k \in Request : lab[k] # NoLab =>
           lab[k].next_cal_id <= v + 1 /\ lab[k].next_draft_id <= v + 1
  <2>1. \A k \in Request : lab[k] # NoLab =>
            lab[k].next_cal_id <= u + 1 /\ lab[k].next_draft_id <= u + 1
    BY <1>3 DEF IdsCountCalls
  <2>2. \A k \in Request : lab[k] # NoLab =>
            lab[k].next_cal_id \in Nat /\ lab[k].next_draft_id \in Nat
    BY DEF HandlesInOrder, StateTypeOK, LabState
  <2>3. QED
    BY <1>8, <2>1, <2>2
(* It is enough that the file and the LabState that change keep to it.     *)
<1>12. ASSUME IdsUpTo(F.tables, v),
              lab'[l].next_cal_id <= v + 1, lab'[l].next_draft_id <= v + 1
       PROVE  IdsCountCalls'
  <2>1. \A other \in Request : IdsUpTo(file'[other].tables, v)
    BY <1>4, <1>10, <1>12
  <2>2. \A k \in Request : lab'[k] # NoLab =>
            lab'[k].next_cal_id <= v + 1 /\ lab'[k].next_draft_id <= v + 1
    BY <1>4, <1>11, <1>12
  <2>3. QED
    BY <1>3, <2>1, <2>2 DEF IdsCountCalls
<1>13. CASE FixtureAdded(r, F, q)
  <2>1. PICK part \in Seeding : F.tables = WithFixture(old, part)
    BY <1>3, <1>13 DEF FixtureAdded, OldTables
  <2>2. PICK new : new = F.tables
    OBVIOUS
  <2>3. /\ new.calendar \in {old.calendar, WithRow(old.calendar, SeedEventId, SeedEvent)}
        /\ new.drafts = old.drafts
    <3>1. new = WithFixture(old, part)
      BY <2>1, <2>2
    <3>2. QED
      BY <1>5, <3>1, FixtureTables
  <2>4. DOMAIN WithRow(old.calendar, SeedEventId, SeedEvent)
            = DOMAIN old.calendar \cup {0}
    BY DEF WithRow, SeedEventId
  <2>5. IdsUpTo(new, v)
    BY <1>6, <1>8, <1>9, <2>3, <2>4 DEF IdsUpTo
  <2>6. UNCHANGED lab
    BY <1>1, <1>13 DEF FixtureAdded, Writes, Seeding, SeedOrder
  <2>7. n <= v + 1 /\ m <= v + 1
    BY <1>5, <1>8, <1>9
  <2>8. QED
    BY <1>3, <1>12, <2>2, <2>5, <2>6, <2>7
<1>14. ASSUME request[r].step = "act", request[r].calls + 1 \in 1 .. MaxToolCalls
       PROVE  u + 1 <= v
  <2>1. PICK call : call = <<r, request[r].calls + 1>>
    OBVIOUS
  <2>2. /\ call \in CallOf /\ call[1] = r /\ call[2] = request[r].calls + 1
        /\ Cardinality(Made \cup {call}) = u + 1
    BY <1>3, <1>14, <2>1, OneMoreCall
  <2>3. request'[r].step = "act" /\ request'[r].calls = request[r].calls + 1
    BY <1>1, <1>14, WriteGoesOn
  <2>4. request[r].calls + 1 <= request[r].calls + 1
    BY <1>14
  <2>5. call \in Made'
    BY <2>2, <2>3, <2>4 DEF Made
  <2>6. Made \cup {call} \in SUBSET Made'
    BY <1>2, <1>7, <2>5, MadeStays
  <2>7. Made' \in SUBSET CallOf
    BY DEF Made
  <2>8. IsFiniteSet(Made')
    BY <2>7, MadeIsFinite
  <2>9. QED
    BY <1>3, <2>2, <2>6, <2>8, FS_Subset
<1>15. request[r].step = "act" => request[r].calls + 1 \in 1 .. MaxToolCalls
  <2>1. request'[r].calls \in 0 .. MaxToolCalls
    BY <1>2 DEF HandlesInOrder, StateTypeOK, RequestState
  <2>2. request[r].calls \in Nat
    BY WebLabAssumption DEF HandlesInOrder, StateTypeOK, RequestState
  <2>3. request[r].step = "act" => request'[r].calls = request[r].calls + 1
    BY <1>1, WriteGoesOn
  <2>4. QED
    BY <2>1, <2>2, <2>3, WebLabAssumption
<1>16. ASSUME request[r].step = "act", F.tables = old,
              lab'[l].next_cal_id \in {n, n + 1}, lab'[l].next_draft_id \in {m, m + 1}
       PROVE  IdsCountCalls'
  <2>1. u + 1 <= v
    BY <1>14, <1>15, <1>16
  <2>2. IdsUpTo(old, v)
    BY <1>3, <1>4, <1>10
  <2>3. lab'[l].next_cal_id <= v + 1 /\ lab'[l].next_draft_id <= v + 1
    BY <1>5, <1>8, <1>9, <1>16, <2>1
  <2>4. QED
    BY <1>12, <1>16, <2>2, <2>3
<1>17. CASE IdUsedUp(r, F, q)
  BY <1>3, <1>16, <1>17 DEF IdUsedUp
<1>18. ASSUME NEW call \in ToolCalls, DraftCollided(r, F, q, call)
       PROVE  IdsCountCalls'
  BY <1>3, <1>16, <1>18 DEF DraftCollided, Accepted, OldTables
<1>19. ASSUME NEW call \in ToolCalls, EventCreated(r, F, q, call)
       PROVE  IdsCountCalls'
  <2>1. PICK item \in Item : item = ItemOf(r, call)
    BY <1>19 DEF EventCreated, Accepted
  <2>2. PICK new : new = F.tables
    OBVIOUS
  <2>3. /\ new = WithEvent(old, n, item) /\ request[r].step = "act"
        /\ lab'[l].next_cal_id = n + 1 /\ lab'[l].next_draft_id = m
    BY <1>3, <1>19, <2>1, <2>2 DEF EventCreated, Accepted, OldTables
  <2>4. new.calendar = WithRow(old.calendar, n, item) /\ new.drafts = old.drafts
    BY <1>5, <2>3, EventTables DEF SameTablesBut
  <2>5. DOMAIN new.calendar = DOMAIN old.calendar \cup {n}
    BY <2>4 DEF WithRow
  <2>6. u + 1 <= v
    BY <1>14, <1>15, <2>3
  <2>7. n <= v /\ n + 1 <= v + 1 /\ m <= v + 1
    BY <1>5, <1>8, <1>9, <2>6
  <2>8. IdsUpTo(old, v)
    BY <1>3, <1>4, <1>10
  <2>9. IdsUpTo(new, v)
    BY <2>4, <2>5, <2>7, <2>8 DEF IdsUpTo
  <2>10. QED
    BY <1>12, <2>2, <2>3, <2>7, <2>9
<1>20. ASSUME NEW call \in ToolCalls, DraftCreated(r, F, q, call)
       PROVE  IdsCountCalls'
  <2>1. PICK item \in Item : item = ItemOf(r, call)
    BY <1>20 DEF DraftCreated, Accepted
  <2>2. PICK new : new = F.tables
    OBVIOUS
  <2>3. /\ new = WithDraft(old, m, item) /\ request[r].step = "act"
        /\ lab'[l].next_cal_id = n /\ lab'[l].next_draft_id = m + 1
    BY <1>3, <1>20, <2>1, <2>2 DEF DraftCreated, Accepted, OldTables
  <2>4. new.drafts = WithRow(old.drafts, m, item) /\ new.calendar = old.calendar
    BY <1>5, <2>3, DraftTables DEF SameTablesBut
  <2>5. DOMAIN new.drafts = DOMAIN old.drafts \cup {m}
    BY <2>4 DEF WithRow
  <2>6. u + 1 <= v
    BY <1>14, <1>15, <2>3
  <2>7. m <= v /\ m + 1 <= v + 1 /\ n <= v + 1
    BY <1>5, <1>8, <1>9, <2>6
  <2>8. IdsUpTo(old, v)
    BY <1>3, <1>4, <1>10
  <2>9. IdsUpTo(new, v)
    BY <2>4, <2>5, <2>7, <2>8 DEF IdsUpTo
  <2>10. QED
    BY <1>12, <2>2, <2>3, <2>7, <2>9
<1>21. QED
  BY <1>1, <1>13, <1>17, <1>18, <1>19, <1>20

LEMMA IdsStayCounted ==
    ASSUME IsFiniteSet(Request), HandlesInOrder, IdsCountCalls, [Next]_wvars
    PROVE  IdsCountCalls'
<1>1. HandlesInOrder'
  BY HandlesStayInOrder
<1>2. \A r \in Request : request[r].calls <= request[r].calls
  <2>1. \A r \in Request : request[r].calls \in Nat
    BY WebLabAssumption DEF HandlesInOrder, StateTypeOK, RequestState
  <2>2. QED
    BY <2>1
<1>3. "act" \notin Ended /\ "open" \notin Ended /\ "new" # "act"
  BY DEF Ended
<1>4. \A r \in Request : UNCHANGED request => GoesOn(r)
  BY <1>2 DEF GoesOn
<1>5. ASSUME NEW r \in Request, QuietStep(r) PROVE IdsCountCalls'
  <2>1. PICK q : Quiet(r, q) /\ MovesOn(r, q)
    BY <1>5 DEF QuietStep
  <2>2. /\ request'[r] = q
        /\ \A other \in Request \ {r} : request'[other] = request[other]
    BY <2>1, OneRequestMoves DEF Quiet, MovesOn
  <2>3. UNCHANGED <<file, lab>>
    BY <2>1 DEF Quiet
  <2>4. \A other \in Request : GoesOn(other)
    BY <1>2, <2>1, <2>2 DEF GoesOn, MovesOn
  <2>5. QED
    BY <1>1, <2>3, <2>4, IdsUndisturbed
<1>6. ASSUME NEW r \in Request, NEW q, Opens(r, q) PROVE IdsCountCalls'
  <2>1. /\ \A other \in Request \ {r} : request'[other] = request[other]
        /\ request[r].step = "open"
    BY <1>6, OneRequestMoves DEF Opens
  <2>2. \A other \in Request : GoesOn(other)
    BY <1>2, <1>3, <2>1 DEF GoesOn
  <2>3. \A f \in Request : file'[f].tables = file[f].tables
    BY <1>6 DEF Opens
  <2>4. \A l \in Request :
           \/ lab'[l] = lab[l]
           \/ \E f \in Request :
                 /\ lab'[l] \in LabState
                 /\ lab'[l].next_cal_id - 1 \in DOMAIN file[f].tables.calendar \cup {0}
                 /\ lab'[l].next_draft_id - 1 \in DOMAIN file[f].tables.drafts \cup {0}
    BY <1>6 DEF Opens
  <2>5. QED
    BY <1>1, <2>2, <2>3, <2>4, IdsUndisturbed
<1>7. ASSUME NEW l \in Request, Collects(l) PROVE IdsCountCalls'
  <2>1. /\ UNCHANGED request
        /\ \A f \in Request : file'[f].tables = file[f].tables
        /\ \A k \in Request : lab'[k] = lab[k] \/ lab'[k] = NoLab
    BY <1>7 DEF Collects
  <2>2. QED
    BY <1>1, <1>4, <2>1, IdsUndisturbed
<1>8. ASSUME Restarts PROVE IdsCountCalls'
  <2>1. /\ \A f \in Request : file'[f].tables = file[f].tables
        /\ \A k \in Request : lab'[k] = NoLab
    BY <1>8 DEF Restarts
  <2>2. \A r \in Request : GoesOn(r)
    BY <1>8 DEF Restarts, GoesOn, Ended
  <2>3. QED
    BY <1>1, <2>1, <2>2, IdsUndisturbed
<1>9. ASSUME UNCHANGED <<file, lab, request>> PROVE IdsCountCalls'
  BY <1>1, <1>4, <1>9, IdsUndisturbed
<1>10. ASSUME NEW d \in Deletion, Removes(d) PROVE IdsCountCalls'
  BY <1>9, <1>10 DEF Removes
<1>11. CASE Next
  BY <1>5, <1>6, <1>7, <1>8, <1>10, <1>11, KindsOfSteps, WriteCounts, Zenon
<1>12. CASE UNCHANGED wvars
  BY <1>9, <1>12 DEF wvars
<1>13. QED
  BY <1>11, <1>12

LEMMA IdsCountedAtFirst == ASSUME IsFiniteSet(Request), Init PROVE IdsCountCalls
<1>1. \A f \in Request : file[f].tables = NoTables /\ lab[f] = NoLab
  BY DEF Init, NewFile
<1>2. QED
  BY <1>1, NoTablesType DEF IdsCountCalls, IdsUpTo

-----------------------------------------------------------------------------
(* Each step of the lab is a step of the in-memory store, or none.         *)

OneStore == HandlesInOrder /\ RivalsOnly /\ IdsCountCalls

(* The tables of the user do not change.                                   *)
LEMMA SameStore ==
    ASSUME HandlesInOrder, entry' = entry,
           \A f \in Request : file'[f].tables = file[f].tables
    PROVE  Stored' = Stored
<1>1. entry \in Request \cup {None}
  BY DEF HandlesInOrder, StateTypeOK
<1>2. CASE entry = None
  BY <1>2 DEF Stored
<1>3. CASE entry # None
  <2>1. Stored = file[entry].tables /\ Stored' = file'[entry].tables
    BY <1>3 DEF Stored
  <2>2. QED
    BY <1>1, <1>3, <2>1
<1>4. QED
  BY <1>2, <1>3

LEMMA AnId ==
    ASSUME IsFiniteSet(Request), OneStore, NEW r \in Request, request[r].step = "act",
           request[r].calls + 1 \in 1 .. MaxToolCalls, ~file[FileOf(r)].shared,
           NEW L, L = lab[request[r].lab], NEW tables, tables = OldTables(r),
           L \in LabState
    PROVE  /\ L.next_cal_id \in 1 .. Cardinality(Request) * MaxToolCalls
           /\ L.next_cal_id \notin DOMAIN tables.calendar
           /\ L.next_draft_id \in 1 .. Cardinality(Request) * MaxToolCalls
           /\ L.next_draft_id \notin DOMAIN tables.drafts
<1>1. request[r].lab \in Request /\ L # NoLab /\ L.file = FileOf(r)
  BY HeldLab DEF OneStore, Holding, FileOf
<1>2. PICK n, m, u, room : /\ n = L.next_cal_id /\ m = L.next_draft_id
                           /\ u = Cardinality(Made)
                           /\ room = Cardinality(Request) * MaxToolCalls
  OBVIOUS
<1>3. n \in Nat \ {0} /\ m \in Nat \ {0}
  BY <1>2 DEF LabState
<1>4. n <= u + 1 /\ m <= u + 1
  BY <1>1, <1>2 DEF OneStore, IdsCountCalls
<1>5. u + 1 <= room
  BY <1>2, OneMoreCall DEF OneStore
<1>6. Made \in SUBSET CallOf
  BY DEF Made
<1>7. u \in Nat /\ room \in Nat
  BY <1>2, <1>6, MadeIsFinite
<1>8. n \in 1 .. room /\ m \in 1 .. room
  BY <1>3, <1>4, <1>5, <1>7
<1>9. /\ \A id \in DOMAIN tables.calendar : id < n
      /\ \A id \in DOMAIN tables.drafts : id < m
  BY <1>1, <1>2 DEF OneStore, RivalsOnly, NextIdsAreFree, OldTables
<1>10. ~(n < n) /\ ~(m < m)
  BY <1>3
<1>11. n \notin DOMAIN tables.calendar /\ m \notin DOMAIN tables.drafts
  BY <1>9, <1>10
<1>12. QED
  BY <1>2, <1>8, <1>11

ItemOfStore ==
    [by: Request, number: 1 .. MaxToolCalls,
     people: SUBSET (Contact \cup {Self}), thread: Thread]

LEMMA WriteIsStoreStep ==
    ASSUME IsFiniteSet(Request), OneStore, ~IsShared, NEW r \in Request, WriteStep(r)
    PROVE  Phone!Next \/ Stored' = Stored
<1> DEFINE Kind(F, q) ==
              FixtureAdded(r, F, q) \/ IdUsedUp(r, F, q)
                 \/ \E call \in ToolCalls : \/ EventCreated(r, F, q, call)
                                            \/ DraftCreated(r, F, q, call)
                                            \/ DraftCollided(r, F, q, call)
<1>1. PICK F, q : Writes(r, F, q) /\ Kind(F, q)
  BY DEF WriteStep
<1>2. HandlesInOrder
  BY DEF OneStore
<1>3. PICK l, f, old, L : /\ l = request[r].lab /\ f = FileOf(r)
                          /\ old = OldTables(r) /\ L = lab[l]
  OBVIOUS
<1>4. /\ l \in Request /\ L \in LabState /\ f \in Request /\ file[f] \in File
      /\ old = file[f].tables /\ old \in Tables
      /\ file'[f] = F
      /\ \A other \in Request \ {f} : file'[other] = file[other]
  BY <1>1, <1>2, <1>3, Written DEF OldTables, File
<1>5. entry' = entry
  BY <1>1 DEF Writes
<1>6. ASSUME F.tables = old PROVE Stored' = Stored
  BY <1>2, <1>4, <1>5, <1>6, SameStore
<1>7. ASSUME MayWrite(r)
      PROVE  /\ Stored = old /\ Stored' = F.tables /\ ~file[f].shared
  <2>1. f = entry /\ entry # None
    BY <1>3, <1>4, <1>7, WebLabAssumption DEF MayWrite
  <2>2. QED
    BY <1>4, <1>5, <2>1 DEF Stored, IsShared
<1>8. CASE FixtureAdded(r, F, q)
  <2>1. PICK part \in Seeding : F.tables = WithFixture(old, part)
    BY <1>3, <1>8 DEF FixtureAdded
  <2>2. PICK new : new = F.tables
    OBVIOUS
  <2>3. Stored = old /\ Stored' = new
    BY <1>7, <1>8, <2>2 DEF FixtureAdded
  <2>4. /\ new.contacts = (IF part = "contact" THEN old.contacts \cup {SeedContact}
                           ELSE old.contacts)
        /\ new.calendar = (IF part = "calendar"
                           THEN WithRow(old.calendar, SeedEventId, SeedEvent)
                           ELSE old.calendar)
        /\ new.threads = (IF part = "thread" THEN old.threads \cup {SeedThread}
                          ELSE old.threads)
        /\ new.drafts = old.drafts
    <3>1. old \in Tables /\ new = WithFixture(old, part)
      BY <1>4, <2>1, <2>2
    <3>2. QED
      BY <3>1, FixtureTables
  <2>5. part \in {"contact", "calendar", "thread"}
    BY DEF Seeding, SeedOrder
  <2>6. CASE part = "contact"
    <3>1. Phone!AddContact(SeedContact)
      BY <2>3, <2>4, <2>6 DEF Phone!AddContact
    <3>2. QED
      BY <3>1, WebLabAssumption DEF Phone!Next
  <2>7. CASE part = "calendar"
    <3>1. Phone!AddCalendarEvent(SeedEventId, SeedEvent)
      BY <2>3, <2>4, <2>7 DEF Phone!AddCalendarEvent, Phone!WithRow, WithRow
    <3>2. QED
      BY <3>1 DEF Phone!Next
  <2>8. CASE part = "thread"
    <3>1. Phone!AddMessageThread(SeedThread)
      BY <2>3, <2>4, <2>8 DEF Phone!AddMessageThread
    <3>2. QED
      BY <3>1, WebLabAssumption DEF Phone!Next
  <2>9. QED
    BY <2>5, <2>6, <2>7, <2>8
<1>9. CASE IdUsedUp(r, F, q)
  BY <1>3, <1>4, <1>6, <1>9 DEF IdUsedUp
<1>10. ASSUME NEW call \in ToolCalls, DraftCollided(r, F, q, call)
       PROVE  Stored' = Stored
  BY <1>3, <1>6, <1>10 DEF DraftCollided
<1>11. ASSUME NEW call \in ToolCalls, Accepted(r, q, call)
       PROVE  ItemOf(r, call) \in ItemOfStore
  <2>1. call \in ToolCall /\ request[r].calls + 1 \in 1 .. MaxToolCalls
    BY <1>11, WebLabAssumption DEF Accepted
  <2>2. QED
    BY <2>1 DEF ItemOf, ItemOfStore, ToolCall
<1>12. ASSUME NEW call \in ToolCalls, EventCreated(r, F, q, call)
       PROVE  Phone!Next
  <2>1. MayWrite(r) /\ Accepted(r, q, call)
    BY <1>12 DEF EventCreated
  <2>2. PICK item \in ItemOfStore : item = ItemOf(r, call)
    BY <1>11, <2>1
  <2>3. PICK new, id : new = F.tables /\ id = L.next_cal_id
    OBVIOUS
  <2>4. Stored = old /\ Stored' = new /\ ~file[f].shared
    BY <1>7, <2>1, <2>3
  <2>5. id \in (1 .. Cardinality(Request) * MaxToolCalls) \ DOMAIN old.calendar
    BY <1>3, <1>4, <2>1, <2>3, <2>4, AnId DEF Accepted
  <2>6. new = WithEvent(old, id, item)
    BY <1>3, <1>12, <2>2, <2>3 DEF EventCreated
  <2>7. id \in Nat /\ item \in Item
    <3>1. id \in Nat
      BY <1>4, <2>3 DEF LabState
    <3>2. item \in Item
      BY <2>1, <2>2 DEF Accepted
    <3>3. QED
      BY <3>1, <3>2
  <2>8. /\ new.calendar = WithRow(old.calendar, id, item)
        /\ new.contacts = old.contacts /\ new.threads = old.threads
        /\ new.drafts = old.drafts
    BY <1>4, <2>6, <2>7, EventTables DEF SameTablesBut
  <2>9. Phone!AddCalendarEvent(id, item)
    BY <2>4, <2>8 DEF Phone!AddCalendarEvent, Phone!WithRow, WithRow
  <2>10. Phone!CreateCalendarEvent(item)
    BY <2>4, <2>5, <2>9 DEF Phone!CreateCalendarEvent
  <2>11. QED
    BY <2>10 DEF Phone!Next, ItemOfStore
<1>13. ASSUME NEW call \in ToolCalls, DraftCreated(r, F, q, call)
       PROVE  Phone!Next
  <2>1. MayWrite(r) /\ Accepted(r, q, call)
    BY <1>13 DEF DraftCreated
  <2>2. PICK item \in ItemOfStore : item = ItemOf(r, call)
    BY <1>11, <2>1
  <2>3. PICK new, id : new = F.tables /\ id = L.next_draft_id
    OBVIOUS
  <2>4. Stored = old /\ Stored' = new /\ ~file[f].shared
    BY <1>7, <2>1, <2>3
  <2>5. id \in (1 .. Cardinality(Request) * MaxToolCalls) \ DOMAIN old.drafts
    BY <1>3, <1>4, <2>1, <2>3, <2>4, AnId DEF Accepted
  <2>6. new = WithDraft(old, id, item)
    BY <1>3, <1>13, <2>2, <2>3 DEF DraftCreated
  <2>7. id \in Nat /\ item \in Item
    <3>1. id \in Nat
      BY <1>4, <2>3 DEF LabState
    <3>2. item \in Item
      BY <2>1, <2>2 DEF Accepted
    <3>3. QED
      BY <3>1, <3>2
  <2>8. /\ new.drafts = WithRow(old.drafts, id, item)
        /\ new.contacts = old.contacts /\ new.threads = old.threads
        /\ new.calendar = old.calendar
    BY <1>4, <2>6, <2>7, DraftTables DEF SameTablesBut
  <2>9. Phone!DraftMessage(item)
    BY <2>4, <2>5, <2>8 DEF Phone!DraftMessage, Phone!WithRow, WithRow
  <2>10. QED
    BY <2>9 DEF Phone!Next, ItemOfStore
<1>14. QED
  BY <1>1, <1>8, <1>9, <1>10, <1>12, <1>13

LEMMA StepIsStoreStep ==
    ASSUME IsFiniteSet(Request), OneStore, [Next]_wvars, ~IsShared
    PROVE  Phone!Next \/ Stored' = Stored
<1>1. HandlesInOrder
  BY DEF OneStore
<1>2. ASSUME NEW r \in Request, QuietStep(r) PROVE Stored' = Stored
  <2>1. UNCHANGED <<entry, file>>
    BY <1>2 DEF QuietStep, Quiet
  <2>2. QED
    BY <1>1, <2>1, SameStore
<1>3. ASSUME NEW r \in Request, NEW q, Opens(r, q) PROVE Stored' = Stored
  <2>1. \A f \in Request : file'[f].tables = file[f].tables
    BY <1>3 DEF Opens
  <2>2. CASE entry = None
    <3>1. entry' = r /\ file[r] = NewFile
      BY <1>1, <1>3, <2>2
         DEF Opens, Name, HandlesInOrder, UnopenedIsUnknown, Unopened
    <3>2. Stored' = file'[r].tables /\ Stored = NoTables
      BY <2>2, <3>1, WebLabAssumption DEF Stored
    <3>3. QED
      BY <2>1, <3>1, <3>2 DEF NewFile
  <2>3. CASE entry # None
    <3>1. entry' = entry
      BY <1>3, <2>3 DEF Opens, Name
    <3>2. QED
      BY <1>1, <2>1, <3>1, SameStore
  <2>4. QED
    BY <2>2, <2>3
<1>4. ASSUME NEW l \in Request, Collects(l) PROVE Stored' = Stored
  BY <1>1, <1>4, SameStore DEF Collects
<1>5. ASSUME Restarts PROVE Stored' = Stored
  BY <1>1, <1>5, SameStore DEF Restarts
<1>6. ASSUME NEW d \in Deletion, Removes(d) PROVE Phone!Next \/ Stored' = Stored
  <2>1. CASE entry' = entry
    <3>1. UNCHANGED file
      BY <1>6 DEF Removes
    <3>2. QED
      BY <1>1, <2>1, <3>1, SameStore
  <2>2. CASE entry' = None
    <3>1. Stored' = NoTables
      BY <2>2 DEF Stored
    <3>2. Phone!StartAfresh
      BY <3>1, NoTablesType DEF Phone!StartAfresh
    <3>3. QED
      BY <3>2 DEF Phone!Next
  <2>3. QED
    BY <1>6, <2>1, <2>2 DEF Removes
<1>7. ASSUME NEW r \in Request, WriteStep(r) PROVE Phone!Next \/ Stored' = Stored
  BY <1>7, WriteIsStoreStep
<1>8. CASE Next
  BY <1>1, <1>2, <1>3, <1>4, <1>5, <1>6, <1>7, <1>8, KindsOfSteps, Zenon
<1>9. CASE UNCHANGED wvars
  BY <1>1, <1>9, SameStore DEF wvars
<1>10. QED
  BY <1>8, <1>9

(***************************************************************************)
(* Until two LabStates share the file of a user, the database implements   *)
(* the in-memory store: each step is a call of it, or leaves its tables    *)
(* alone.  The store needs an id for every call that can be made, so there *)
(* must not be infinitely many requests.                                   *)
(***************************************************************************)
THEOREM LabImplementsStore ==
    ASSUME IsFiniteSet(Request)
    PROVE  Spec => ActsAsOneStore
<1>1. Init => OneStore
  BY InitHandles, RivalsAtFirst, IdsCountedAtFirst DEF OneStore
<1>2. OneStore /\ [Next]_wvars => OneStore'
  BY HandlesStayInOrder, RivalsStay, IdsStayCounted DEF OneStore
<1>3. OneStore /\ [Next]_wvars => [IsShared \/ Phone!Next]_<<Stored>>
  BY StepIsStoreStep
<1>4. QED
  BY <1>1, <1>2, <1>3, PTL DEF Spec, ActsAsOneStore
==============================================================================
