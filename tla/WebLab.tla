-------------------------------- MODULE WebLab --------------------------------
(***************************************************************************)
(* The multi-user web lab as one of its users meets it.  Each request      *)
(* first gets the LabState of the user, or creates it: it makes the        *)
(* directory, opens the database file, seeds the phone state and puts the  *)
(* LabState into the cache.  A chat request then runs a turn whose tools   *)
(* write to the file.  Meanwhile the server may die and start again, and   *)
(* the command line, which is a process of its own, may delete the user.   *)
(*                                                                         *)
(* Login, chat, correct and delete are coroutines: they run on the event   *)
(* loop and give it up only where they read the body of the request, which *)
(* is after a chat has its LabState and before its turn.  All other routes *)
(* run on a thread pool.                                                   *)
(*                                                                         *)
(* Abstractions.  The users have nothing in common but the server, so there*)
(* is one.  A LabState and a file are named by the request that made them. *)
(* The memory service is here only as a second connection to the file,     *)
(* whose writes need the file to be in its place and not locked.  SQLite is*)
(* external: a statement is a step, a statement that fails leaves its      *)
(* transaction and its lock behind, and a file that has been unlinked can  *)
(* be read and not written.                                                *)
(***************************************************************************)
EXTENDS PhoneTools

CONSTANTS
    Loop,        \* the requests of the event loop
    Pool,        \* the requests of the thread pool
    Deletion,    \* the commands that delete the user
    ToolCalls,   \* the tool calls the model makes
    None,        \* no request
    MaxCrashes

ASSUME WebLabAssumption ==
    /\ Request = Loop \cup Pool /\ Loop \cap Pool = {}
    /\ None \notin Request
    /\ SeedContact \in Contact /\ SeedThread \in Thread
    /\ Self \notin Contact
    /\ ToolCalls \subseteq ToolCall
    /\ MaxToolCalls \in Nat /\ MaxCrashes \in Nat

VARIABLES
    directory,   \* the directory of the user exists
    entry,       \* the file the path in it names
    file,        \* the tables and the state of each file
    lab,         \* the LabStates
    cached,      \* UserLabStateManager._states
    request,     \* what each request is in the middle of
    deletion,    \* what each delete command is in the middle of
    crashes

wvars == <<directory, entry, file, lab, cached, request, deletion, crashes>>

(* locked_by: the LabState whose connection has an unfinished transaction. *)
(* shared and torn are not in the code.  shared: two LabStates have had the*)
(* file open at the same time; torn: the server died while it seeded it.   *)
NewFile ==
    [tables |-> NoTables, locked_by |-> None, shared |-> FALSE, torn |-> FALSE]

NoLab == [file |-> None, next_cal_id |-> 0, next_draft_id |-> 0]

(* created: what the tools of the turn were told they had created; worthy: *)
(* the turn has something to capture.                                      *)
NewRequest ==
    [step |-> "new", lab |-> None, calls |-> 0, created |-> {}, worthy |-> FALSE]

Creating == {"mkdir", "open", "store"} \cup DOMAIN SeedOrder

Acting == Creating \cup {"act"}

Step == Acting \cup {"new", "serve", "answered", "failed", "lost"}

Row == [table: {"calendar", "drafts"}, id: Nat, item: Item, file: Request]

TypeOK ==
    /\ directory \in BOOLEAN
    /\ entry \in Request \cup {None}
    /\ \A r \in Request :
          /\ TablesTypeOK(file[r].tables)
          /\ file[r].locked_by \in Request \cup {None}
          /\ file[r].shared \in BOOLEAN /\ file[r].torn \in BOOLEAN
          /\ lab[r] # NoLab =>
                 /\ lab[r].file \in Request
                 /\ lab[r].next_cal_id \in Nat \ {0}
                 /\ lab[r].next_draft_id \in Nat \ {0}
          /\ request[r].step \in Step
          /\ request[r].calls \in 0 .. MaxToolCalls
          /\ \A row \in request[r].created : row \in Row
          /\ request[r].lab # None => lab[request[r].lab] # NoLab
    /\ cached # None => lab[cached] # NoLab
    /\ crashes \in 0 .. MaxCrashes

Init ==
    /\ directory = FALSE
    /\ entry = None
    /\ file = [r \in Request |-> NewFile]
    /\ lab = [r \in Request |-> NoLab]
    /\ cached = None
    /\ request = [r \in Request |-> NewRequest]
    /\ deletion = [d \in Deletion |-> [step |-> "new", before |-> {}]]
    /\ crashes = 0

At(r, step) == request[r].step = step

Go(r, q) == request' = [request EXCEPT ![r] = q]

GoTo(r, step) == Go(r, [request[r] EXCEPT !.step = step])

(* The request answers with an error and lets go of its LabState.          *)
Fail(r) == Go(r, [NewRequest EXCEPT !.step = "failed"])

LoopIsFree == \A r \in Loop : request[r].step \notin Acting

FileOf(r) == lab[request[r].lab].file

(* The phone connection of the LabState of r may write, the memory         *)
(* connection may.                                                         *)
MayWrite(r) ==
    FileOf(r) = entry /\ file[entry].locked_by \in {None, request[r].lab}

MemoryMayWrite(r) == FileOf(r) = entry /\ file[entry].locked_by = None
-----------------------------------------------------------------------------
(* UserLabStateManager.get_or_create and LabState.create.                  *)

Lookup(r) ==
    /\ At(r, "new")
    /\ r \in Loop => LoopIsFree
    /\ IF cached = None
       THEN GoTo(r, "mkdir")
       ELSE Go(r, [request[r] EXCEPT !.step = "serve", !.lab = cached])
    /\ UNCHANGED <<directory, entry, file, lab, cached, deletion, crashes>>

MakeDirectory(r) ==
    /\ At(r, "mkdir")
    /\ directory' = TRUE
    /\ GoTo(r, "open")
    /\ UNCHANGED <<entry, file, lab, cached, deletion, crashes>>

IsLocked == entry # None /\ file[entry].locked_by # None

(* The directory has been removed since, or the permission of the user     *)
(* cannot be granted because the file is locked.                           *)
OpenFails(r) ==
    /\ At(r, "open")
    /\ ~directory \/ IsLocked
    /\ Fail(r)
    /\ UNCHANGED <<directory, entry, file, lab, cached, deletion, crashes>>

(* Connecting makes the file when there is none.  The ids that follow the  *)
(* rows of the file are read once.                                         *)
Open(r) ==
    LET name == IF entry = None THEN r ELSE entry
        old == IF entry = None THEN NewFile ELSE file[entry]
    IN  /\ At(r, "open")
        /\ directory
        /\ ~IsLocked
        /\ entry' = name
        /\ file' = [file EXCEPT ![name] =
               [old EXCEPT !.shared = @ \/ \E l \in Request : lab[l].file = name]]
        /\ lab' = [lab EXCEPT ![r] =
               [file |-> name,
                next_cal_id |-> NextNumericId(old.tables.calendar),
                next_draft_id |-> NextNumericId(old.tables.drafts)]]
        /\ Go(r, [request[r] EXCEPT
                     !.lab = r,
                     !.step = IF NeedsSeeding(old.tables) THEN FirstFixture ELSE "store"])
        /\ UNCHANGED <<directory, cached, deletion, crashes>>

Seed(r) ==
    /\ request[r].step \in DOMAIN SeedOrder
    /\ IF MayWrite(r)
       THEN /\ file' = [file EXCEPT ![entry].tables = WithFixture(@, request[r].step)]
            /\ GoTo(r, SeedOrder[request[r].step])
       ELSE Fail(r) /\ UNCHANGED file
    /\ UNCHANGED <<directory, entry, lab, cached, deletion, crashes>>

Store(r) ==
    /\ At(r, "store")
    /\ cached' = r
    /\ GoTo(r, "serve")
    /\ UNCHANGED <<directory, entry, file, lab, deletion, crashes>>
-----------------------------------------------------------------------------
(* What a request does with the LabState it has.                           *)

(* Requests that log in, whose body is blank, or that read the LabState.   *)
Answer(r) ==
    /\ At(r, "serve")
    /\ Go(r, [NewRequest EXCEPT !.step = "answered"])
    /\ UNCHANGED <<directory, entry, file, lab, cached, deletion, crashes>>

(* Reads of the memory write an audit record.                              *)
ReadMemory(r) ==
    /\ At(r, "serve")
    /\ r \in Pool
    /\ IF MemoryMayWrite(r)
       THEN Go(r, [NewRequest EXCEPT !.step = "answered"])
       ELSE Fail(r)
    /\ UNCHANGED <<directory, entry, file, lab, cached, deletion, crashes>>

(* Corrections and deletions have waited for the body of their request.    *)
ChangeMemory(r) ==
    /\ At(r, "serve")
    /\ r \in Loop
    /\ LoopIsFree
    /\ IF MemoryMayWrite(r)
       THEN Go(r, [NewRequest EXCEPT !.step = "answered"])
       ELSE Fail(r)
    /\ UNCHANGED <<directory, entry, file, lab, cached, deletion, crashes>>

(* A turn begins by building the memory context, which writes audit records.*)
StartTurn(r) ==
    /\ At(r, "serve")
    /\ r \in Loop
    /\ LoopIsFree
    /\ IF MemoryMayWrite(r) THEN GoTo(r, "act") ELSE Fail(r)
    /\ UNCHANGED <<directory, entry, file, lab, cached, deletion, crashes>>

(* The model, or the capture, raises: what the tools did stays.            *)
FailTurn(r) ==
    /\ At(r, "act")
    /\ Fail(r)
    /\ UNCHANGED <<directory, entry, file, lab, cached, deletion, crashes>>

Called(r, call, failed) ==
    [request[r] EXCEPT !.calls = @ + 1,
                       !.worthy = @ \/ IsCaptureWorthy(call, failed)]

ItemOf(r, call) ==
    [by |-> r, number |-> request[r].calls + 1,
     people |-> call.people, thread |-> call.thread]

MayCall(r) == At(r, "act") /\ request[r].calls < MaxToolCalls

(* A tool of the memory service: each leaves an audit record at least.     *)
CallMemory(r, call) ==
    /\ MayCall(r)
    /\ call.tool \in MemoryTool
    /\ Go(r, Called(r, call, ~MemoryMayWrite(r)))
    /\ UNCHANGED <<directory, entry, file, lab, cached, deletion, crashes>>

(* A phone tool that looks something up, and may not find it.              *)
LookUpPhone(r, call) ==
    /\ MayCall(r)
    /\ call.tool \in LookupTool
    /\ \E failed \in BOOLEAN : Go(r, Called(r, call, failed))
    /\ UNCHANGED <<directory, entry, file, lab, cached, deletion, crashes>>

Accepts(tables, call) ==
    \/ call.tool = "create_calendar_event" /\ AcceptsEvent(tables, call)
    \/ call.tool = "draft_message" /\ AcceptsDraft(tables, call)

RefuseCall(r, call) ==
    /\ MayCall(r)
    /\ call.tool \in ActionTool
    /\ ~Accepts(file[FileOf(r)].tables, call)
    /\ Go(r, Called(r, call, TRUE))
    /\ UNCHANGED <<directory, entry, file, lab, cached, deletion, crashes>>

(* The id is taken before the row is written, and is used up when the      *)
(* writing fails.                                                          *)
CreateCalendarEvent(r, call) ==
    LET l == request[r].lab
        id == lab[l].next_cal_id
        item == ItemOf(r, call)
        written == call.zoned /\ MayWrite(r)
    IN  /\ MayCall(r)
        /\ call.tool = "create_calendar_event"
        /\ Accepts(file[FileOf(r)].tables, call)
        /\ lab' = [lab EXCEPT ![l].next_cal_id = @ + 1]
        /\ IF written
           THEN /\ file' = [file EXCEPT ![entry].tables = WithEvent(@, id, item),
                                        ![entry].locked_by = None]
                /\ Go(r, [Called(r, call, FALSE) EXCEPT
                             !.created = @ \cup {[table |-> "calendar", id |-> id,
                                                  item |-> item, file |-> entry]}])
           ELSE Go(r, Called(r, call, TRUE)) /\ UNCHANGED file
        /\ UNCHANGED <<directory, entry, cached, deletion, crashes>>

DraftMessage(r, call) ==
    LET l == request[r].lab
        id == lab[l].next_draft_id
        item == ItemOf(r, call)
        taken == id \in DOMAIN file[FileOf(r)].tables.drafts
    IN  /\ MayCall(r)
        /\ call.tool = "draft_message"
        /\ Accepts(file[FileOf(r)].tables, call)
        /\ lab' = [lab EXCEPT ![l].next_draft_id = @ + 1]
        /\ IF MayWrite(r) /\ ~taken
           THEN /\ file' = [file EXCEPT ![entry].tables = WithDraft(@, id, item),
                                        ![entry].locked_by = None]
                /\ Go(r, [Called(r, call, FALSE) EXCEPT
                             !.created = @ \cup {[table |-> "drafts", id |-> id,
                                                  item |-> item, file |-> entry]}])
           ELSE /\ file' = IF MayWrite(r)
                           THEN [file EXCEPT ![entry].locked_by = l]
                           ELSE file
                /\ Go(r, Called(r, call, TRUE))
        /\ UNCHANGED <<directory, entry, cached, deletion, crashes>>

(* The end of a turn: what is worth it is captured, which writes to the    *)
(* memory of the user.                                                     *)
FinishTurn(r) ==
    /\ At(r, "act")
    /\ IF request[r].worthy => MemoryMayWrite(r)
       THEN Go(r, [NewRequest EXCEPT !.step = "answered",
                                     !.created = request[r].created])
       ELSE Fail(r)
    /\ UNCHANGED <<directory, entry, file, lab, cached, deletion, crashes>>
-----------------------------------------------------------------------------
(* The surroundings.                                                       *)

Unlocked(f, l) == IF f.locked_by = l THEN [f EXCEPT !.locked_by = None] ELSE f

(* A LabState that nothing refers to is collected: its connection is closed*)
(* and an unfinished transaction rolled back.                              *)
Collect(l) ==
    /\ lab[l] # NoLab
    /\ l # cached
    /\ \A r \in Request : request[r].lab # l
    /\ lab' = [lab EXCEPT ![l] = NoLab]
    /\ file' = [file EXCEPT ![lab[l].file] = Unlocked(@, l)]
    /\ UNCHANGED <<directory, entry, cached, request, deletion, crashes>>

InFlight == {r \in Request : request[r].step \in Acting \cup {"serve"}}

(* The server dies, or is stopped, and starts again with an empty cache.   *)
Restart ==
    /\ crashes < MaxCrashes
    /\ crashes' = crashes + 1
    /\ cached' = None
    /\ lab' = [l \in Request |-> NoLab]
    /\ file' = [f \in Request |->
           [file[f] EXCEPT !.locked_by = None,
                           !.torn = @ \/ \E r \in InFlight :
                                        /\ request[r].step \in DOMAIN SeedOrder
                                        /\ FileOf(r) = f]]
    /\ request' = [r \in Request |->
           IF r \in InFlight THEN [NewRequest EXCEPT !.step = "lost"] ELSE request[r]]
    /\ UNCHANGED <<directory, entry, deletion>>

ItemsIn(tables) ==
    {tables.calendar[id] : id \in DOMAIN tables.calendar \ {SeedEventId}}
        \cup {tables.drafts[id] : id \in DOMAIN tables.drafts}

Stored == IF entry = None THEN NoTables ELSE file[entry].tables

(* Mutant: success is reported although the directory is not removed.      *)
RemoveFileReported(d) ==
    /\ deletion[d].step = "new"
    /\ directory
    /\ deletion' = [deletion EXCEPT ![d] =
                       [step |-> "deleted", before |-> ItemsIn(Stored)]]
    /\ UNCHANGED <<directory, entry, file, lab, cached, request, crashes>>

(* delete_user on the command line: the process has no LabState of its own,*)
(* so it only removes the directory; first the file in it.  before is not  *)
(* in the code.                                                            *)
RemoveFile(d) ==
    /\ deletion[d].step = "new"
    /\ IF directory
       THEN /\ entry' = None
            /\ deletion' = [deletion EXCEPT ![d] =
                               [step |-> "rmdir", before |-> ItemsIn(Stored)]]
       ELSE /\ deletion' = [deletion EXCEPT ![d].step = "failed"]
            /\ UNCHANGED entry
    /\ UNCHANGED <<directory, file, lab, cached, request, crashes>>

(* The directory cannot be removed when a new file is in it, or twice.     *)
RemoveDirectory(d) ==
    /\ deletion[d].step = "rmdir"
    /\ directory' = (directory /\ entry # None)
    /\ deletion' = [deletion EXCEPT ![d].step =
                       IF directory /\ entry = None THEN "deleted" ELSE "failed"]
    /\ UNCHANGED <<entry, file, lab, cached, request, crashes>>

Next ==
    \/ \E r \in Request :
        \/ Lookup(r) \/ MakeDirectory(r) \/ OpenFails(r) \/ Open(r) \/ Seed(r)
        \/ Store(r) \/ Answer(r) \/ ReadMemory(r) \/ ChangeMemory(r)
        \/ StartTurn(r) \/ FailTurn(r) \/ FinishTurn(r)
        \/ \E call \in ToolCalls :
            \/ CallMemory(r, call) \/ LookUpPhone(r, call) \/ RefuseCall(r, call)
            \/ CreateCalendarEvent(r, call) \/ DraftMessage(r, call)
        \/ Collect(r)
    \/ \E d \in Deletion : RemoveFile(d) \/ RemoveDirectory(d)
    \/ Restart

Spec == Init /\ [][Next]_wvars
-----------------------------------------------------------------------------
(* Properties.                                                             *)

(***************************************************************************)
(* What a turn that was answered says it has created stays: a draft as long*)
(* as its file exists, however many LabStates write to the file, and a     *)
(* calendar event unless two LabStates were created side by side; their    *)
(* counters may hand out one id twice, and INSERT OR REPLACE then silently *)
(* puts the later event in the place of the earlier one.                   *)
(***************************************************************************)
Keeps(table, row) == row.id \in DOMAIN table /\ table[row.id] = row.item

ReportedItemsStay ==
    \A r \in Request :
        At(r, "answered") =>
            \A row \in request[r].created :
                LET f == file[row.file]
                IN  IF row.table = "drafts"
                    THEN Keeps(f.tables.drafts, row)
                    ELSE Keeps(f.tables.calendar, row) \/ f.shared

(***************************************************************************)
(* A user who is served has the fixtures, all of them, unless they are just*)
(* being added by another request, or the server died while it added them: *)
(* seeding is never repeated once there is a contact.                      *)
(***************************************************************************)
SeededWhenServed ==
    \A r \in Request :
        (/\ request[r].step \in {"serve", "act"}
         /\ FileOf(r) = entry
         /\ ~IsFullySeeded(file[entry].tables))
        => \/ file[entry].torn
           \/ \E other \in Request :
                 request[other].step \in DOMAIN SeedOrder /\ FileOf(other) = entry

(***************************************************************************)
(* Only the tools keep the tables consistent with each other: no foreign   *)
(* keys are declared.  Whatever was called, and wherever seeding was cut   *)
(* off, events and drafts refer to contacts and threads of their file.     *)
(***************************************************************************)
RowsReferToContacts ==
    \A f \in Request :
        LET tables == file[f].tables
        IN  /\ \A item \in ItemsIn(tables) : RequireContacts(tables, item.people)
            /\ SeedEventId \in DOMAIN tables.calendar =>
                   RequireContacts(tables, SeedEvent.people)
            /\ \A id \in DOMAIN tables.drafts :
                   tables.drafts[id].thread \in tables.threads
            /\ SeedThread \in tables.threads => SeedContact \in tables.contacts

(***************************************************************************)
(* A draft whose id is taken leaves its connection inside a transaction,   *)
(* and the lock of the file with it: the memory of the user can then not be*)
(* written, nor any turn begun, until the connection writes again or is    *)
(* closed.  That takes two LabStates created side by side; one LabState    *)
(* never locks its own user out, whatever its tools are refused.           *)
(***************************************************************************)
OnlyRivalsLockOut ==
    \A f \in Request : file[f].locked_by # None => file[f].shared

(***************************************************************************)
(* What was there when a user was deleted successfully is never back in    *)
(* the file of the user, although the server may still hold a LabState of  *)
(* the deleted file and run turns on it.                                   *)
(***************************************************************************)
DeletedStayDeleted ==
    \A d \in Deletion :
        deletion[d].step = "deleted" =>
            deletion[d].before \cap ItemsIn(Stored) = {}

(***************************************************************************)
(* The in-memory store of the tests and the database are one protocol:     *)
(* until two LabStates share the file, each step does to its tables what   *)
(* one call of the in-memory store does, through crashes and deletions.    *)
(***************************************************************************)
Phone == INSTANCE PhoneStore
             WITH Id <- 1 .. Cardinality(Request) * MaxToolCalls,
                  FixtureId <- SeedEventId, Fixture <- SeedEvent,
                  Item <- [by: Request, number: 1 .. MaxToolCalls,
                           people: SUBSET (Contact \cup {Self}), thread: Thread],
                  contacts <- Stored.contacts,
                  calendar_events <- Stored.calendar,
                  message_threads <- Stored.threads,
                  message_drafts <- Stored.drafts

IsShared == entry # None /\ file[entry].shared

ActsAsOneStore == [][IsShared \/ Phone!Next]_<<Stored>>
==============================================================================
