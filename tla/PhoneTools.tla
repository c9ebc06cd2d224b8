------------------------------ MODULE PhoneTools ------------------------------
(***************************************************************************)
(* The phone tools over a database file: what PhoneToolRegistry accepts,   *)
(* what SQLitePhoneToolStore makes of it, and the fixtures of a new user.  *)
(* The tables of a file are one record, and a tool is a function of it.    *)
(*                                                                         *)
(* Abstractions.  A row says who asked for it.  The id of a created row is *)
(* its number; the id of the event that is seeded has none and counts as   *)
(* zero.  A call carries only what decides its fate: whether the required  *)
(* arguments are there, whether the event ends after it starts, whether    *)
(* its times name a time zone, whom it involves and in which thread.       *)
(***************************************************************************)
EXTENDS Integers, FiniteSets, FiniteSetsExt

CONSTANTS
    Contact,     \* ids of contacts
    Self,        \* how a call names the owner of the phone
    Thread,      \* ids of message threads
    SeedContact, SeedThread,   \* the fixtures
    Request,     \* who may ask for a row
    MaxToolCalls \* tool calls in one turn

ActionTool == {"create_calendar_event", "draft_message"}

LookupTool ==
    {"search_contacts", "get_contact", "search_calendar", "search_messages",
     "get_message_thread"}

MemoryTool ==
    {"search_memory", "build_memory_context", "remember", "explain_memory",
     "correct_memory", "delete_memory"}

ToolCall ==
    [tool: ActionTool \cup LookupTool \cup MemoryTool, complete: BOOLEAN,
     ordered: BOOLEAN, zoned: BOOLEAN, people: SUBSET (Contact \cup {Self}),
     thread: Thread]

Seeder == "seeder"

Item ==
    [by: Request \cup {Seeder}, number: 0 .. MaxToolCalls,
     people: SUBSET (Contact \cup {Self}), thread: Thread]

SeedEvent ==
    [by |-> Seeder, number |-> 0, people |-> {SeedContact}, thread |-> SeedThread]

SeedEventId == 0

(* initialize_schema: the tables of a new file.                            *)
NoTables == [contacts |-> {}, calendar |-> <<>>, threads |-> {}, drafts |-> <<>>]

IsTable(table) ==
    /\ DOMAIN table \subseteq Nat
    /\ \A id \in DOMAIN table : table[id] \in Item

TablesTypeOK(tables) ==
    /\ tables.contacts \subseteq Contact
    /\ IsTable(tables.calendar)
    /\ tables.threads \subseteq Thread
    /\ IsTable(tables.drafts)

-----------------------------------------------------------------------------
(* SQLitePhoneToolStore.                                                   *)

(* Mutant: the ids start again from one with every connection.             *)
NextNumericIdForgotten(table) == 1

(* Mutant: the last id that is taken is taken for the next one.            *)
NextNumericIdOfLast(table) == Max(DOMAIN table \cup {0})

(* _load_next_ids, which a connection calls once, when it is opened.       *)
NextNumericId(table) == Max(DOMAIN table \cup {0}) + 1

(* Mutant: the calendar is seeded before the contact it names.             *)
SeedOrderCalendarFirst ==
    [contact |-> "thread", calendar |-> "contact", thread |-> "store"]

(* seed_research_phone_state adds and commits one fixture after the other. *)
SeedOrder == [contact |-> "calendar", calendar |-> "thread", thread |-> "store"]

FirstFixture == CHOOSE part \in DOMAIN SeedOrder :
                    \A other \in DOMAIN SeedOrder : SeedOrder[other] # part

(* A table with the row of this id added or replaced.                      *)
WithRow(table, id, item) ==
    [i \in DOMAIN table \cup {id} |-> IF i = id THEN item ELSE table[i]]

(* INSERT OR REPLACE, all three.                                           *)
WithContact(tables, contact) == [tables EXCEPT !.contacts = @ \cup {contact}]

WithEvent(tables, id, item) == [tables EXCEPT !.calendar = WithRow(@, id, item)]

WithThread(tables, thread) == [tables EXCEPT !.threads = @ \cup {thread}]

(* INSERT: only for an id that is not in the table yet.                    *)
WithDraft(tables, id, item) == [tables EXCEPT !.drafts = WithRow(@, id, item)]

WithFixture(tables, part) ==
    CASE part = "contact" -> WithContact(tables, SeedContact)
      [] part = "calendar" -> WithEvent(tables, SeedEventId, SeedEvent)
      [] part = "thread" -> WithThread(tables, SeedThread)

(* Mutant: contacts that are there are taken for contacts that are missing.*)
NeedsSeedingInverted(tables) == tables.contacts # {}

(* search_contacts("") finds every contact.                                *)
NeedsSeeding(tables) == tables.contacts = {}

IsFullySeeded(tables) ==
    /\ SeedContact \in tables.contacts
    /\ SeedEventId \in DOMAIN tables.calendar
    /\ SeedThread \in tables.threads

-----------------------------------------------------------------------------
(* PhoneToolRegistry.                                                      *)

RequireContacts(tables, people) == people \ {Self} \subseteq tables.contacts

(* Mutant: the participants are taken as they come.                        *)
AcceptsEventWithAnyone(tables, call) == call.complete /\ call.ordered

AcceptsEvent(tables, call) ==
    /\ call.complete
    /\ call.ordered
    /\ RequireContacts(tables, call.people)

AcceptsDraft(tables, call) ==
    /\ call.complete
    /\ call.thread \in tables.threads
    /\ call.people # {}
    /\ RequireContacts(tables, call.people)

(* An observation becomes a memory candidate when the tool acts or fails.  *)
IsCaptureWorthy(call, failed) == failed \/ call.tool \in ActionTool
==============================================================================
