------------------------------ MODULE PhoneStore ------------------------------
(***************************************************************************)
(* What a store of mock phone state promises to the phone tools: the       *)
(* behaviour of InMemoryPhoneToolStore, the store that tests use in place  *)
(* of the database.  A fixture that is added replaces the one of the same  *)
(* id; an event or a draft that a tool creates gets an id of its own and   *)
(* replaces nothing.                                                       *)
(***************************************************************************)

CONSTANTS
    Contact,     \* ids of contacts
    Thread,      \* ids of message threads
    Id,          \* ids of calendar events and of drafts
    Item,        \* what a tool puts into an event or a draft
    FixtureId, Fixture   \* the event that is not created by a tool

VARIABLES contacts, calendar_events, message_threads, message_drafts

pvars == <<contacts, calendar_events, message_threads, message_drafts>>

Init ==
    /\ contacts = {}
    /\ calendar_events = <<>>
    /\ message_threads = {}
    /\ message_drafts = <<>>

AddContact(contact) ==
    /\ contacts' = contacts \cup {contact}
    /\ UNCHANGED <<calendar_events, message_threads, message_drafts>>

(* A dictionary with an entry written.                                     *)
WithRow(table, id, item) ==
    [i \in DOMAIN table \cup {id} |-> IF i = id THEN item ELSE table[i]]

AddCalendarEvent(id, item) ==
    /\ calendar_events' = WithRow(calendar_events, id, item)
    /\ UNCHANGED <<contacts, message_threads, message_drafts>>

AddMessageThread(thread) ==
    /\ message_threads' = message_threads \cup {thread}
    /\ UNCHANGED <<contacts, calendar_events, message_drafts>>

CreateCalendarEvent(item) ==
    \E id \in Id \ DOMAIN calendar_events : AddCalendarEvent(id, item)

DraftMessage(item) ==
    \E id \in Id \ DOMAIN message_drafts :
        /\ message_drafts' = WithRow(message_drafts, id, item)
        /\ UNCHANGED <<contacts, calendar_events, message_threads>>

(* The store is gone, and an empty one takes its place.                    *)
StartAfresh ==
    /\ contacts' = {} /\ calendar_events' = <<>>
    /\ message_threads' = {} /\ message_drafts' = <<>>

Next ==
    \/ \E contact \in Contact : AddContact(contact)
    \/ AddCalendarEvent(FixtureId, Fixture)
    \/ \E thread \in Thread : AddMessageThread(thread)
    \/ \E item \in Item : CreateCalendarEvent(item) \/ DraftMessage(item)
    \/ StartAfresh

Spec == Init /\ [][Next]_pvars
==============================================================================
