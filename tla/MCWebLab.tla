------------------------------ MODULE MCWebLab ------------------------------
(***************************************************************************)
(* Two requests of the event loop and one of the thread pool, one crash and*)
(* one deletion of the user; the model may ask for an event, for a draft,  *)
(* for an event without a time zone, for one with a stranger, for a lookup *)
(* and for a memory tool.                                                  *)
(***************************************************************************)
EXTENDS WebLab, TLC

CONSTANTS first, second, other, delete, alice, stranger, dinner

MCRequest == {first, second, other}
MCLoop == {first, second}
MCPool == {other}
MCDeletion == {delete}
MCContact == {alice, stranger}
MCThread == {dinner}

Meeting ==
    [tool |-> "create_calendar_event", complete |-> TRUE, ordered |-> TRUE,
     zoned |-> TRUE, people |-> {alice}, thread |-> dinner]

MCToolCalls ==
    {Meeting,
     [Meeting EXCEPT !.zoned = FALSE],
     [Meeting EXCEPT !.people = {stranger}],
     [Meeting EXCEPT !.tool = "draft_message"],
     [Meeting EXCEPT !.tool = "search_calendar"],
     [Meeting EXCEPT !.tool = "remember"]}

LoopIsSymmetric == Permutations(MCLoop)
=============================================================================
