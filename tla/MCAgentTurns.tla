---------------------------- MODULE MCAgentTurns ----------------------------
(***************************************************************************)
(* Two chat requests that state the same correction, and one refresh, in a *)
(* session that has answered an earlier request without using a tool.  The *)
(* window holds one exchange.                                              *)
(***************************************************************************)
EXTENDS AgentTurns

CONSTANTS earlier, first, second, clear, tea, create_event, get_contact

MCRequest == {earlier, first, second}
MCRefresher == {clear}
MCStatement == {tea}
MCStated == [r \in MCRequest |-> IF r = earlier THEN NoStatement ELSE tea]
MCActionTool == {create_event}
MCLookupTool == {get_contact}
MCCallLists == {<<create_event, get_contact>>}
BothApplications == {"single_user", "multi_user"}

(* The state Init leads to when the earlier request is answered first.     *)
MCInit ==
    /\ application \in Applications
    /\ turn = [r \in Request |->
                  IF r = earlier
                  THEN [NewTurn EXCEPT !.step = "done", !.answer = "own turn"]
                  ELSE NewTurn]
    /\ refresh = [f \in Refresher |-> NewRefresh]
    /\ history = Exchange(earlier)
    /\ seen = {}
    /\ memories = {}
    /\ turn_snapshots = <<[request |-> earlier, index |-> 1]>>

MCSpec == MCInit /\ [][Next]_vars /\ Fairness
=============================================================================
