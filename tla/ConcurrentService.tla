-------------------------- MODULE ConcurrentService --------------------------
(***************************************************************************)
(* PersonalMemoryService called by several threads.  The web lab runs its  *)
(* synchronous routes on a thread pool over one service, so the steps of   *)
(* two calls interleave between any two accesses to the store.             *)
(*                                                                         *)
(* An operation of MemoryService is split here into the accesses it makes: *)
(* one query, one permission check, one audit record or one transaction is *)
(* one step, and what a query returned is kept in the call and used later, *)
(* however the store has changed since.  That a transaction is one step is *)
(* the subject of StoreTransactions, not of this module.  search, explain  *)
(* and build_context appear here and not in MemoryService: all they write  *)
(* is the audit log, and what matters about them is what they return.      *)
(*                                                                         *)
(* Abstractions.  Ranking returns any part of what the caller may read;    *)
(* the token budget keeps any part of that.  since is not in the code: it  *)
(* remembers the state a call began in.                                    *)
(***************************************************************************)
EXTENDS MemoryService

CONSTANTS
    Thread,      \* the threads that call the service
    Nothing,     \* the value of a part of a call that is not in use
    MaxCalls     \* calls that begin, a bound of the model

ASSUME ConcurrentServiceAssumption == MaxCalls \in Nat

VARIABLES
    call,        \* what each thread is in the middle of
    begun        \* how many calls have begun

cvars == <<vars, call, begun>>

Steps ==
    [record  |-> {"dedupe", "validate", "insert"},
     correct |-> {"check", "write"},
     delete  |-> {"check", "write"},
     search  |-> {"project", "answer"},
     context |-> {"project", "answer", "assemble"},
     explain |-> {"check", "relate"}]

Operations == DOMAIN Steps

(* The state a call began in: the rows there were, the grants there were,  *)
(* and the events its caller might not touch with the operation.           *)
Since(caller, operation) ==
    [events |-> Len(memory_events), grants |-> Len(permissions),
     barred |-> {id \in EventIds :
                    ~HoldsGrant(permissions, caller, operation,
                                memory_events[id], now)}]

(* event: the row as the call read or constructed it; left: ids still to be*)
(* checked; kept: ids that passed, and in the end those acted on or        *)
(* returned; denied: ids that did not pass; related: ids an answer cites.  *)
Idle ==
    [op |-> "none", step |-> "idle", caller |-> System, event |-> Nothing,
     selector |-> Nothing, left |-> {}, kept |-> {}, denied |-> {},
     related |-> {}, at |-> 0,
     since |-> [events |-> 0, grants |-> 0, barred |-> {}]]

CallsTypeOK ==
    /\ TypeOK
    /\ \A t \in Thread :
          LET c == call[t]
          IN  /\ \/ c.op = "none" /\ c.step = "idle"
                 \/ c.op \in Operations /\ c.step \in Steps[c.op] \cup {"return"}
              /\ c.event \in MemoryEvent \cup {Nothing}
              /\ c.left \cup c.kept \cup c.denied \subseteq EventIds
              /\ c.related \subseteq Nat
              /\ c.since.events \in 0 .. Len(memory_events)
              /\ c.since.grants \in 0 .. Len(permissions)
    /\ begun \in 0 .. MaxCalls

Opened(op, operation, caller) ==
    [Idle EXCEPT !.op = op, !.caller = caller, !.since = Since(caller, operation)]

IsIdle(t) == call[t].op = "none"

At(t, op, step) == call[t].op \in op /\ call[t].step = step

Set(t, c) == call' = [call EXCEPT ![t] = c]

Finished(t) == [call[t] EXCEPT !.step = "return"]

StoreUnchanged == UNCHANGED vars

Return(t) ==
    /\ call[t].step = "return"
    /\ Set(t, Idle)
    /\ StoreUnchanged

(* The call raises, after the denial has been audited.                     *)
Refuse(t, operation, caller, id) ==
    /\ Deny(operation, caller, id)
    /\ Set(t, Idle)

-----------------------------------------------------------------------------
(* record: a permission check, the query for duplicates, the query for     *)
(* contradictions, and the transaction.                                    *)

Inserting == {t \in Thread : call[t].op \in {"record", "correct"}}

HasRoom == Len(memory_events) + Cardinality(Inserting) < MaxEvents

RecordCheck(t, caller, candidate) ==
    LET event == Construct(candidate)
    IN  /\ IsIdle(t)
        /\ HasRoom
        /\ CanName(candidate.lineage)
        /\ \/ /\ Allowed(caller, "write", event)
              /\ Set(t, [Opened("record", "write", caller)
                            EXCEPT !.step = "dedupe", !.event = event])
              /\ StoreUnchanged
           \/ /\ ~Allowed(caller, "write", event)
              /\ Refuse(t, "write", caller, UnstoredId)

(* Mutant: what duplicates nothing is inserted without being validated.    *)
RecordDedupeAndInsert(t) ==
    LET duplicates == Duplicates(call[t].event)
    IN  /\ At(t, {"record"}, "dedupe")
        /\ \/ /\ duplicates = {}
              /\ Set(t, [call[t] EXCEPT !.step = "insert"])
              /\ StoreUnchanged
           \/ /\ duplicates # {}
              /\ Audit("write", call[t].caller, "allowed", {First(duplicates)})
              /\ Set(t, Idle)
              /\ UNCHANGED <<memory_events, permissions, tombstones,
                             relation_edges, now>>

RecordDedupe(t) ==
    LET duplicates == Duplicates(call[t].event)
    IN  /\ At(t, {"record"}, "dedupe")
        /\ \/ /\ duplicates = {}
              /\ Set(t, [call[t] EXCEPT !.step = "validate"])
              /\ StoreUnchanged
           \/ /\ duplicates # {}
              /\ Audit("write", call[t].caller, "allowed", {First(duplicates)})
              /\ Set(t, Idle)
              /\ UNCHANGED <<memory_events, permissions, tombstones,
                             relation_edges, now>>

RecordValidate(t) ==
    /\ At(t, {"record"}, "validate")
    /\ Set(t, [call[t] EXCEPT !.step = "insert",
                              !.event = QuarantineIfContradictory(@)])
    /\ StoreUnchanged

RecordInsert(t) ==
    /\ At(t, {"record"}, "insert")
    /\ memory_events' = Append(memory_events, call[t].event)
    /\ Audit("write", call[t].caller, "allowed", {Len(memory_events) + 1})
    /\ Set(t, Idle)
    /\ UNCHANGED <<permissions, tombstones, relation_edges, now>>

-----------------------------------------------------------------------------
(* correct: the lookup, the permission check, and the transaction.         *)

CorrectRead(t, caller, id) ==
    /\ IsIdle(t)
    /\ HasRoom
    /\ Set(t, [Opened("correct", "update", caller)
                  EXCEPT !.step = "check", !.left = {id},
                         !.event = memory_events[id]])
    /\ StoreUnchanged

(* A lookup that finds nothing.                                            *)
NotFound(t, operation, caller) ==
    /\ IsIdle(t)
    /\ Refuse(t, operation, caller, UnstoredId)

CorrectCheck(t) ==
    LET id == First(call[t].left)
    IN  /\ At(t, {"correct"}, "check")
        /\ \/ /\ Allowed(call[t].caller, "update", call[t].event)
              /\ Set(t, [call[t] EXCEPT !.step = "write", !.kept = {id}])
              /\ StoreUnchanged
           \/ /\ ~Allowed(call[t].caller, "update", call[t].event)
              /\ Refuse(t, "update", call[t].caller, id)

(* Mutant: the original is superseded in a transaction of its own, before  *)
(* the successor is inserted.                                              *)
CorrectWriteSupersedingFirst(t, patch) ==
    LET id == First(call[t].kept)
    IN  /\ At(t, {"correct"}, "write")
        /\ memory_events' = WithState(memory_events, {id}, "superseded")
        /\ relation_edges' = EdgesWithState({id}, "superseded")
        /\ Audit("update", call[t].caller, "allowed", {id})
        /\ Set(t, Finished(t))
        /\ UNCHANGED <<permissions, tombstones, now>>

(* update_lifecycle reads the original again; the successor is made from   *)
(* the row that was read first.                                            *)
CorrectWrite(t, patch) ==
    LET id == First(call[t].kept)
    IN  /\ At(t, {"correct"}, "write")
        /\ memory_events' =
               WithState(Append(memory_events, Corrected(call[t].event, id, patch)),
                         {id}, "superseded")
        /\ relation_edges' = EdgesWithState({id}, "superseded")
        /\ Audit("update", call[t].caller, "allowed", {id, Len(memory_events) + 1})
        /\ Set(t, Finished(t))
        /\ UNCHANGED <<permissions, tombstones, now>>

-----------------------------------------------------------------------------
(* delete.  The events are marked deleted whatever has happened to them    *)
(* since they were selected.                                               *)

DeleteQuery(t, caller, selector) ==
    /\ IsIdle(t)
    /\ Set(t, [Opened("delete", "delete", caller)
                  EXCEPT !.step = "check", !.selector = selector,
                         !.left = QueryEvents(selector)])
    /\ StoreUnchanged

(* One event of the selection is checked; after the last the call goes on  *)
(* to write.                                                               *)
DeleteCheck(t) ==
    LET id == First(call[t].left)
    IN  /\ At(t, {"delete"}, "check")
        /\ call[t].left # {}
        /\ \/ /\ Allowed(call[t].caller, "delete", memory_events[id])
              /\ Set(t, [call[t] EXCEPT !.left = @ \ {id}, !.kept = @ \cup {id}])
              /\ StoreUnchanged
           \/ /\ ~Allowed(call[t].caller, "delete", memory_events[id])
              /\ Refuse(t, "delete", call[t].caller, id)

DeleteChecked(t) ==
    /\ At(t, {"delete"}, "check")
    /\ call[t].left = {}
    /\ Set(t, [call[t] EXCEPT !.step = "write"])
    /\ StoreUnchanged

(* Mutant: events that another thread has superseded meanwhile are marked  *)
(* deleted but get no tombstone.                                           *)
DeleteWriteSparingSuperseded(t) ==
    /\ At(t, {"delete"}, "write")
    /\ memory_events' = WithState(memory_events, call[t].kept, "deleted")
    /\ relation_edges' = EdgesWithState(call[t].kept, "deleted")
    /\ tombstones' = tombstones \cup
           {[event_id |-> id, selector |-> call[t].selector] :
               id \in {i \in call[t].kept : memory_events[i].state # "superseded"}}
    /\ Audit("delete", call[t].caller, "allowed", call[t].kept)
    /\ Set(t, Finished(t))
    /\ UNCHANGED <<permissions, now>>

DeleteWrite(t) ==
    /\ At(t, {"delete"}, "write")
    /\ memory_events' = WithState(memory_events, call[t].kept, "deleted")
    /\ relation_edges' = EdgesWithState(call[t].kept, "deleted")
    /\ tombstones' = tombstones \cup
           {[event_id |-> id, selector |-> call[t].selector] : id \in call[t].kept}
    /\ Audit("delete", call[t].caller, "allowed", call[t].kept)
    /\ Set(t, Finished(t))
    /\ UNCHANGED <<permissions, now>>

-----------------------------------------------------------------------------
(* search, and build_context that searches first.  Only active events are  *)
(* looked at, and those the caller may not read are dropped before ranking.*)

SearchQuery(t, op, caller, selector) ==
    /\ IsIdle(t)
    /\ Set(t, [Opened(op, "read", caller)
                  EXCEPT !.step = "project", !.at = now,
                         !.left = QueryEvents([selector EXCEPT
                                      !.lifecycle_states = {"active"}])])
    /\ StoreUnchanged

(* Mutant: one event that may be read lets the whole selection pass.       *)
SearchProjectAll(t) ==
    LET id == First(call[t].left)
    IN  /\ At(t, {"search", "context"}, "project")
        /\ call[t].left # {}
        /\ IF CanAccess(permissions, call[t].caller, "read", memory_events[id],
                        call[t].at)
           THEN Set(t, [call[t] EXCEPT !.left = {}, !.kept = call[t].left])
           ELSE Set(t, [call[t] EXCEPT !.left = @ \ {id}, !.denied = @ \cup {id}])
        /\ StoreUnchanged

(* MemoryViewProjector.project: all events are checked for the time at     *)
(* which the projection began.                                             *)
SearchProject(t) ==
    LET id == First(call[t].left)
    IN  /\ At(t, {"search", "context"}, "project")
        /\ call[t].left # {}
        /\ IF CanAccess(permissions, call[t].caller, "read", memory_events[id],
                        call[t].at)
           THEN Set(t, [call[t] EXCEPT !.left = @ \ {id}, !.kept = @ \cup {id}])
           ELSE Set(t, [call[t] EXCEPT !.left = @ \ {id}, !.denied = @ \cup {id}])
        /\ StoreUnchanged

(* _record_denials: an audit record for each event that was dropped.       *)
SearchDeny(t) ==
    /\ At(t, {"search", "context"}, "project")
    /\ call[t].left = {}
    /\ call[t].denied # {}
    /\ Deny("read", call[t].caller, First(call[t].denied))
    /\ Set(t, [call[t] EXCEPT !.denied = @ \ {First(@)}])

SearchProjected(t) ==
    /\ At(t, {"search", "context"}, "project")
    /\ call[t].left \cup call[t].denied = {}
    /\ Set(t, [call[t] EXCEPT !.step = "answer"])
    /\ StoreUnchanged

SearchAnswer(t, selected) ==
    /\ At(t, {"search", "context"}, "answer")
    /\ selected \subseteq call[t].kept
    /\ Audit("read", call[t].caller, "allowed", selected)
    /\ Set(t, [call[t] EXCEPT
                  !.step = IF call[t].op = "context" THEN "assemble" ELSE "return",
                  !.kept = selected])
    /\ UNCHANGED <<memory_events, permissions, tombstones, relation_edges, now>>

(* The bundle cites its snippets and what they were derived from.          *)
ContextAssemble(t, snippets) ==
    LET evidence == snippets \cup
            UNION {memory_events[id].derived_from : id \in snippets}
    IN  /\ At(t, {"context"}, "assemble")
        /\ snippets \subseteq call[t].kept
        /\ Audit("context_build", call[t].caller, "allowed", evidence)
        /\ Set(t, [Finished(t) EXCEPT !.kept = snippets, !.related = evidence])
        /\ UNCHANGED <<memory_events, permissions, tombstones, relation_edges, now>>

-----------------------------------------------------------------------------
(* explain: the lookup, the check with its audit record, and the question  *)
(* which events are related, asked for the state the event was read in.    *)

ExplainRead(t, caller, id) ==
    /\ IsIdle(t)
    /\ Set(t, [Opened("explain", "read", caller)
                  EXCEPT !.step = "check", !.left = {id},
                         !.event = memory_events[id]])
    /\ StoreUnchanged

ExplainCheck(t) ==
    LET id == First(call[t].left)
    IN  /\ At(t, {"explain"}, "check")
        /\ \/ /\ Allowed(call[t].caller, "read", call[t].event)
              /\ Audit("read", call[t].caller, "allowed", {id})
              /\ Set(t, [call[t] EXCEPT !.step = "relate", !.kept = {id}])
              /\ UNCHANGED <<memory_events, permissions, tombstones,
                             relation_edges, now>>
           \/ /\ ~Allowed(call[t].caller, "read", call[t].event)
              /\ Refuse(t, "read", call[t].caller, id)

(* Mutant: the lineage of a superseded event is read in the wrong direction.*)
RelatedBackwards(event, id) ==
    CASE event.state = "quarantined" -> event.parents
      [] event.state = "deleted" -> {}
      [] OTHER -> event.supersedes

Related(event, id) ==
    CASE event.state = "quarantined" -> event.parents
      [] event.state = "superseded" -> EventsSuperseding(id)
      [] event.state = "deleted" -> {}
      [] OTHER -> event.supersedes

ExplainRelate(t) ==
    /\ At(t, {"explain"}, "relate")
    /\ Set(t, [Finished(t) EXCEPT
                  !.related = Related(call[t].event, First(call[t].kept))])
    /\ StoreUnchanged

-----------------------------------------------------------------------------

CInit ==
    /\ Init
    /\ call = [t \in Thread |-> Idle]
    /\ begun = 0

Begin(t) ==
    \E caller \in Caller :
        \/ \E candidate \in Candidates : RecordCheck(t, caller, candidate)
        \/ \E operation \in {"update", "read"} : NotFound(t, operation, caller)
        \/ \E id \in EventIds : CorrectRead(t, caller, id) \/ ExplainRead(t, caller, id)
        \/ \E selector \in Selectors :
               \/ DeleteQuery(t, caller, selector)
               \/ \E op \in {"search", "context"} : SearchQuery(t, op, caller, selector)

Continue(t) ==
    \/ RecordDedupe(t) \/ RecordValidate(t) \/ RecordInsert(t)
    \/ CorrectCheck(t)
    \/ \E patch \in Patches : CorrectWrite(t, patch)
    \/ DeleteCheck(t) \/ DeleteChecked(t) \/ DeleteWrite(t)
    \/ SearchProject(t) \/ SearchDeny(t) \/ SearchProjected(t)
    \/ \E ids \in SUBSET call[t].kept : SearchAnswer(t, ids) \/ ContextAssemble(t, ids)
    \/ ExplainCheck(t) \/ ExplainRelate(t)
    \/ Return(t)

(* What is one transaction, or no call at all, is one step here too.       *)
Atomic ==
    \/ \E caller \in Caller, scope \in Scopes, duration \in Durations :
           Grant(caller, scope, duration)
    \/ \E grant \in DOMAIN permissions : Revoke(grant)
    \/ RevokeUnknown
    \/ Tick

CNext ==
    \/ \E t \in Thread : Begin(t) /\ begun < MaxCalls /\ begun' = begun + 1
    \/ \E t \in Thread : Continue(t) /\ UNCHANGED begun
    \/ Atomic /\ UNCHANGED <<call, begun>>

CSpec == CInit /\ [][CNext]_cvars

-----------------------------------------------------------------------------
(* Properties.                                                             *)

(***************************************************************************)
(* Nobody acts beyond their rights however checks and changes interleave:  *)
(* what a call has corrected, deleted, explained or returned is nothing    *)
(* its caller was barred from when the call began, unless a grant was given*)
(* while it ran.  (A right that is withdrawn while the call runs may still *)
(* be used: the check is not repeated.)                                    *)
(***************************************************************************)
ActsWithinRights ==
    \A t \in Thread :
        (/\ call[t].step = "return"
         /\ call[t].kept \cap call[t].since.barred # {})
        => Len(permissions) > call[t].since.grants

(***************************************************************************)
(* record checks first and writes later.  An event it makes active can     *)
(* therefore duplicate or contradict another active one, but only one that *)
(* was written while the call ran: what was there when it began is always  *)
(* taken into account.                                                     *)
(***************************************************************************)
Conflict(old, new) == IsDuplicate(old, new) \/ IsContradiction(old, new)

ConflictsOverlap ==
    \A new \in Recorded :
        memory_events'[new].state = "active" =>
            \A old \in EventIds :
                (/\ memory_events[old].state = "active"
                 /\ Conflict(memory_events[old], memory_events'[new]))
                => \E t \in Thread :
                      /\ call[t].event = memory_events'[new]
                      /\ old > call[t].since.events

OnlyOverlappingRecordsConflict == [][ConflictsOverlap]_cvars

(***************************************************************************)
(* An explanation is never empty-handed: asked about an event that was     *)
(* superseded when it was looked up, explain names a correction of it, and *)
(* a correction names the event it corrects, and no other, although the    *)
(* successors are looked up later and the store has moved on.  A           *)
(* quarantined event names an earlier one it contradicts.                  *)
(***************************************************************************)
ExplanationIsGrounded ==
    \A t \in Thread :
        (call[t].op = "explain" /\ call[t].step = "return") =>
            LET id == First(call[t].kept)
                state == call[t].event.state
                related == call[t].related
            IN  /\ state = "superseded" => related \cap CorrectionsOf(id) # {}
                /\ (state = "active" /\ IsCorrection(id)) =>
                       \E old \in EventIds :
                           related = {old} /\ id \in CorrectionsOf(old)
                /\ state = "quarantined" =>
                       \E evidence \in 1 .. (id - 1) :
                           /\ related = {evidence}
                           /\ IsContradiction(memory_events[evidence],
                                               memory_events[id])
==============================================================================
