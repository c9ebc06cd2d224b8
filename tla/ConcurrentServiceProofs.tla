----------------------- MODULE ConcurrentServiceProofs -----------------------
(***************************************************************************)
(* Proofs about ConcurrentService: what holds of the service, for every    *)
(* value of its constants, when any number of threads call it and the      *)
(* steps of their calls interleave.                                        *)
(*                                                                         *)
(* The inductive invariant says two things.  About the store: what the     *)
(* lifecycle invariants of MemoryService say, which therefore do not rest  *)
(* on an operation being one step.  About a call: what it may rely on of   *)
(* what it has read, although the store has changed since.  A call changes *)
(* in its own steps and the store in the steps of all, so the proof has    *)
(* two halves: a thread's step leaves it with a call that is in order in   *)
(* the state before the step, and no step of the store disturbs a call.    *)
(***************************************************************************)
EXTENDS ConcurrentService, MemoryServiceProofs

(* The operation of the permission model a call is checked for.            *)
Right ==
    [record |-> "write", correct |-> "update", delete |-> "delete",
     search |-> "read", context |-> "read", explain |-> "read"]

Call ==
    [op: Operations \cup {"none"},
     step: {"idle", "dedupe", "validate", "insert", "check", "write", "project",
            "answer", "assemble", "relate", "return"},
     caller: Caller \cup {System}, event: MemoryEvent \cup {Nothing},
     selector: MemorySelector \cup {Nothing},
     left: SUBSET Nat, kept: SUBSET Nat, denied: SUBSET Nat, related: SUBSET Nat,
     at: Nat, since: [events: Nat, grants: Nat, barred: SUBSET Nat]]

(* A call is at a step of its operation.                                   *)
InOrder(c) ==
    \/ c.op = "none" /\ c.step = "idle"
    \/ /\ c.op \in Operations
       /\ c.step \in Steps[c.op] \cup {"return"}
       /\ c.caller \in Caller

(* All events a call works on are stored, and it began in the past.  What  *)
(* it is answered, c.related, may name others: lineages are the callers'.  *)
RefersToStored(c) ==
    /\ c.left \cup c.kept \cup c.denied \cup c.since.barred \subseteq EventIds
    /\ c.since.events <= Len(memory_events)
    /\ c.since.grants <= Len(permissions)

(* The event a record is going to insert.                                  *)
HoldsCandidate(c) ==
    c.op = "record" =>
        /\ c.event \in MemoryEvent
        /\ \/ c.event.state = "active"
           \/ /\ c.event.state = "quarantined"
              /\ c.step \notin {"dedupe", "validate"}
              /\ \E evidence \in EventIds :
                    /\ c.event.parents = {evidence}
                    /\ IsContradiction(memory_events[evidence], c.event)

(* The row a correction or an explanation has read differs from the stored *)
(* one in its state at most, and what its state says of others stays true. *)
SameRow(event, other) == event = [other EXCEPT !.state = event.state]

HasEvidence(event, id) ==
    \E evidence \in 1 .. (id - 1) :
        /\ event.parents = {evidence}
        /\ IsContradiction(memory_events[evidence], memory_events[id])

HoldsRow(c) ==
    c.op \in {"correct", "explain"} =>
        \E id \in EventIds :
            /\ IF c.step = "check" THEN c.left = {id} ELSE c.kept = {id}
            /\ c.event \in MemoryEvent
            /\ SameRow(c.event, memory_events[id])
            /\ c.event.state = "superseded" => CorrectionsOf(id) # {}
            /\ c.event.state = "quarantined" => HasEvidence(c.event, id)

HoldsSelector(c) == c.op = "delete" => c.selector \in MemorySelector

(* A record has taken account of the active events that were there when it *)
(* began.                                                                  *)
HasConsidered(c) ==
    c.op = "record" =>
        \A old \in EventIds :
            (old <= c.since.events /\ memory_events[old].state = "active") =>
                /\ c.step \in {"validate", "insert"} =>
                       ~IsDuplicate(memory_events[old], c.event)
                /\ (c.step = "insert" /\ c.event.state = "active") =>
                       ~IsContradiction(memory_events[old], c.event)

(* As long as nothing is granted, what the caller was barred from when the *)
(* call began stays barred, and nothing of it has passed the check.        *)
WithinRights(c) ==
    (c.op # "none" /\ Len(permissions) = c.since.grants) =>
        /\ c.kept \cap c.since.barred = {}
        /\ \A id \in c.since.barred :
              /\ ~HoldsGrant(permissions, c.caller, Right[c.op],
                             memory_events[id], now)
              /\ c.op \in {"search", "context"} =>
                     ~HoldsGrant(permissions, c.caller, "read",
                                 memory_events[id], c.at)

(* The answer of explain names a correction of an event read as superseded *)
(* and is otherwise what the lineage of the row it read says.              *)
IsGrounded(c) ==
    (c.op = "explain" /\ c.step = "return") =>
        /\ c.event.state = "superseded" => c.related \cap CorrectionsOf(First(c.kept)) # {}
        /\ c.event.state = "active" => c.related = c.event.supersedes
        /\ c.event.state = "quarantined" => c.related = c.event.parents

CallOK(c) ==
    /\ c \in Call
    /\ InOrder(c)
    /\ RefersToStored(c)
    /\ HoldsCandidate(c)
    /\ HoldsRow(c)
    /\ HoldsSelector(c)
    /\ HasConsidered(c)
    /\ WithinRights(c)
    /\ IsGrounded(c)

(* No grant is of the future.                                              *)
GrantsArePast == \A g \in DOMAIN permissions : permissions[g].granted_at <= now

StoreOK ==
    /\ TypeOK
    /\ UpdatesNameEvents
    /\ SupersessionIsLinked
    /\ DeletionIsRepresented
    /\ QuarantineHasEvidence
    /\ ChangesAreAudited
    /\ GrantsArePast

(* The inductive invariant.                                                *)
ServiceInvariant ==
    /\ StoreOK
    /\ call \in [Thread -> Call]
    /\ \A t \in Thread : CallOK(call[t])
    /\ begun \in 0 .. MaxCalls

-----------------------------------------------------------------------------
(* The store's half: what every step leaves of what was read before.       *)

(* As long as nothing is granted, rights are only lost: to a revocation, or*)
(* to the end of a grant's time.                                           *)
RightsShrink ==
    Len(permissions') = Len(permissions) =>
        \A caller, operation, event :
            /\ HoldsGrant(permissions', caller, operation, event, now') =>
                   HoldsGrant(permissions, caller, operation, event, now)
            /\ \A at : HoldsGrant(permissions', caller, operation, event, at) =>
                           HoldsGrant(permissions, caller, operation, event, at)

StoreGrows ==
    /\ KeepsHistory
    /\ \A id \in EventIds' : id \in EventIds \/ id > Len(memory_events)
    /\ Len(memory_events) <= Len(memory_events')
    /\ Len(permissions) <= Len(permissions')
    /\ RightsShrink

PermissionStep ==
    \/ UNCHANGED <<permissions, now>>
    \/ \E grant \in DOMAIN permissions : Revoke(grant)
    \/ \E caller \in Caller, scope \in Scopes, duration \in Durations :
           Grant(caller, scope, duration)
    \/ Tick

(* The clock and the grants.                                               *)
LEMMA RightsOnlyShrink ==
    ASSUME TypeOK, GrantsArePast, PermissionStep
    PROVE  RightsShrink /\ GrantsArePast' /\ Len(permissions) <= Len(permissions')
<1>1. /\ Len(permissions) \in Nat /\ DOMAIN permissions = 1 .. Len(permissions)
      /\ \A g \in DOMAIN permissions : permissions[g] \in PermissionGrant
      /\ permissions \in Seq(PermissionGrant) /\ now \in Nat
  BY ElementOfSeq, LenProperties DEF TypeOK
<1>2. CASE UNCHANGED <<permissions, now>>
  BY <1>1, <1>2 DEF RightsShrink, GrantsArePast
<1>3. ASSUME NEW grant \in DOMAIN permissions, Revoke(grant)
      PROVE  RightsShrink /\ GrantsArePast' /\ Len(permissions) <= Len(permissions')
  <2>1. /\ DOMAIN permissions' = DOMAIN permissions
        /\ now' = now
        /\ \A g \in DOMAIN permissions :
              /\ permissions'[g].caller = permissions[g].caller
              /\ permissions'[g].scope = permissions[g].scope
              /\ permissions'[g].granted_at = permissions[g].granted_at
              /\ permissions'[g].expires_at = permissions[g].expires_at
              /\ permissions[g].revoked => permissions'[g].revoked
    BY <1>1, <1>3 DEF Revoke, PermissionGrant
  <2>2. Len(permissions') = Len(permissions)
    <3>1. [permissions[grant] EXCEPT !.revoked = TRUE] \in PermissionGrant
      BY <1>1 DEF PermissionGrant
    <3>2. permissions' \in [1 .. Len(permissions) -> PermissionGrant]
      BY <1>1, <1>3, <3>1 DEF Revoke
    <3>3. QED
      BY <1>1, <3>2, SeqDef, LenProperties
  <2>3. RightsShrink
    BY <2>1 DEF RightsShrink, HoldsGrant, IsActive
  <2>4. GrantsArePast'
    BY <2>1 DEF GrantsArePast
  <2>5. QED
    BY <1>1, <2>2, <2>3, <2>4
<1>4. ASSUME NEW caller \in Caller, NEW scope \in Scopes, NEW duration \in Durations,
             Grant(caller, scope, duration)
      PROVE  RightsShrink /\ GrantsArePast' /\ Len(permissions) <= Len(permissions')
  <2>1. PICK grant : permissions' = Append(permissions, grant)
                     /\ grant.granted_at = now
    BY <1>4 DEF Grant
  <2>2. /\ Len(permissions') = Len(permissions) + 1
        /\ DOMAIN permissions' = 1 .. Len(permissions) + 1
        /\ \A g \in DOMAIN permissions : permissions'[g] = permissions[g]
        /\ permissions'[Len(permissions) + 1] = grant
    BY <1>1, <2>1
  <2>3. GrantsArePast'
    BY <1>1, <1>4, <2>1, <2>2 DEF GrantsArePast, Grant
  <2>4. /\ Len(permissions') # Len(permissions)
        /\ Len(permissions) <= Len(permissions')
    <3>1. Len(permissions) \in Nat /\ Len(permissions') = Len(permissions) + 1
      BY <1>1, <2>2
    <3>2. QED
      BY <3>1
  <2>5. RightsShrink
    BY <2>4, Zenon DEF RightsShrink
  <2>6. QED
    BY <2>3, <2>4, <2>5
<1>5. CASE Tick
  <2>1. permissions' = permissions /\ now' = now + 1
    BY <1>5 DEF Tick
  <2>2. \A g \in DOMAIN permissions :
            /\ IsActive(permissions[g], now + 1) => IsActive(permissions[g], now)
            /\ permissions[g].granted_at <= now + 1
    BY <1>1 DEF GrantsArePast, IsActive, PermissionGrant
  <2>3. RightsShrink
    BY <2>1, <2>2 DEF RightsShrink, HoldsGrant
  <2>4. GrantsArePast'
    BY <2>1, <2>2 DEF GrantsArePast
  <2>5. QED
    BY <1>1, <2>1, <2>3, <2>4
<1>6. QED
  BY <1>2, <1>3, <1>4, <1>5 DEF PermissionStep

(* What a row whose state is written keeps.                                *)
SameButState(row, other) ==
    /\ SameParts(row, other)
    /\ row.privacy_level = other.privacy_level
    /\ row.valid_at = other.valid_at

LEMMA StateIsAPart ==
    ASSUME NEW row \in MemoryEvent, NEW state
    PROVE  SameButState([row EXCEPT !.state = state], row)
BY StateAlone DEF SameButState, MemoryEvent

(* Of two writes of a state to a row the second counts.                    *)
LEMMA StateTwice ==
    ASSUME NEW row \in MemoryEvent, NEW first, NEW second
    PROVE  [[row EXCEPT !.state = first] EXCEPT !.state = second] =
               [row EXCEPT !.state = second]
BY DEF MemoryEvent

(* A store that grows disturbs no call.                                    *)
LEMMA CallsAreUndisturbed ==
    ASSUME StoreOK, TypeOK', StoreGrows, NEW c, CallOK(c)
    PROVE  CallOK(c)'
<1>0. /\ EventIds = 1 .. Len(memory_events) /\ Len(memory_events) \in Nat
      /\ Len(permissions) \in Nat
      /\ \A id \in EventIds : memory_events[id] \in MemoryEvent
  BY ElementOfSeq, LenProperties DEF StoreOK, TypeOK, EventIds
<1>1. /\ EventIds \subseteq EventIds'
      /\ \A id \in EventIds :
            /\ memory_events[id] \in MemoryEvent
            /\ memory_events'[id] =
                   [memory_events[id] EXCEPT !.state = memory_events'[id].state]
            /\ memory_events'[id].state = "active" => memory_events[id].state = "active"
  BY <1>0 DEF StoreGrows, KeepsHistory, MayBecome, EventIds
<1>2. \A id \in EventIds :
          /\ memory_events'[id].text = memory_events[id].text
          /\ memory_events'[id].source_app = memory_events[id].source_app
          /\ memory_events'[id].memory_layer = memory_events[id].memory_layer
          /\ memory_events'[id].entities = memory_events[id].entities
          /\ memory_events'[id].privacy_level = memory_events[id].privacy_level
          /\ memory_events'[id].valid_at = memory_events[id].valid_at
          /\ memory_events'[id].supersedes = memory_events[id].supersedes
  <2>1. \A id \in EventIds : SameButState(memory_events'[id], memory_events[id])
    <3>1. \A id \in EventIds :
              SameButState([memory_events[id] EXCEPT !.state = memory_events'[id].state],
                           memory_events[id])
      BY <1>0, StateIsAPart
    <3>2. QED
      BY <1>1, <3>1
  <2>2. QED
    BY <2>1 DEF SameButState, SameParts
<1>3. c \in Call /\ InOrder(c) /\ InOrder(c)'
  BY DEF CallOK, InOrder
<1>4. RefersToStored(c)'
  <2>1. /\ c.since.events \in Nat /\ c.since.grants \in Nat
    BY <1>3 DEF Call
  <2>2. /\ Len(memory_events) <= Len(memory_events')
        /\ Len(permissions) <= Len(permissions')
    BY DEF StoreGrows
  <2>3. Len(memory_events') \in Nat /\ Len(permissions') \in Nat
    BY LenProperties DEF TypeOK
  <2>4. /\ c.since.events <= Len(memory_events)
        /\ c.since.grants <= Len(permissions)
        /\ c.left \cup c.kept \cup c.denied \cup c.since.barred \subseteq EventIds
    BY DEF CallOK, RefersToStored
  <2>5. QED
    BY <1>0, <1>1, <2>1, <2>2, <2>3, <2>4 DEF RefersToStored
<1>5. HoldsCandidate(c)'
  <2> SUFFICES ASSUME c.op = "record" PROVE HoldsCandidate(c)'
    BY DEF HoldsCandidate
  <2>1. c.event \in MemoryEvent
    BY DEF CallOK, HoldsCandidate
  <2>2. CASE c.event.state = "active"
    BY <2>1, <2>2 DEF HoldsCandidate
  <2>3. CASE c.event.state # "active"
    <3>1. PICK evidence \in EventIds :
              /\ c.event.parents = {evidence}
              /\ IsContradiction(memory_events[evidence], c.event)
      BY <2>3 DEF CallOK, HoldsCandidate
    <3>2. IsContradiction(memory_events'[evidence], c.event)
      BY <1>2, <3>1 DEF IsContradiction
    <3>3. c.event.state = "quarantined" /\ c.step \notin {"dedupe", "validate"}
      BY <2>3 DEF CallOK, HoldsCandidate
    <3>4. evidence \in EventIds'
      BY <1>1
    <3>5. QED
      BY <2>1, <3>1, <3>2, <3>3, <3>4 DEF HoldsCandidate, IsContradiction
  <2>4. QED
    BY <2>2, <2>3
<1>5a. \A id : CorrectionsOf(id) \subseteq CorrectionsOf(id)'
  BY <1>1, CorrectionStays DEF StoreGrows, KeepsHistory
<1>6. HoldsRow(c)'
  <2> SUFFICES ASSUME c.op \in {"correct", "explain"}
               PROVE  \E id \in EventIds' :
                          /\ IF c.step = "check" THEN c.left = {id} ELSE c.kept = {id}
                          /\ c.event \in MemoryEvent
                          /\ SameRow(c.event, memory_events'[id])
                          /\ c.event.state = "superseded" => CorrectionsOf(id)' # {}
                          /\ c.event.state = "quarantined" => HasEvidence(c.event, id)'
    BY DEF HoldsRow, SameRow
  <2>1. PICK id \in EventIds :
            /\ IF c.step = "check" THEN c.left = {id} ELSE c.kept = {id}
            /\ c.event \in MemoryEvent
            /\ SameRow(c.event, memory_events[id])
            /\ c.event.state = "superseded" => CorrectionsOf(id) # {}
            /\ c.event.state = "quarantined" => HasEvidence(c.event, id)
    BY DEF CallOK, HoldsRow
  <2>2. SameRow(c.event, memory_events'[id])
    <3>1. /\ memory_events[id] \in MemoryEvent
          /\ memory_events'[id] =
                 [memory_events[id] EXCEPT !.state = memory_events'[id].state]
          /\ c.event = [memory_events[id] EXCEPT !.state = c.event.state]
      BY <1>1, <2>1 DEF SameRow
    <3>2. [[memory_events[id] EXCEPT !.state = memory_events'[id].state]
               EXCEPT !.state = c.event.state] =
              [memory_events[id] EXCEPT !.state = c.event.state]
      BY <3>1, StateTwice
    <3>3. QED
      BY <3>1, <3>2 DEF SameRow
  <2>3. c.event.state = "superseded" => CorrectionsOf(id)' # {}
    BY <1>1, <1>5a, <2>1
  <2>4. c.event.state = "quarantined" => HasEvidence(c.event, id)'
    <3>1. \A evidence \in 1 .. (id - 1) : evidence \in EventIds
      BY <1>0
    <3>2. \A evidence \in EventIds :
              IsContradiction(memory_events'[evidence], memory_events'[id])
                  <=> IsContradiction(memory_events[evidence], memory_events[id])
      BY <1>2 DEF IsContradiction
    <3>3. HasEvidence(c.event, id) =>
              \E evidence \in 1 .. (id - 1) :
                  /\ c.event.parents = {evidence}
                  /\ IsContradiction(memory_events'[evidence], memory_events'[id])
      BY <3>1, <3>2 DEF HasEvidence
    <3>4. QED
      BY <2>1, <3>3 DEF HasEvidence, IsContradiction
  <2>5. QED
    BY <1>1, <2>1, <2>2, <2>3, <2>4
<1>7. HoldsSelector(c)'
  BY DEF CallOK, HoldsSelector
<1>8. HasConsidered(c)'
  <2> SUFFICES ASSUME c.op = "record", NEW old \in EventIds',
                      old <= c.since.events, memory_events'[old].state = "active"
               PROVE  /\ c.step \in {"validate", "insert"} =>
                             ~IsDuplicate(memory_events'[old], c.event)
                      /\ (c.step = "insert" /\ c.event.state = "active") =>
                             ~IsContradiction(memory_events'[old], c.event)
    BY DEF HasConsidered, IsDuplicate, IsContradiction
  <2>1. old \in EventIds
    <3>1. c.since.events \in Nat /\ c.since.events <= Len(memory_events)
      BY <1>3 DEF CallOK, Call, RefersToStored
    <3>2. old \in Nat
      BY LenProperties DEF TypeOK, EventIds
    <3>3. old \in EventIds \/ old > Len(memory_events)
      BY DEF StoreGrows
    <3>4. QED
      BY <1>0, <3>1, <3>2, <3>3
  <2>2. memory_events[old].state = "active"
    BY <1>1, <2>1
  <2>3. QED
    BY <1>2, <2>1, <2>2 DEF CallOK, HasConsidered, IsDuplicate, IsContradiction
<1>9. WithinRights(c)'
  <2> SUFFICES ASSUME c.op # "none", Len(permissions') = c.since.grants
               PROVE  /\ c.kept \cap c.since.barred = {}
                      /\ \A id \in c.since.barred :
                            /\ ~HoldsGrant(permissions', c.caller, Right[c.op],
                                           memory_events'[id], now')
                            /\ c.op \in {"search", "context"} =>
                                   ~HoldsGrant(permissions', c.caller, "read",
                                               memory_events'[id], c.at)
    BY DEF WithinRights, HoldsGrant, Matches, IsActive, Right
  <2>1. Len(permissions') = Len(permissions) /\ Len(permissions) = c.since.grants
    <3>1. c.since.grants \in Nat /\ c.since.grants <= Len(permissions)
          /\ Len(permissions) <= Len(permissions')
      BY <1>3 DEF CallOK, Call, RefersToStored, StoreGrows
    <3>2. Len(permissions') \in Nat
      BY LenProperties DEF TypeOK
    <3>3. QED
      BY <1>0, <3>1, <3>2
  <2>2. \A caller, operation, event :
            /\ HoldsGrant(permissions', caller, operation, event, now') =>
                   HoldsGrant(permissions, caller, operation, event, now)
            /\ HoldsGrant(permissions', caller, operation, event, c.at) =>
                   HoldsGrant(permissions, caller, operation, event, c.at)
    BY <2>1 DEF StoreGrows, RightsShrink
  <2>3. \A id \in c.since.barred : id \in EventIds
    BY DEF CallOK, RefersToStored
  <2>4. \A id \in EventIds : \A caller, operation, at :
            HoldsGrant(permissions, caller, operation, memory_events'[id], at) =>
                HoldsGrant(permissions, caller, operation, memory_events[id], at)
    BY <1>2 DEF HoldsGrant, Matches
  <2>5. /\ c.kept \cap c.since.barred = {}
        /\ \A id \in c.since.barred :
              /\ ~HoldsGrant(permissions, c.caller, Right[c.op],
                             memory_events[id], now)
              /\ c.op \in {"search", "context"} =>
                     ~HoldsGrant(permissions, c.caller, "read",
                                 memory_events[id], c.at)
    BY <2>1 DEF CallOK, WithinRights
  <2>6. QED
    BY <2>2, <2>3, <2>4, <2>5
<1>10. IsGrounded(c)'
  <2> DEFINE id == First(c.kept)
  <2>1. (c.op = "explain" /\ c.step = "return") =>
            /\ c.event.state = "superseded" => c.related \cap CorrectionsOf(id) # {}
            /\ c.event.state = "active" => c.related = c.event.supersedes
            /\ c.event.state = "quarantined" => c.related = c.event.parents
    BY DEF CallOK, IsGrounded
  <2>2. c.related \cap CorrectionsOf(id) # {} => c.related \cap CorrectionsOf(id)' # {}
    BY <1>5a
  <2>3. QED
    BY <2>1, <2>2 DEF IsGrounded, First
<1>11. QED
  BY <1>3, <1>4, <1>5, <1>6, <1>7, <1>8, <1>9, <1>10 DEF CallOK

(* The transaction of record.                                              *)
LEMMA InsertStep ==
    ASSUME StoreOK, NEW c, CallOK(c), c.op = "record", c.step = "insert",
           memory_events' = Append(memory_events, c.event),
           Audit("write", c.caller, "allowed", {Len(memory_events) + 1}),
           UNCHANGED <<permissions, tombstones, relation_edges, now>>
    PROVE  StoreOK' /\ StoreGrows
<1>0. PICK new : new = Len(memory_events) + 1
  OBVIOUS
<1>1. /\ TypeOK /\ c.caller \in Caller
      /\ c.event \in MemoryEvent
      /\ c.event.state \in {"active", "quarantined"}
      /\ c.event.state = "quarantined" =>
             \E evidence \in EventIds :
                 /\ c.event.parents = {evidence}
                 /\ IsContradiction(memory_events[evidence], c.event)
  BY DEF StoreOK, CallOK, HoldsCandidate, InOrder
<1>2. RowsAfterRecord(new, c.event)
  BY <1>0, <1>1, AppendRows
<1>3. TypeOK'
  <2>1. memory_events \in Seq(MemoryEvent) /\ Len(memory_events) \in Nat
    BY <1>1, LenProperties DEF TypeOK
  <2>2. memory_events' \in Seq(MemoryEvent)
    BY <1>1, <2>1, AppendedRows
  <2>3. audit_log' \subseteq AuditRecord
    BY <1>1, <2>1, AuditedType DEF TypeOK, AuditOperation
  <2>4. QED
    BY <1>1, <2>2, <2>3 DEF TypeOK
<1>4. UpdatesNameEvents' /\ SupersessionIsLinked' /\ DeletionIsRepresented'
  <2>1. UpdatesKept
    BY OtherAudit
  <2>2. UpdatesNameEvents' /\ SupersessionIsLinked'
    BY <1>1, <1>2, <2>1, InsertKeepsLinks DEF StoreOK
  <2>3. DeletionIsRepresented'
    <3>1. c.event.state # "deleted"
      BY <1>1
    <3>2. QED
      BY <1>2, <3>1, InsertKeepsTombstones DEF StoreOK
  <2>4. QED
    BY <2>2, <2>3
<1>5. QuarantineHasEvidence' /\ ChangesAreAudited'
  <2>1. QuarantineHasEvidence'
    BY <1>0, <1>1, <1>2, InsertKeepsEvidence DEF StoreOK
  <2>2. ChangesAreAudited'
    BY <1>0, <1>2, InsertKeepsAudited DEF StoreOK
  <2>3. QED
    BY <2>1, <2>2
<1>6. RightsShrink /\ GrantsArePast' /\ Len(permissions) <= Len(permissions')
  BY <1>1, RightsOnlyShrink DEF StoreOK, PermissionStep
<1>7. StoreGrows
  <2>1. KeepsHistory
    BY <1>1, <1>2, InsertKeepsHistory DEF Audit
  <2>2. Len(memory_events) \in Nat /\ Len(memory_events') = Len(memory_events) + 1
    BY <1>1, AppendProperties, LenProperties DEF TypeOK
  <2>3. \A id \in EventIds' : id \in EventIds \/ id > Len(memory_events)
    BY <1>0, <1>2, <2>2 DEF RowsAfterRecord
  <2>4. QED
    BY <1>6, <2>1, <2>2, <2>3 DEF StoreGrows
<1>8. QED
  BY <1>3, <1>4, <1>5, <1>6, <1>7 DEF StoreOK

(* The transaction of correct.                                             *)
LEMMA SupersedeStep ==
    ASSUME StoreOK, NEW c, CallOK(c), NEW id \in EventIds, NEW patch \in Patches,
           c.op = "correct", c.event \in MemoryEvent,
           memory_events' =
               WithState(Append(memory_events, Corrected(c.event, id, patch)),
                         {id}, "superseded"),
           relation_edges' = EdgesWithState({id}, "superseded"),
           Audit("update", c.caller, "allowed", {id, Len(memory_events) + 1}),
           UNCHANGED <<permissions, tombstones, now>>
    PROVE  StoreOK' /\ StoreGrows
<1>0. PICK new : new = Len(memory_events) + 1
  OBVIOUS
<1>1. /\ TypeOK /\ c.caller \in Caller
      /\ memory_events \in Seq(MemoryEvent) /\ Len(memory_events) \in Nat
      /\ id \in Nat
  BY LenProperties DEF StoreOK, CallOK, InOrder, TypeOK, EventIds
<1>2. RowsAfterCorrect(id, new)
  BY <1>0, <1>1, SupersedeRows
<1> DEFINE successor == Corrected(c.event, id, patch)
<1> DEFINE appended == Append(memory_events, successor)
<1>3. /\ appended \in Seq(MemoryEvent)
      /\ Len(appended) = Len(memory_events) + 1
  <2>1. successor \in MemoryEvent
    BY <1>1, CorrectedEvent
  <2> HIDE DEF successor
  <2>2. QED
    BY <1>1, <2>1, AppendProperties
<1>4. /\ memory_events' \in Seq(MemoryEvent)
      /\ Len(memory_events') = Len(memory_events) + 1
  <2> HIDE DEF appended
  <2>1. "superseded" \in LifecycleState
    BY DEF LifecycleState
  <2>2. memory_events' = WithState(appended, {id}, "superseded")
    BY DEF appended
  <2>3. QED
    BY <1>3, <2>1, <2>2, WithStateRows
<1>5. TypeOK'
  <2>1. relation_edges' \in [DOMAIN relation_edges' -> LifecycleState]
    BY <1>1, EdgesWithStateType DEF TypeOK, LifecycleState
  <2>2. audit_log' \subseteq AuditRecord
    BY <1>1, AuditedType DEF TypeOK, AuditOperation
  <2>3. QED
    BY <1>1, <1>4, <2>1, <2>2 DEF TypeOK
<1> HIDE DEF appended, successor
<1>6. UpdatesNameEvents' /\ SupersessionIsLinked' /\ DeletionIsRepresented'
  <2>1. UpdateAdded(id, new)
    BY <1>0, UpdateAudit
  <2>2. QED
    BY <1>1, <1>2, <2>1, SupersedeKeepsLinks, SupersedeKeepsTombstones DEF StoreOK
<1>7. QuarantineHasEvidence' /\ ChangesAreAudited'
  <2>1. QuarantineHasEvidence'
    BY <1>1, <1>2, SupersedeKeepsEvidence DEF StoreOK
  <2>2. ChangesAreAudited'
    BY <1>0, <1>2, SupersedeKeepsAudited DEF StoreOK
  <2>3. QED
    BY <2>1, <2>2
<1>8. RightsShrink /\ GrantsArePast' /\ Len(permissions) <= Len(permissions')
  BY <1>1, RightsOnlyShrink DEF StoreOK, PermissionStep
<1>9. StoreGrows
  <2>1. KeepsHistory
    BY <1>1, <1>2, SupersedeKeepsHistory DEF Audit
  <2>2. \A i \in EventIds' : i \in EventIds \/ i > Len(memory_events)
    BY <1>0, <1>1, <1>2 DEF RowsAfterCorrect
  <2>3. QED
    BY <1>1, <1>4, <1>8, <2>1, <2>2 DEF StoreGrows
<1>10. QED
  BY <1>5, <1>6, <1>7, <1>8, <1>9 DEF StoreOK

(* The transaction of delete.                                              *)
LEMMA DeleteStep ==
    ASSUME StoreOK, NEW c, CallOK(c), c.op = "delete",
           memory_events' = WithState(memory_events, c.kept, "deleted"),
           relation_edges' = EdgesWithState(c.kept, "deleted"),
           tombstones' = tombstones \cup
               {[event_id |-> id, selector |-> c.selector] : id \in c.kept},
           Audit("delete", c.caller, "allowed", c.kept),
           UNCHANGED <<permissions, now>>
    PROVE  StoreOK' /\ StoreGrows
<1>1. /\ TypeOK /\ c.caller \in Caller /\ c.selector \in MemorySelector
      /\ c.kept \in SUBSET EventIds
      /\ memory_events \in Seq(MemoryEvent) /\ Len(memory_events) \in Nat
      /\ EventIds \subseteq Nat
  BY LenProperties
  DEF StoreOK, CallOK, InOrder, HoldsSelector, RefersToStored, TypeOK, EventIds
<1>2. RowsAfterDelete(c.kept)
  BY <1>1, DeletedRows
<1>3. /\ memory_events' \in Seq(MemoryEvent)
      /\ Len(memory_events') = Len(memory_events)
  BY <1>1, WithStateRows DEF LifecycleState
<1>4. TypeOK'
  <2>1. relation_edges' \in [DOMAIN relation_edges' -> LifecycleState]
    BY <1>1, EdgesWithStateType DEF TypeOK, LifecycleState
  <2>2. audit_log' \subseteq AuditRecord
    BY <1>1, AuditedType DEF TypeOK, AuditOperation
  <2>3. tombstones' \subseteq [event_id: Nat, selector: MemorySelector]
    <3>1. \A id \in c.kept :
              [event_id |-> id, selector |-> c.selector]
                  \in [event_id: Nat, selector: MemorySelector]
      BY <1>1
    <3>2. QED
      BY <1>1, <3>1 DEF TypeOK
  <2>4. QED
    BY <1>1, <1>3, <2>1, <2>2, <2>3 DEF TypeOK
<1>5. UpdatesNameEvents' /\ SupersessionIsLinked' /\ DeletionIsRepresented'
  <2>1. UpdatesNameEvents' /\ SupersessionIsLinked'
    BY <1>2, OtherAudit, DeleteKeepsLinks DEF StoreOK
  <2>2. DeletionIsRepresented'
    BY <1>2, DeleteKeepsTombstones DEF StoreOK
  <2>3. QED
    BY <2>1, <2>2
<1>6. QuarantineHasEvidence' /\ ChangesAreAudited'
  <2>1. QuarantineHasEvidence'
    BY <1>1, <1>2, DeleteKeepsEvidence DEF StoreOK
  <2>2. ChangesAreAudited'
    BY <1>2, DeleteKeepsAudited DEF StoreOK
  <2>3. QED
    BY <2>1, <2>2
<1>7. RightsShrink /\ GrantsArePast' /\ Len(permissions) <= Len(permissions')
  BY <1>1, RightsOnlyShrink DEF StoreOK, PermissionStep
<1>8. StoreGrows
  <2>1. KeepsHistory
    BY <1>1, <1>2, DeleteKeepsHistory DEF Audit
  <2>2. EventIds' = EventIds
    BY <1>2 DEF RowsAfterDelete
  <2>3. QED
    BY <1>1, <1>3, <1>7, <2>1, <2>2 DEF StoreGrows
<1>9. QED
  BY <1>4, <1>5, <1>6, <1>7, <1>8 DEF StoreOK

(* A step that leaves the rows and the tombstones as they are.             *)
LEMMA QuietStoreStep ==
    ASSUME StoreOK, QuietStep, TypeOK', PermissionStep
    PROVE  StoreOK' /\ StoreGrows
<1>1. /\ TypeOK /\ Len(memory_events) \in Nat
      /\ memory_events' = memory_events /\ tombstones' = tombstones
      /\ audit_log \subseteq audit_log'
  BY LenProperties DEF StoreOK, TypeOK, QuietStep
<1>2. UpdatesNameEvents' /\ SupersessionIsLinked' /\ DeletionIsRepresented'
  <2>1. EventIds \subseteq Nat
    BY <1>1, LenProperties DEF TypeOK, EventIds
  <2>2. UpdatesNameEvents' /\ SupersessionIsLinked'
    BY <2>1, QuietKeepsLinks DEF StoreOK
  <2>3. DeletionIsRepresented'
    BY <1>1 DEF StoreOK, DeletionIsRepresented, Tombstoned, EventIds
  <2>4. QED
    BY <2>2, <2>3
<1>3. QuarantineHasEvidence'
  BY <1>1 DEF StoreOK, QuarantineHasEvidence, IsContradiction, EventIds
<1>4. ChangesAreAudited'
  <2>1. EventIds' = EventIds /\ Tombstoned' = Tombstoned
    BY <1>1 DEF EventIds, Tombstoned
  <2>2. ChangesAreAudited
    BY DEF StoreOK
  <2>3. \A i \in Tombstoned : AllowedRecord("delete", {i})'
    BY <1>1, <2>2, AllowedStays DEF ChangesAreAudited
  <2>4. QED
    BY <1>1, <2>1, <2>2, <2>3, RowStaysAudited DEF ChangesAreAudited
<1>5. RightsShrink /\ GrantsArePast' /\ Len(permissions) <= Len(permissions')
  BY <1>1, RightsOnlyShrink DEF StoreOK
<1>6. KeepsHistory
  BY <1>1, QuietKeepsHistory
<1>7. StoreGrows
  BY <1>1, <1>5, <1>6 DEF StoreGrows, EventIds
<1>8. QED
  BY <1>2, <1>3, <1>4, <1>5, <1>7 DEF StoreOK

(* A step that does nothing but write an audit record, though not that of  *)
(* a correction, or nothing at all.                                        *)
LEMMA AuditStep ==
    ASSUME StoreOK, NEW operation \in AuditOperation, NEW caller \in Caller \cup {System},
           NEW outcome \in {"allowed", "denied"}, NEW affected \in SUBSET Nat,
           Audit(operation, caller, outcome, affected),
           operation # "update" \/ outcome = "denied",
           UNCHANGED <<memory_events, permissions, tombstones, relation_edges, now>>
    PROVE  StoreOK' /\ StoreGrows
<1>1. audit_log' \subseteq AuditRecord
  BY AuditedType DEF StoreOK, TypeOK
<1>2. TypeOK'
  BY <1>1 DEF StoreOK, TypeOK
<1>3. QuietStep /\ PermissionStep
  BY OtherAudit DEF QuietStep, PermissionStep
<1>4. QED
  BY <1>2, <1>3, QuietStoreStep

LEMMA StillStep ==
    ASSUME StoreOK, UNCHANGED vars
    PROVE  StoreOK' /\ StoreGrows
<1>1. TypeOK'
  BY DEF StoreOK, TypeOK, vars
<1>2. QuietStep /\ PermissionStep
  BY DEF QuietStep, UpdatesKept, AllowedRecord, PermissionStep, vars
<1>3. QED
  BY <1>1, <1>2, QuietStoreStep

-----------------------------------------------------------------------------
(* The calls' half: a thread's step leaves a call in order.                *)

ThreadStepOK(t) ==
    /\ StoreOK'
    /\ StoreGrows
    /\ \E d : CallOK(d) /\ Set(t, d)

LEMMA IdleOK ==
    ASSUME StoreOK
    PROVE  CallOK(Idle)
<1>1. Idle \in Call
  BY DEF Idle, Call
<1>2. /\ Idle.op = "none" /\ Idle.step = "idle"
      /\ Idle.left \cup Idle.kept \cup Idle.denied \cup Idle.related
             \cup Idle.since.barred = {}
      /\ Idle.since.events = 0 /\ Idle.since.grants = 0
  BY DEF Idle
<1>3. Len(memory_events) \in Nat /\ Len(permissions) \in Nat
  BY LenProperties DEF StoreOK, TypeOK
<1> HIDE DEF Idle
<1>4. InOrder(Idle) /\ RefersToStored(Idle)
  BY <1>2, <1>3 DEF InOrder, RefersToStored
<1>5. QED
  BY <1>1, <1>2, <1>4
  DEF CallOK, HoldsCandidate, HoldsRow, HoldsSelector, HasConsidered, WithinRights,
      IsGrounded

(* A call that has just begun.                                             *)
LEMMA OpenedOK ==
    ASSUME StoreOK, NEW d \in Call, InOrder(d),
           d.op # "none", d.step \notin {"validate", "insert", "return"},
           d.kept = {}, d.denied = {}, d.related = {}, d.left \subseteq EventIds,
           d.since = Since(d.caller, Right[d.op]),
           d.op \in {"search", "context"} => d.at = now,
           HoldsCandidate(d), HoldsRow(d), HoldsSelector(d)
    PROVE  CallOK(d)
<1>1. /\ d.since.events = Len(memory_events)
      /\ d.since.grants = Len(permissions)
      /\ d.since.barred = {id \in EventIds :
                              ~HoldsGrant(permissions, d.caller, Right[d.op],
                                          memory_events[id], now)}
  BY DEF Since
<1>2. Len(memory_events) \in Nat /\ Len(permissions) \in Nat
  BY LenProperties DEF StoreOK, TypeOK
<1>3. RefersToStored(d)
  BY <1>1, <1>2 DEF RefersToStored
<1>4. d.op \in {"search", "context"} => Right[d.op] = "read"
  BY DEF Right
<1>5. WithinRights(d)
  BY <1>1, <1>4 DEF WithinRights
<1>6. QED
  BY <1>3, <1>5 DEF CallOK, HasConsidered, IsGrounded

(* A call that has moved on.                                               *)
LEMMA AdvancedOK ==
    ASSUME StoreOK, NEW c, CallOK(c), NEW d \in Call, InOrder(d),
           d.op = c.op, d.caller = c.caller, d.selector = c.selector, d.at = c.at,
           d.since = c.since,
           d.left \cup d.kept \cup d.denied \subseteq EventIds,
           (c.op # "none" /\ Len(permissions) = c.since.grants) =>
               d.kept \cap c.since.barred = {},
           HoldsCandidate(d), HoldsRow(d), HasConsidered(d), IsGrounded(d)
    PROVE  CallOK(d)
<1>1. RefersToStored(d)
  BY DEF CallOK, RefersToStored
<1>2. WithinRights(d)
  BY DEF CallOK, WithinRights
<1>3. HoldsSelector(d)
  BY DEF CallOK, HoldsSelector
<1>4. QED
  BY <1>1, <1>2, <1>3 DEF CallOK

(* What a refused call leaves: its audit record.                           *)
LEMMA RefuseStep ==
    ASSUME StoreOK, NEW t \in Thread, NEW operation \in AuditOperation,
           NEW caller \in Caller, NEW id \in Nat, Refuse(t, operation, caller, id)
    PROVE  ThreadStepOK(t)
<1>1. StoreOK' /\ StoreGrows
  BY AuditStep DEF Refuse, Deny
<1>2. CallOK(Idle) /\ Set(t, Idle)
  BY IdleOK DEF Refuse
<1>3. QED
  BY <1>1, <1>2 DEF ThreadStepOK

(* What a call remembers of the state it began in is well formed.          *)
LEMMA SinceType ==
    ASSUME TypeOK, NEW caller, NEW operation
    PROVE  Since(caller, operation) \in [events: Nat, grants: Nat, barred: SUBSET Nat]
BY LenProperties DEF TypeOK, Since, EventIds

(* The parts of a call as it is opened.                                    *)
LEMMA OpenedParts ==
    ASSUME NEW op, NEW operation, NEW caller
    PROVE  Opened(op, operation, caller) =
               [op |-> op, step |-> "idle", caller |-> caller, event |-> Nothing,
                selector |-> Nothing, left |-> {}, kept |-> {}, denied |-> {},
                related |-> {}, at |-> 0, since |-> Since(caller, operation)]
<1>1. Idle = [op |-> "none", step |-> "idle", caller |-> System, event |-> Nothing,
              selector |-> Nothing, left |-> {}, kept |-> {}, denied |-> {},
              related |-> {}, at |-> 0,
              since |-> [events |-> 0, grants |-> 0, barred |-> {}]]
  BY DEF Idle
<1> DEFINE since == Since(caller, operation)
<1>2. Opened(op, operation, caller) =
          [Idle EXCEPT !.op = op, !.caller = caller, !.since = since]
  BY DEF Opened
<1> HIDE DEF since
<1>3. QED
  BY <1>1, <1>2 DEF since

LEMMA RecordCheckStep ==
    ASSUME StoreOK, NEW t \in Thread, NEW caller \in Caller,
           NEW candidate \in Candidates,
           RecordCheck(t, caller, candidate)
    PROVE  ThreadStepOK(t)
<1> DEFINE event == Construct(candidate)
<1>1. CASE ~Allowed(caller, "write", event)
  <2>1. Refuse(t, "write", caller, UnstoredId)
    BY <1>1 DEF RecordCheck
  <2>2. "write" \in AuditOperation /\ UnstoredId \in Nat
    BY DEF AuditOperation, UnstoredId
  <2>3. QED
    BY <2>1, <2>2, RefuseStep
<1>2. CASE Allowed(caller, "write", event)
  <2> DEFINE d == [Opened("record", "write", caller)
                      EXCEPT !.step = "dedupe", !.event = event]
  <2>1. Set(t, d) /\ UNCHANGED vars
    BY <1>2 DEF RecordCheck, StoreUnchanged
  <2>2. /\ event \in MemoryEvent /\ event.state = "active"
    BY ConstructedEvent DEF StoreOK
  <2> HIDE DEF event
  <2>3. Since(caller, "write") \in [events: Nat, grants: Nat, barred: SUBSET Nat]
    BY SinceType DEF StoreOK
  <2>4. d = [op |-> "record", step |-> "dedupe", caller |-> caller, event |-> event,
             selector |-> Nothing, left |-> {}, kept |-> {}, denied |-> {},
             related |-> {}, at |-> 0, since |-> Since(caller, "write")]
    <3> DEFINE opened == Opened("record", "write", caller)
    <3>1. opened = [op |-> "record", step |-> "idle", caller |-> caller,
                    event |-> Nothing, selector |-> Nothing, left |-> {},
                    kept |-> {}, denied |-> {}, related |-> {}, at |-> 0,
                    since |-> Since(caller, "write")]
      BY OpenedParts
    <3>2. d = [opened EXCEPT !.step = "dedupe", !.event = event]
      OBVIOUS
    <3> HIDE DEF opened, d
    <3>3. QED
      BY <3>1, <3>2
  <2> HIDE DEF d
  <2>5. d \in Call
    BY <2>2, <2>3, <2>4 DEF Call, Operations, Steps
  <2>6. InOrder(d)
    BY <2>4 DEF InOrder, Operations, Steps
  <2>7. HoldsCandidate(d) /\ HoldsRow(d) /\ HoldsSelector(d)
    BY <2>2, <2>4 DEF HoldsCandidate, HoldsRow, HoldsSelector
  <2>8. d.since = Since(d.caller, Right[d.op])
    BY <2>4 DEF Right
  <2>9. CallOK(d)
    BY <2>4, <2>5, <2>6, <2>7, <2>8, OpenedOK
  <2>10. QED
    BY <2>1, <2>9, StillStep DEF ThreadStepOK
<1>3. QED
  BY <1>1, <1>2

(* correct and explain begin with the same lookup.                         *)
LEMMA LookupStep ==
    ASSUME StoreOK, NEW t \in Thread, NEW caller \in Caller, NEW id \in EventIds,
           NEW op \in {"correct", "explain"},
           Set(t, [Opened(op, Right[op], caller)
                      EXCEPT !.step = "check", !.left = {id},
                             !.event = memory_events[id]]),
           UNCHANGED vars
    PROVE  ThreadStepOK(t)
<1> DEFINE d == [Opened(op, Right[op], caller)
                    EXCEPT !.step = "check", !.left = {id},
                           !.event = memory_events[id]]
<1>1. memory_events[id] \in MemoryEvent /\ id \in Nat
  BY ElementOfSeq, LenProperties DEF StoreOK, TypeOK, EventIds
<1>2. Since(caller, Right[op]) \in [events: Nat, grants: Nat, barred: SUBSET Nat]
  BY SinceType DEF StoreOK
<1>3. d = [op |-> op, step |-> "check", caller |-> caller,
           event |-> memory_events[id], selector |-> Nothing, left |-> {id},
           kept |-> {}, denied |-> {}, related |-> {}, at |-> 0,
           since |-> Since(caller, Right[op])]
  <2> DEFINE opened == Opened(op, Right[op], caller)
  <2>1. opened = [op |-> op, step |-> "idle", caller |-> caller,
                  event |-> Nothing, selector |-> Nothing, left |-> {},
                  kept |-> {}, denied |-> {}, related |-> {}, at |-> 0,
                  since |-> Since(caller, Right[op])]
    BY OpenedParts
  <2>2. d = [opened EXCEPT !.step = "check", !.left = {id},
                           !.event = memory_events[id]]
    OBVIOUS
  <2> HIDE DEF opened, d
  <2>3. QED
    BY <2>1, <2>2
<1>4. Set(t, d)
  OBVIOUS
<1> HIDE DEF d
<1>5. d \in Call
  BY <1>1, <1>2, <1>3 DEF Call, Operations, Steps
<1>6. InOrder(d)
  BY <1>3 DEF InOrder, Operations, Steps
<1>7. HoldsRow(d)
  <2>1. SameRow(memory_events[id], memory_events[id])
    BY <1>1, StateOfRow DEF SameRow, StoreOK
  <2>2. memory_events[id].state = "superseded" => CorrectionsOf(id) # {}
    BY DEF StoreOK, SupersessionIsLinked
  <2>3. memory_events[id].state = "quarantined" => HasEvidence(memory_events[id], id)
    BY DEF StoreOK, QuarantineHasEvidence, HasEvidence
  <2>4. QED
    BY <1>1, <1>3, <2>1, <2>2, <2>3 DEF HoldsRow
<1>8. HoldsCandidate(d) /\ HoldsSelector(d)
  BY <1>3 DEF HoldsCandidate, HoldsSelector
<1>9. CallOK(d)
  BY <1>3, <1>5, <1>6, <1>7, <1>8, OpenedOK
<1>10. QED
  BY <1>4, <1>9, StillStep DEF ThreadStepOK

(* delete begins with the query of its selection.                          *)
LEMMA DeleteQueryStep ==
    ASSUME StoreOK, NEW t \in Thread, NEW caller \in Caller,
           NEW selector \in Selectors, DeleteQuery(t, caller, selector)
    PROVE  ThreadStepOK(t)
<1> DEFINE ids == QueryEvents(selector)
<1> DEFINE d == [Opened("delete", "delete", caller)
                    EXCEPT !.step = "check", !.selector = selector, !.left = ids]
<1>1. ids \subseteq EventIds /\ EventIds \subseteq Nat /\ selector \in MemorySelector
  BY LenProperties, MemoryServiceAssumption DEF QueryEvents, StoreOK, TypeOK, EventIds
<1>2. Since(caller, "delete") \in [events: Nat, grants: Nat, barred: SUBSET Nat]
  BY SinceType DEF StoreOK
<1>3. d = [op |-> "delete", step |-> "check", caller |-> caller,
           event |-> Nothing, selector |-> selector, left |-> ids,
           kept |-> {}, denied |-> {}, related |-> {}, at |-> 0,
           since |-> Since(caller, "delete")]
  <2> DEFINE opened == Opened("delete", "delete", caller)
  <2>1. opened = [op |-> "delete", step |-> "idle", caller |-> caller,
                  event |-> Nothing, selector |-> Nothing, left |-> {},
                  kept |-> {}, denied |-> {}, related |-> {}, at |-> 0,
                  since |-> Since(caller, "delete")]
    BY OpenedParts
  <2>2. d = [opened EXCEPT !.step = "check", !.selector = selector, !.left = ids]
    OBVIOUS
  <2> HIDE DEF opened, d, ids
  <2>3. QED
    BY <2>1, <2>2
<1>4. Set(t, d) /\ UNCHANGED vars
  BY DEF DeleteQuery, StoreUnchanged
<1> HIDE DEF d, ids
<1>5. d \in Call
  BY <1>1, <1>2, <1>3 DEF Call, Operations, Steps
<1>6. InOrder(d)
  BY <1>3 DEF InOrder, Operations, Steps
<1>7. HoldsCandidate(d) /\ HoldsRow(d) /\ HoldsSelector(d)
  BY <1>1, <1>3 DEF HoldsCandidate, HoldsRow, HoldsSelector
<1>8. d.since = Since(d.caller, Right[d.op])
  BY <1>3 DEF Right
<1>9. CallOK(d)
  BY <1>1, <1>3, <1>5, <1>6, <1>7, <1>8, OpenedOK
<1>10. QED
  BY <1>4, <1>9, StillStep DEF ThreadStepOK

(* search, and build_context that searches first, begin with a query too.  *)
LEMMA SearchQueryStep ==
    ASSUME StoreOK, NEW t \in Thread, NEW caller \in Caller,
           NEW selector \in Selectors, NEW op \in {"search", "context"},
           SearchQuery(t, op, caller, selector)
    PROVE  ThreadStepOK(t)
<1> DEFINE ids == QueryEvents([selector EXCEPT !.lifecycle_states = {"active"}])
<1> DEFINE d == [Opened(op, "read", caller)
                    EXCEPT !.step = "project", !.at = now, !.left = ids]
<1>1. ids \subseteq EventIds /\ EventIds \subseteq Nat /\ now \in Nat
  BY LenProperties DEF QueryEvents, StoreOK, TypeOK, EventIds
<1>2. Since(caller, "read") \in [events: Nat, grants: Nat, barred: SUBSET Nat]
  BY SinceType DEF StoreOK
<1>3. d = [op |-> op, step |-> "project", caller |-> caller,
           event |-> Nothing, selector |-> Nothing, left |-> ids,
           kept |-> {}, denied |-> {}, related |-> {}, at |-> now,
           since |-> Since(caller, "read")]
  <2> DEFINE opened == Opened(op, "read", caller)
  <2>1. opened = [op |-> op, step |-> "idle", caller |-> caller,
                  event |-> Nothing, selector |-> Nothing, left |-> {},
                  kept |-> {}, denied |-> {}, related |-> {}, at |-> 0,
                  since |-> Since(caller, "read")]
    BY OpenedParts
  <2>2. d = [opened EXCEPT !.step = "project", !.at = now, !.left = ids]
    OBVIOUS
  <2> HIDE DEF opened, d, ids
  <2>3. QED
    BY <2>1, <2>2
<1>4. Set(t, d) /\ UNCHANGED vars
  BY DEF SearchQuery, StoreUnchanged
<1> HIDE DEF d, ids
<1>5. d \in Call
  BY <1>1, <1>2, <1>3 DEF Call, Operations, Steps
<1>6. InOrder(d)
  BY <1>3 DEF InOrder, Operations, Steps
<1>7. HoldsCandidate(d) /\ HoldsRow(d) /\ HoldsSelector(d)
  BY <1>3 DEF HoldsCandidate, HoldsRow, HoldsSelector
<1>8. d.since = Since(d.caller, Right[d.op])
  BY <1>3 DEF Right
<1>9. CallOK(d)
  BY <1>1, <1>3, <1>5, <1>6, <1>7, <1>8, OpenedOK
<1>10. QED
  BY <1>4, <1>9, StillStep DEF ThreadStepOK

(* Every call begins in order.                                             *)
LEMMA BeginStep ==
    ASSUME StoreOK, NEW t \in Thread, Begin(t)
    PROVE  ThreadStepOK(t)
<1>1. PICK caller \in Caller :
          \/ \E candidate \in Candidates :
                 RecordCheck(t, caller, candidate)
          \/ \E operation \in {"update", "read"} : NotFound(t, operation, caller)
          \/ \E id \in EventIds :
                 CorrectRead(t, caller, id) \/ ExplainRead(t, caller, id)
          \/ \E selector \in Selectors :
                 \/ DeleteQuery(t, caller, selector)
                 \/ \E op \in {"search", "context"} :
                        SearchQuery(t, op, caller, selector)
  BY DEF Begin
<1>2. ASSUME NEW candidate \in Candidates,
             RecordCheck(t, caller, candidate)
      PROVE  ThreadStepOK(t)
  BY <1>2, RecordCheckStep
<1>3. ASSUME NEW operation \in {"update", "read"}, NotFound(t, operation, caller)
      PROVE  ThreadStepOK(t)
  <2>1. operation \in AuditOperation /\ UnstoredId \in Nat
    BY DEF AuditOperation, UnstoredId
  <2>2. QED
    BY <1>3, <2>1, RefuseStep DEF NotFound
<1>4. ASSUME NEW id \in EventIds, CorrectRead(t, caller, id)
      PROVE  ThreadStepOK(t)
  <2>1. Right["correct"] = "update"
    BY DEF Right
  <2>2. QED
    BY <1>4, <2>1, LookupStep DEF CorrectRead, StoreUnchanged
<1>5. ASSUME NEW id \in EventIds, ExplainRead(t, caller, id)
      PROVE  ThreadStepOK(t)
  <2>1. Right["explain"] = "read"
    BY DEF Right
  <2>2. QED
    BY <1>5, <2>1, LookupStep DEF ExplainRead, StoreUnchanged
<1>6. ASSUME NEW selector \in Selectors, DeleteQuery(t, caller, selector)
      PROVE  ThreadStepOK(t)
  BY <1>6, DeleteQueryStep
<1>7. ASSUME NEW selector \in Selectors, NEW op \in {"search", "context"},
             SearchQuery(t, op, caller, selector)
      PROVE  ThreadStepOK(t)
  BY <1>7, SearchQueryStep
<1>8. QED
  BY <1>1, <1>2, <1>3, <1>4, <1>5, <1>6, <1>7

-----------------------------------------------------------------------------
(* The steps of record.                                                    *)

(* What an empty answer of the two queries of record says.                 *)
LEMMA NoDuplicate ==
    ASSUME NEW event, Duplicates(event) = {},
           NEW old \in EventIds, memory_events[old].state = "active"
    PROVE  ~IsDuplicate(memory_events[old], event)
BY DEF Duplicates, ActiveEvents, IsDuplicate

LEMMA NoContradiction ==
    ASSUME NEW event, Contradictions(event) = {},
           NEW old \in EventIds, memory_events[old].state = "active"
    PROVE  ~IsContradiction(memory_events[old], event)
BY DEF Contradictions, ActiveEvents, IsContradiction

LEMMA RecordDedupeStep ==
    ASSUME StoreOK, NEW t \in Thread, CallOK(call[t]), RecordDedupe(t)
    PROVE  ThreadStepOK(t)
<1>1. PICK c : c = call[t]
  OBVIOUS
<1>2. /\ CallOK(c) /\ c \in Call /\ c.op = "record" /\ c.step = "dedupe"
      /\ c.caller \in Caller
  BY <1>1 DEF RecordDedupe, At, CallOK, InOrder
<1>3. CASE Duplicates(c.event) # {}
  <2>1. Duplicates(c.event) \in SUBSET Nat
    BY LenProperties DEF Duplicates, ActiveEvents, StoreOK, TypeOK, EventIds
  <2>2. First(Duplicates(c.event)) \in Nat
    BY <1>3, <2>1, FirstIsLeast
  <2>3. /\ Audit("write", c.caller, "allowed", {First(Duplicates(c.event))})
        /\ Set(t, Idle)
        /\ UNCHANGED <<memory_events, permissions, tombstones, relation_edges, now>>
    BY <1>1, <1>3 DEF RecordDedupe
  <2>4. "write" \in AuditOperation
    BY DEF AuditOperation
  <2>5. StoreOK' /\ StoreGrows
    BY <1>2, <2>2, <2>3, <2>4, AuditStep
  <2>6. QED
    BY <2>3, <2>5, IdleOK DEF ThreadStepOK
<1>4. CASE Duplicates(c.event) = {}
  <2> DEFINE d == [c EXCEPT !.step = "validate"]
  <2>1. Set(t, d) /\ UNCHANGED vars
    BY <1>1, <1>4 DEF RecordDedupe, StoreUnchanged
  <2>2. /\ d \in Call /\ d.op = "record" /\ d.step = "validate"
        /\ d.caller = c.caller /\ d.event = c.event /\ d.selector = c.selector
        /\ d.left = c.left /\ d.kept = c.kept /\ d.denied = c.denied
        /\ d.related = c.related /\ d.at = c.at /\ d.since = c.since
    BY <1>2 DEF Call
  <2> HIDE DEF d
  <2>3. InOrder(d)
    BY <1>2, <2>2 DEF InOrder, Operations, Steps
  <2>4. c.event.state = "active"
    BY <1>2 DEF CallOK, HoldsCandidate
  <2>5. HoldsCandidate(d) /\ HoldsRow(d) /\ IsGrounded(d)
    BY <1>2, <2>2, <2>4 DEF CallOK, HoldsCandidate, HoldsRow, IsGrounded
  <2>6. HasConsidered(d)
    BY <1>4, <2>2, NoDuplicate DEF HasConsidered
  <2>7. CallOK(d)
    BY <1>2, <2>2, <2>3, <2>5, <2>6, AdvancedOK
    DEF CallOK, RefersToStored, WithinRights
  <2>8. QED
    BY <2>1, <2>7, StillStep DEF ThreadStepOK
<1>5. QED
  BY <1>3, <1>4

LEMMA RecordValidateStep ==
    ASSUME StoreOK, NEW t \in Thread, CallOK(call[t]), RecordValidate(t)
    PROVE  ThreadStepOK(t)
<1>1. PICK c : c = call[t]
  OBVIOUS
<1>2. /\ CallOK(c) /\ c \in Call /\ c.op = "record" /\ c.step = "validate"
      /\ c.event \in MemoryEvent /\ c.event.state = "active"
  BY <1>1 DEF RecordValidate, At, CallOK, HoldsCandidate
<1>3. PICK stored : stored = QuarantineIfContradictory(c.event)
  OBVIOUS
<1>4. PICK event \in MemoryEvent : event = c.event
  BY <1>2
<1>5. TypeOK /\ event.state = "active" /\ stored = QuarantineIfContradictory(event)
  BY <1>2, <1>3, <1>4 DEF StoreOK
<1>6. /\ stored \in MemoryEvent
      /\ stored.text = event.text /\ stored.source_app = event.source_app
      /\ stored.memory_layer = event.memory_layer
      /\ stored.entities = event.entities
  BY <1>5, QuarantinedEvent
<1>7. \/ stored = event /\ Contradictions(event) = {}
      \/ stored.state = "quarantined"
  <2>1. CASE Contradictions(event) = {}
    BY <1>5, <2>1 DEF QuarantineIfContradictory
  <2>2. CASE Contradictions(event) # {}
    BY <1>5, <2>2 DEF QuarantineIfContradictory, MemoryEvent
  <2>3. QED
    BY <2>1, <2>2
<1>8. stored.state = "quarantined" =>
          \E evidence \in EventIds :
              /\ stored.parents = {evidence}
              /\ IsContradiction(memory_events[evidence], stored)
  BY <1>5, QuarantinedOnEvidence
<1> DEFINE d == [c EXCEPT !.step = "insert", !.event = stored]
<1>9. Set(t, d) /\ UNCHANGED vars
  BY <1>1, <1>3 DEF RecordValidate, StoreUnchanged
<1>10. /\ d \in Call /\ d.op = "record" /\ d.step = "insert" /\ d.event = stored
      /\ d.caller = c.caller /\ d.selector = c.selector
      /\ d.left = c.left /\ d.kept = c.kept /\ d.denied = c.denied
      /\ d.related = c.related /\ d.at = c.at /\ d.since = c.since
  BY <1>2, <1>6 DEF Call
<1> HIDE DEF d
<1>11. InOrder(d)
  BY <1>2, <1>10 DEF CallOK, InOrder, Operations, Steps
<1>12. HoldsCandidate(d)
  <2>1. CASE stored = c.event
    BY <1>2, <1>4, <1>10, <1>7, <2>1 DEF HoldsCandidate
  <2>2. CASE stored # c.event
    BY <1>4, <1>10, <1>6, <1>7, <1>8, <2>2 DEF HoldsCandidate
  <2>3. QED
    BY <2>1, <2>2
<1>13. HasConsidered(d)
  <2>1. \A old \in EventIds :
            (old <= c.since.events /\ memory_events[old].state = "active") =>
                ~IsDuplicate(memory_events[old], c.event)
    BY <1>2 DEF CallOK, HasConsidered
  <2>2. \A old : IsDuplicate(old, stored) = IsDuplicate(old, c.event)
    BY <1>4, <1>6 DEF IsDuplicate
  <2>3. stored.state = "active" => stored = c.event /\ Contradictions(c.event) = {}
    BY <1>4, <1>7
  <2>4. QED
    BY <1>10, <2>1, <2>2, <2>3, NoContradiction DEF HasConsidered
<1>14. HoldsRow(d) /\ IsGrounded(d)
  BY <1>10 DEF HoldsRow, IsGrounded
<1>15. CallOK(d)
  BY <1>2, <1>10, <1>11, <1>12, <1>13, <1>14, AdvancedOK
  DEF CallOK, RefersToStored, WithinRights
<1>16. QED
  BY <1>9, <1>15, StillStep DEF ThreadStepOK

LEMMA RecordInsertStep ==
    ASSUME StoreOK, NEW t \in Thread, CallOK(call[t]), RecordInsert(t)
    PROVE  ThreadStepOK(t)
<1>1. PICK c : c = call[t]
  OBVIOUS
<1>2. /\ CallOK(c) /\ c.op = "record" /\ c.step = "insert"
      /\ memory_events' = Append(memory_events, c.event)
      /\ Audit("write", c.caller, "allowed", {Len(memory_events) + 1})
      /\ UNCHANGED <<permissions, tombstones, relation_edges, now>>
      /\ Set(t, Idle)
  BY <1>1 DEF RecordInsert, At
<1>3. StoreOK' /\ StoreGrows
  BY <1>2, InsertStep
<1>4. QED
  BY <1>2, <1>3, IdleOK DEF ThreadStepOK

-----------------------------------------------------------------------------
(* The steps of correct.                                                   *)

LEMMA FirstOfOne ==
    ASSUME NEW id \in Nat
    PROVE  First({id}) = id
BY FirstIsLeast

(* What passes the check was not barred when the call began, unless there  *)
(* are new grants.                                                         *)
LEMMA CheckedIsNotBarred ==
    ASSUME NEW c, CallOK(c), c.op # "none", NEW id, NEW event, NEW at,
           SameButState(event, memory_events[id]),
           CanAccess(permissions, c.caller, Right[c.op], event, at),
           at = now \/ (c.op \in {"search", "context"} /\ at = c.at),
           Len(permissions) = c.since.grants
    PROVE  id \notin c.since.barred
<1>1. HoldsGrant(permissions, c.caller, Right[c.op], memory_events[id], at)
  BY DEF CanAccess, IsCandidateGrant, HoldsGrant, Matches, SameButState, SameParts
<1>2. c.op \in {"search", "context"} => Right[c.op] = "read"
  BY DEF Right
<1>3. QED
  BY <1>1, <1>2 DEF CallOK, WithinRights

(* The row a correction or an explanation goes on with is one of one id.   *)
LEMMA RowOfId ==
    ASSUME StoreOK, NEW c, CallOK(c), c.op \in {"correct", "explain"},
           NEW ids, ids = IF c.step = "check" THEN c.left ELSE c.kept
    PROVE  /\ ids = {First(ids)} /\ First(ids) \in EventIds
           /\ c.event \in MemoryEvent
           /\ SameRow(c.event, memory_events[First(ids)])
           /\ SameButState(c.event, memory_events[First(ids)])
           /\ c.event.state = "superseded" => CorrectionsOf(First(ids)) # {}
           /\ c.event.state = "quarantined" => HasEvidence(c.event, First(ids))
<1>1. PICK id \in EventIds :
          /\ IF c.step = "check" THEN c.left = {id} ELSE c.kept = {id}
          /\ c.event \in MemoryEvent
          /\ SameRow(c.event, memory_events[id])
          /\ c.event.state = "superseded" => CorrectionsOf(id) # {}
          /\ c.event.state = "quarantined" => HasEvidence(c.event, id)
  BY DEF CallOK, HoldsRow
<1>2. id \in Nat /\ memory_events[id] \in MemoryEvent
  BY ElementOfSeq, LenProperties DEF StoreOK, TypeOK, EventIds
<1>3. ids = {id} /\ First(ids) = id
  BY <1>1, <1>2, FirstOfOne
<1>4. SameButState(c.event, memory_events[id])
  BY <1>1, <1>2, StateIsAPart DEF SameRow
<1>5. QED
  BY <1>1, <1>3, <1>4

LEMMA CorrectCheckStep ==
    ASSUME StoreOK, NEW t \in Thread, CallOK(call[t]), CorrectCheck(t)
    PROVE  ThreadStepOK(t)
<1>1. PICK c : c = call[t]
  OBVIOUS
<1>2. /\ CallOK(c) /\ c \in Call /\ c.op = "correct" /\ c.step = "check"
      /\ c.caller \in Caller
  BY <1>1 DEF CorrectCheck, At, CallOK, InOrder
<1>3. PICK id : id = First(c.left)
  OBVIOUS
<1>4. /\ c.left = {id} /\ id \in EventIds /\ c.event \in MemoryEvent
      /\ SameRow(c.event, memory_events[id])
      /\ SameButState(c.event, memory_events[id])
      /\ c.event.state = "superseded" => CorrectionsOf(id) # {}
      /\ c.event.state = "quarantined" => HasEvidence(c.event, id)
  BY <1>2, <1>3, RowOfId
<1>5. id \in Nat
  BY <1>4, LenProperties DEF StoreOK, TypeOK, EventIds
<1>6. CASE Allowed(c.caller, "update", c.event)
  <2> DEFINE d == [c EXCEPT !.step = "write", !.kept = {id}]
  <2>1. Set(t, d) /\ UNCHANGED vars
    BY <1>1, <1>3, <1>6 DEF CorrectCheck, StoreUnchanged
  <2>2. /\ d \in Call /\ d.op = "correct" /\ d.step = "write" /\ d.kept = {id}
        /\ d.caller = c.caller /\ d.event = c.event /\ d.selector = c.selector
        /\ d.left = c.left /\ d.denied = c.denied
        /\ d.related = c.related /\ d.at = c.at /\ d.since = c.since
    BY <1>2, <1>5 DEF Call
  <2> HIDE DEF d
  <2>3. InOrder(d)
    BY <1>2, <2>2 DEF InOrder, Operations, Steps
  <2>4. HoldsCandidate(d) /\ HasConsidered(d) /\ IsGrounded(d)
    BY <2>2 DEF HoldsCandidate, HasConsidered, IsGrounded
  <2>5. HoldsRow(d)
    BY <1>4, <2>2 DEF HoldsRow
  <2>6. Len(permissions) = c.since.grants => id \notin c.since.barred
    <3>1. Right[c.op] = "update"
      BY <1>2 DEF Right
    <3>2. QED
      BY <1>2, <1>4, <1>6, <3>1, CheckedIsNotBarred DEF Allowed
  <2>7. d.left \cup d.kept \cup d.denied \subseteq EventIds
    BY <1>2, <1>4, <2>2 DEF CallOK, RefersToStored
  <2>8. CallOK(d)
    BY <1>2, <2>2, <2>3, <2>4, <2>5, <2>6, <2>7, AdvancedOK
  <2>9. QED
    BY <2>1, <2>8, StillStep DEF ThreadStepOK
<1>7. CASE ~Allowed(c.caller, "update", c.event)
  <2>1. Refuse(t, "update", c.caller, id) /\ "update" \in AuditOperation
    BY <1>1, <1>3, <1>7 DEF CorrectCheck, AuditOperation
  <2>2. QED
    BY <1>2, <1>5, <2>1, RefuseStep
<1>8. QED
  BY <1>6, <1>7

LEMMA CorrectWriteStep ==
    ASSUME StoreOK, NEW t \in Thread, CallOK(call[t]),
           NEW patch \in Patches, CorrectWrite(t, patch)
    PROVE  ThreadStepOK(t)
<1>1. PICK c : c = call[t]
  OBVIOUS
<1>2. /\ CallOK(c) /\ c \in Call /\ c.op = "correct" /\ c.step = "write"
      /\ c.caller \in Caller
  BY <1>1 DEF CorrectWrite, At, CallOK, InOrder
<1>3. PICK id : id = First(c.kept)
  OBVIOUS
<1>4. /\ c.kept = {id} /\ id \in EventIds /\ c.event \in MemoryEvent
      /\ SameRow(c.event, memory_events[id])
      /\ c.event.state = "superseded" => CorrectionsOf(id) # {}
      /\ c.event.state = "quarantined" => HasEvidence(c.event, id)
  BY <1>2, <1>3, RowOfId
<1> DEFINE d == [c EXCEPT !.step = "return"]
<1>5. /\ memory_events' =
             WithState(Append(memory_events, Corrected(c.event, id, patch)),
                       {id}, "superseded")
      /\ relation_edges' = EdgesWithState({id}, "superseded")
      /\ Audit("update", c.caller, "allowed", {id, Len(memory_events) + 1})
      /\ UNCHANGED <<permissions, tombstones, now>>
      /\ Set(t, d)
  BY <1>1, <1>3 DEF CorrectWrite, Finished
<1>6. StoreOK' /\ StoreGrows
  BY <1>2, <1>4, <1>5, SupersedeStep
<1>7. /\ d \in Call /\ d.op = "correct" /\ d.step = "return" /\ d.kept = c.kept
      /\ d.caller = c.caller /\ d.event = c.event /\ d.selector = c.selector
      /\ d.left = c.left /\ d.denied = c.denied
      /\ d.related = c.related /\ d.at = c.at /\ d.since = c.since
  BY <1>2 DEF Call
<1> HIDE DEF d
<1>8. InOrder(d)
  BY <1>2, <1>7 DEF InOrder, Operations, Steps
<1>9. HoldsCandidate(d) /\ HasConsidered(d) /\ IsGrounded(d)
  BY <1>7 DEF HoldsCandidate, HasConsidered, IsGrounded
<1>10. HoldsRow(d)
  BY <1>4, <1>7 DEF HoldsRow
<1>11. CallOK(d)
  BY <1>2, <1>7, <1>8, <1>9, <1>10, AdvancedOK
  DEF CallOK, RefersToStored, WithinRights
<1>12. QED
  BY <1>5, <1>6, <1>11 DEF ThreadStepOK

-----------------------------------------------------------------------------
(* The steps of delete.                                                    *)

LEMMA DeleteCheckStep ==
    ASSUME StoreOK, NEW t \in Thread, CallOK(call[t]), DeleteCheck(t)
    PROVE  ThreadStepOK(t)
<1>1. PICK c : c = call[t]
  OBVIOUS
<1>2. /\ CallOK(c) /\ c \in Call /\ c.op = "delete" /\ c.step = "check"
      /\ c.left # {} /\ c.caller \in Caller
  BY <1>1 DEF DeleteCheck, At, CallOK, InOrder
<1>3. PICK id : id = First(c.left)
  OBVIOUS
<1>4. id \in c.left /\ id \in EventIds /\ id \in Nat
  <2>1. c.left \in SUBSET Nat
    BY <1>2 DEF Call
  <2>2. c.left \subseteq EventIds
    BY <1>2 DEF CallOK, RefersToStored
  <2>3. QED
    BY <1>2, <1>3, <2>1, <2>2, FirstIsLeast
<1>5. CASE Allowed(c.caller, "delete", memory_events[id])
  <2> DEFINE d == [c EXCEPT !.left = c.left \ {id}, !.kept = c.kept \cup {id}]
  <2>1. Set(t, d) /\ UNCHANGED vars
    BY <1>1, <1>3, <1>5 DEF DeleteCheck, StoreUnchanged
  <2>2. /\ d \in Call /\ d.op = "delete" /\ d.step = "check"
        /\ d.left = c.left \ {id} /\ d.kept = c.kept \cup {id}
        /\ d.caller = c.caller /\ d.event = c.event /\ d.selector = c.selector
        /\ d.denied = c.denied
        /\ d.related = c.related /\ d.at = c.at /\ d.since = c.since
    BY <1>2, <1>4 DEF Call
  <2> HIDE DEF d
  <2>3. InOrder(d)
    BY <1>2, <2>2 DEF InOrder, Operations, Steps
  <2>4. HoldsCandidate(d) /\ HoldsRow(d) /\ HasConsidered(d) /\ IsGrounded(d)
    BY <2>2 DEF HoldsCandidate, HoldsRow, HasConsidered, IsGrounded
  <2>5. Len(permissions) = c.since.grants => id \notin c.since.barred
    <3>1. Right[c.op] = "delete"
      BY <1>2 DEF Right
    <3>2. SameButState(memory_events[id], memory_events[id])
      BY DEF SameButState, SameParts
    <3>3. QED
      BY <1>2, <1>5, <3>1, <3>2, CheckedIsNotBarred DEF Allowed
  <2>6. d.left \cup d.kept \cup d.denied \subseteq EventIds
    BY <1>2, <1>4, <2>2 DEF CallOK, RefersToStored
  <2>7. Len(permissions) = c.since.grants => d.kept \cap c.since.barred = {}
    BY <1>2, <2>2, <2>5 DEF CallOK, WithinRights
  <2>8. CallOK(d)
    BY <1>2, <2>2, <2>3, <2>4, <2>6, <2>7, AdvancedOK
  <2>9. QED
    BY <2>1, <2>8, StillStep DEF ThreadStepOK
<1>6. CASE ~Allowed(c.caller, "delete", memory_events[id])
  <2>1. Refuse(t, "delete", c.caller, id) /\ "delete" \in AuditOperation
    BY <1>1, <1>3, <1>6 DEF DeleteCheck, AuditOperation
  <2>2. QED
    BY <1>2, <1>4, <2>1, RefuseStep
<1>7. QED
  BY <1>5, <1>6

(* A call that moves on to the next step of its operation, and whose       *)
(* operation asks nothing of the step it is at.                            *)
LEMMA NextStepOK ==
    ASSUME StoreOK, NEW c, CallOK(c), c.op \in {"delete", "search", "context"},
           NEW step \in Steps[c.op] \cup {"return"}
    PROVE  CallOK([c EXCEPT !.step = step])
<1> DEFINE d == [c EXCEPT !.step = step]
<1>1. c \in Call
  BY DEF CallOK
<1>2. /\ d \in Call /\ d.op = c.op /\ d.step = step /\ d.left = c.left
      /\ d.kept = c.kept
      /\ d.caller = c.caller /\ d.event = c.event /\ d.selector = c.selector
      /\ d.denied = c.denied
      /\ d.related = c.related /\ d.at = c.at /\ d.since = c.since
  BY <1>1 DEF Call, Steps
<1> HIDE DEF d
<1>3. InOrder(d)
  BY <1>2 DEF CallOK, InOrder, Operations, Steps
<1>4. HoldsCandidate(d) /\ HoldsRow(d) /\ HasConsidered(d) /\ IsGrounded(d)
  BY <1>2 DEF HoldsCandidate, HoldsRow, HasConsidered, IsGrounded
<1>5. CallOK(d)
  BY <1>2, <1>3, <1>4, AdvancedOK DEF CallOK, RefersToStored, WithinRights
<1>6. QED
  BY <1>5 DEF d

LEMMA DeleteCheckedStep ==
    ASSUME StoreOK, NEW t \in Thread, CallOK(call[t]), DeleteChecked(t)
    PROVE  ThreadStepOK(t)
<1>1. PICK c : c = call[t]
  OBVIOUS
<1>2. /\ CallOK(c) /\ c.op = "delete" /\ UNCHANGED vars
      /\ Set(t, [c EXCEPT !.step = "write"])
  BY <1>1 DEF DeleteChecked, At, StoreUnchanged
<1>3. "write" \in Steps[c.op] \cup {"return"}
  BY <1>2 DEF Steps
<1>4. CallOK([c EXCEPT !.step = "write"])
  BY <1>2, <1>3, NextStepOK
<1>5. QED
  BY <1>2, <1>4, StillStep DEF ThreadStepOK

LEMMA DeleteWriteStep ==
    ASSUME StoreOK, NEW t \in Thread, CallOK(call[t]), DeleteWrite(t)
    PROVE  ThreadStepOK(t)
<1>1. PICK c : c = call[t]
  OBVIOUS
<1>2. /\ CallOK(c) /\ c.op = "delete"
      /\ memory_events' = WithState(memory_events, c.kept, "deleted")
      /\ relation_edges' = EdgesWithState(c.kept, "deleted")
      /\ tombstones' = tombstones \cup
             {[event_id |-> id, selector |-> c.selector] : id \in c.kept}
      /\ Audit("delete", c.caller, "allowed", c.kept)
      /\ UNCHANGED <<permissions, now>>
      /\ Set(t, [c EXCEPT !.step = "return"])
  BY <1>1 DEF DeleteWrite, At, Finished
<1>3. StoreOK' /\ StoreGrows
  BY <1>2, DeleteStep
<1>4. CallOK([c EXCEPT !.step = "return"])
  BY <1>2, NextStepOK
<1>5. QED
  BY <1>2, <1>3, <1>4 DEF ThreadStepOK

-----------------------------------------------------------------------------
(* The steps of search and build_context.                                  *)

LEMMA SearchProjectStep ==
    ASSUME StoreOK, NEW t \in Thread, CallOK(call[t]), SearchProject(t)
    PROVE  ThreadStepOK(t)
<1>1. PICK c : c = call[t]
  OBVIOUS
<1>2. /\ CallOK(c) /\ c \in Call /\ c.op \in {"search", "context"}
      /\ c.step = "project" /\ c.left # {} /\ c.caller \in Caller
      /\ UNCHANGED vars
  BY <1>1 DEF SearchProject, At, CallOK, InOrder, StoreUnchanged
<1>3. PICK id : id = First(c.left)
  OBVIOUS
<1>4. id \in c.left /\ id \in EventIds /\ id \in Nat
  <2>1. c.left \in SUBSET Nat
    BY <1>2 DEF Call
  <2>2. c.left \subseteq EventIds
    BY <1>2 DEF CallOK, RefersToStored
  <2>3. QED
    BY <1>2, <1>3, <2>1, <2>2, FirstIsLeast
<1>5. CASE CanAccess(permissions, c.caller, "read", memory_events[id], c.at)
  <2> DEFINE d == [c EXCEPT !.left = c.left \ {id}, !.kept = c.kept \cup {id}]
  <2>1. Set(t, d)
    BY <1>1, <1>3, <1>5 DEF SearchProject
  <2>2. /\ d \in Call /\ d.op = c.op /\ d.step = "project"
        /\ d.left = c.left \ {id} /\ d.kept = c.kept \cup {id}
        /\ d.caller = c.caller /\ d.event = c.event /\ d.selector = c.selector
        /\ d.denied = c.denied
        /\ d.related = c.related /\ d.at = c.at /\ d.since = c.since
    BY <1>2, <1>4 DEF Call
  <2> HIDE DEF d
  <2>3. InOrder(d)
    BY <1>2, <2>2 DEF InOrder, Operations, Steps
  <2>4. HoldsCandidate(d) /\ HoldsRow(d) /\ HasConsidered(d) /\ IsGrounded(d)
    BY <1>2, <2>2 DEF HoldsCandidate, HoldsRow, HasConsidered, IsGrounded
  <2>5. Len(permissions) = c.since.grants => id \notin c.since.barred
    <3>1. Right[c.op] = "read"
      BY <1>2 DEF Right
    <3>2. SameButState(memory_events[id], memory_events[id])
      BY DEF SameButState, SameParts
    <3>3. QED
      BY <1>2, <1>5, <3>1, <3>2, CheckedIsNotBarred
  <2>6. d.left \cup d.kept \cup d.denied \subseteq EventIds
    BY <1>2, <1>4, <2>2 DEF CallOK, RefersToStored
  <2>7. Len(permissions) = c.since.grants => d.kept \cap c.since.barred = {}
    BY <1>2, <2>2, <2>5 DEF CallOK, WithinRights
  <2>8. CallOK(d)
    BY <1>2, <2>2, <2>3, <2>4, <2>6, <2>7, AdvancedOK
  <2>9. QED
    BY <1>2, <2>1, <2>8, StillStep DEF ThreadStepOK
<1>6. CASE ~CanAccess(permissions, c.caller, "read", memory_events[id], c.at)
  <2> DEFINE d == [c EXCEPT !.left = c.left \ {id}, !.denied = c.denied \cup {id}]
  <2>1. Set(t, d)
    BY <1>1, <1>3, <1>6 DEF SearchProject
  <2>2. /\ d \in Call /\ d.op = c.op /\ d.step = "project"
        /\ d.left = c.left \ {id} /\ d.denied = c.denied \cup {id}
        /\ d.caller = c.caller /\ d.event = c.event /\ d.selector = c.selector
        /\ d.kept = c.kept
        /\ d.related = c.related /\ d.at = c.at /\ d.since = c.since
    BY <1>2, <1>4 DEF Call
  <2> HIDE DEF d
  <2>3. InOrder(d)
    BY <1>2, <2>2 DEF InOrder, Operations, Steps
  <2>4. HoldsCandidate(d) /\ HoldsRow(d) /\ HasConsidered(d) /\ IsGrounded(d)
    BY <1>2, <2>2 DEF HoldsCandidate, HoldsRow, HasConsidered, IsGrounded
  <2>5. d.left \cup d.kept \cup d.denied \subseteq EventIds
    BY <1>2, <1>4, <2>2 DEF CallOK, RefersToStored
  <2>6. CallOK(d)
    BY <1>2, <2>2, <2>3, <2>4, <2>5, AdvancedOK DEF CallOK, WithinRights
  <2>7. QED
    BY <1>2, <2>1, <2>6, StillStep DEF ThreadStepOK
<1>7. QED
  BY <1>5, <1>6

LEMMA SearchDenyStep ==
    ASSUME StoreOK, NEW t \in Thread, CallOK(call[t]), SearchDeny(t)
    PROVE  ThreadStepOK(t)
<1>1. PICK c : c = call[t]
  OBVIOUS
<1>2. /\ CallOK(c) /\ c \in Call /\ c.op \in {"search", "context"}
      /\ c.step = "project" /\ c.denied # {} /\ c.caller \in Caller
  BY <1>1 DEF SearchDeny, At, CallOK, InOrder
<1>3. PICK id : id = First(c.denied)
  OBVIOUS
<1>4. id \in Nat
  <2>1. c.denied \in SUBSET Nat
    BY <1>2 DEF Call
  <2>2. QED
    BY <1>2, <1>3, <2>1, FirstIsLeast
<1> DEFINE d == [c EXCEPT !.denied = c.denied \ {id}]
<1>5. Set(t, d) /\ Deny("read", c.caller, id) /\ "read" \in AuditOperation
  BY <1>1, <1>3 DEF SearchDeny, AuditOperation
<1>6. StoreOK' /\ StoreGrows
  BY <1>2, <1>4, <1>5, AuditStep DEF Deny
<1>7. /\ d \in Call /\ d.op = c.op /\ d.step = "project"
      /\ d.left = c.left /\ d.denied = c.denied \ {id}
      /\ d.caller = c.caller /\ d.event = c.event /\ d.selector = c.selector
      /\ d.kept = c.kept
      /\ d.related = c.related /\ d.at = c.at /\ d.since = c.since
  BY <1>2 DEF Call
<1> HIDE DEF d
<1>8. InOrder(d)
  BY <1>2, <1>7 DEF InOrder, Operations, Steps
<1>9. HoldsCandidate(d) /\ HoldsRow(d) /\ HasConsidered(d) /\ IsGrounded(d)
  BY <1>2, <1>7 DEF HoldsCandidate, HoldsRow, HasConsidered, IsGrounded
<1>10. d.left \cup d.kept \cup d.denied \subseteq EventIds
  BY <1>2, <1>7 DEF CallOK, RefersToStored
<1>11. CallOK(d)
  BY <1>2, <1>7, <1>8, <1>9, <1>10, AdvancedOK DEF CallOK, WithinRights
<1>12. QED
  BY <1>5, <1>6, <1>11 DEF ThreadStepOK

LEMMA SearchProjectedStep ==
    ASSUME StoreOK, NEW t \in Thread, CallOK(call[t]), SearchProjected(t)
    PROVE  ThreadStepOK(t)
<1>1. PICK c : c = call[t]
  OBVIOUS
<1>2. /\ CallOK(c) /\ c.op \in {"search", "context"} /\ UNCHANGED vars
      /\ Set(t, [c EXCEPT !.step = "answer"])
  BY <1>1 DEF SearchProjected, At, StoreUnchanged
<1>3. "answer" \in Steps[c.op] \cup {"return"}
  BY <1>2 DEF Steps
<1>4. CallOK([c EXCEPT !.step = "answer"])
  BY <1>2, <1>3, NextStepOK
<1>5. QED
  BY <1>2, <1>4, StillStep DEF ThreadStepOK

LEMMA SearchAnswerStep ==
    ASSUME StoreOK, NEW t \in Thread, CallOK(call[t]), NEW selected,
           SearchAnswer(t, selected)
    PROVE  ThreadStepOK(t)
<1>1. PICK c : c = call[t]
  OBVIOUS
<1>2. /\ CallOK(c) /\ c \in Call /\ c.op \in {"search", "context"}
      /\ c.step = "answer" /\ c.caller \in Caller /\ selected \subseteq c.kept
      /\ c.kept \subseteq EventIds
      /\ Audit("read", c.caller, "allowed", selected)
      /\ UNCHANGED <<memory_events, permissions, tombstones, relation_edges, now>>
  BY <1>1 DEF SearchAnswer, At, CallOK, InOrder, RefersToStored
<1>3. selected \in SUBSET Nat
  BY <1>2 DEF Call
<1>4. StoreOK' /\ StoreGrows
  <2>1. "read" \in AuditOperation
    BY DEF AuditOperation
  <2>2. QED
    BY <1>2, <1>3, <2>1, AuditStep
<1>5. PICK step : step = IF c.op = "context" THEN "assemble" ELSE "return"
  OBVIOUS
<1> DEFINE d == [c EXCEPT !.step = step, !.kept = selected]
<1>6. Set(t, d)
  BY <1>1, <1>5 DEF SearchAnswer
<1>7. /\ d \in Call /\ d.op = c.op /\ d.step = step /\ d.left = c.left
      /\ d.kept = selected
      /\ d.caller = c.caller /\ d.event = c.event /\ d.selector = c.selector
      /\ d.denied = c.denied
      /\ d.related = c.related /\ d.at = c.at /\ d.since = c.since
  BY <1>2, <1>3, <1>5 DEF Call
<1> HIDE DEF d
<1>8. InOrder(d)
  BY <1>2, <1>5, <1>7 DEF InOrder, Operations, Steps
<1>9. HoldsCandidate(d) /\ HoldsRow(d) /\ HasConsidered(d) /\ IsGrounded(d)
  BY <1>2, <1>7 DEF HoldsCandidate, HoldsRow, HasConsidered, IsGrounded
<1>10. d.left \cup d.kept \cup d.denied \subseteq EventIds
  BY <1>2, <1>7 DEF CallOK, RefersToStored
<1>11. Len(permissions) = c.since.grants => d.kept \cap c.since.barred = {}
  BY <1>2, <1>7 DEF CallOK, WithinRights
<1>12. CallOK(d)
  BY <1>2, <1>7, <1>8, <1>9, <1>10, <1>11, AdvancedOK
<1>13. QED
  BY <1>4, <1>6, <1>12 DEF ThreadStepOK

LEMMA ContextAssembleStep ==
    ASSUME StoreOK, NEW t \in Thread, CallOK(call[t]), NEW snippets,
           ContextAssemble(t, snippets)
    PROVE  ThreadStepOK(t)
<1>1. PICK c : c = call[t]
  OBVIOUS
<1>2. PICK evidence : evidence = snippets \cup
          UNION {memory_events[id].derived_from : id \in snippets}
  OBVIOUS
<1>3. /\ CallOK(c) /\ c \in Call /\ c.op = "context"
      /\ c.step = "assemble" /\ c.caller \in Caller /\ snippets \subseteq c.kept
      /\ c.kept \subseteq EventIds
      /\ Audit("context_build", c.caller, "allowed", evidence)
      /\ UNCHANGED <<memory_events, permissions, tombstones, relation_edges, now>>
  BY <1>1, <1>2 DEF ContextAssemble, At, CallOK, InOrder, RefersToStored
<1>4. evidence \subseteq Nat /\ EventIds \subseteq Nat
  <2>1. \A id \in EventIds : id \in Nat /\ memory_events[id] \in MemoryEvent
    BY ElementOfSeq, LenProperties DEF StoreOK, TypeOK, EventIds
  <2>2. \A id \in EventIds : memory_events[id].derived_from \subseteq Nat
    BY <2>1 DEF MemoryEvent
  <2>3. QED
    BY <1>2, <1>3, <2>1, <2>2
<1>5. StoreOK' /\ StoreGrows
  <2>1. "context_build" \in AuditOperation /\ evidence \in SUBSET Nat
    BY <1>4 DEF AuditOperation
  <2>2. QED
    BY <1>3, <2>1, AuditStep
<1> DEFINE d == [[c EXCEPT !.step = "return"] EXCEPT !.kept = snippets,
                                                     !.related = evidence]
<1>6. Set(t, d)
  BY <1>1, <1>2 DEF ContextAssemble, Finished
<1>7. /\ d \in Call /\ d.op = c.op /\ d.step = "return" /\ d.left = c.left
      /\ d.kept = snippets /\ d.related = evidence
      /\ d.caller = c.caller /\ d.event = c.event /\ d.selector = c.selector
      /\ d.denied = c.denied /\ d.at = c.at /\ d.since = c.since
  BY <1>3, <1>4 DEF Call
<1> HIDE DEF d
<1>8. InOrder(d)
  BY <1>3, <1>7 DEF InOrder, Operations, Steps
<1>9. HoldsCandidate(d) /\ HoldsRow(d) /\ HasConsidered(d) /\ IsGrounded(d)
  BY <1>3, <1>7 DEF HoldsCandidate, HoldsRow, HasConsidered, IsGrounded
<1>10. d.left \cup d.kept \cup d.denied \subseteq EventIds
  BY <1>3, <1>4, <1>7 DEF CallOK, RefersToStored
<1>11. Len(permissions) = c.since.grants => d.kept \cap c.since.barred = {}
  BY <1>3, <1>7 DEF CallOK, WithinRights
<1>12. CallOK(d)
  BY <1>3, <1>7, <1>8, <1>9, <1>10, <1>11, AdvancedOK
<1>13. QED
  BY <1>5, <1>6, <1>12 DEF ThreadStepOK

-----------------------------------------------------------------------------
(* The steps of explain.                                                   *)

LEMMA ExplainCheckStep ==
    ASSUME StoreOK, NEW t \in Thread, CallOK(call[t]), ExplainCheck(t)
    PROVE  ThreadStepOK(t)
<1>1. PICK c : c = call[t]
  OBVIOUS
<1>2. /\ CallOK(c) /\ c \in Call /\ c.op = "explain" /\ c.step = "check"
      /\ c.caller \in Caller
  BY <1>1 DEF ExplainCheck, At, CallOK, InOrder
<1>3. PICK id : id = First(c.left)
  OBVIOUS
<1>4. /\ c.left = {id} /\ id \in EventIds /\ c.event \in MemoryEvent
      /\ SameRow(c.event, memory_events[id])
      /\ SameButState(c.event, memory_events[id])
      /\ c.event.state = "superseded" => CorrectionsOf(id) # {}
      /\ c.event.state = "quarantined" => HasEvidence(c.event, id)
  BY <1>2, <1>3, RowOfId
<1>5. id \in Nat /\ "read" \in AuditOperation
  BY <1>4, LenProperties DEF StoreOK, TypeOK, EventIds, AuditOperation
<1>6. CASE Allowed(c.caller, "read", c.event)
  <2> DEFINE d == [c EXCEPT !.step = "relate", !.kept = {id}]
  <2>1. /\ Set(t, d)
        /\ Audit("read", c.caller, "allowed", {id})
        /\ UNCHANGED <<memory_events, permissions, tombstones, relation_edges, now>>
    BY <1>1, <1>3, <1>6 DEF ExplainCheck
  <2>2. StoreOK' /\ StoreGrows
    BY <1>2, <1>5, <2>1, AuditStep
  <2>3. /\ d \in Call /\ d.op = "explain" /\ d.step = "relate" /\ d.kept = {id}
        /\ d.caller = c.caller /\ d.event = c.event /\ d.selector = c.selector
        /\ d.left = c.left /\ d.denied = c.denied
        /\ d.related = c.related /\ d.at = c.at /\ d.since = c.since
    BY <1>2, <1>5 DEF Call
  <2> HIDE DEF d
  <2>4. InOrder(d)
    BY <1>2, <2>3 DEF InOrder, Operations, Steps
  <2>5. HoldsCandidate(d) /\ HasConsidered(d) /\ IsGrounded(d)
    BY <2>3 DEF HoldsCandidate, HasConsidered, IsGrounded
  <2>6. HoldsRow(d)
    BY <1>4, <2>3 DEF HoldsRow
  <2>7. Len(permissions) = c.since.grants => id \notin c.since.barred
    <3>1. Right[c.op] = "read"
      BY <1>2 DEF Right
    <3>2. QED
      BY <1>2, <1>4, <1>6, <3>1, CheckedIsNotBarred DEF Allowed
  <2>8. d.left \cup d.kept \cup d.denied \subseteq EventIds
    BY <1>2, <1>4, <2>3 DEF CallOK, RefersToStored
  <2>9. CallOK(d)
    BY <1>2, <2>3, <2>4, <2>5, <2>6, <2>7, <2>8, AdvancedOK
  <2>10. QED
    BY <2>1, <2>2, <2>9 DEF ThreadStepOK
<1>7. CASE ~Allowed(c.caller, "read", c.event)
  <2>1. Refuse(t, "read", c.caller, id)
    BY <1>1, <1>3, <1>7 DEF ExplainCheck
  <2>2. QED
    BY <1>2, <1>5, <2>1, RefuseStep
<1>8. QED
  BY <1>6, <1>7

LEMMA ExplainRelateStep ==
    ASSUME StoreOK, NEW t \in Thread, CallOK(call[t]), ExplainRelate(t)
    PROVE  ThreadStepOK(t)
<1>1. PICK c : c = call[t]
  OBVIOUS
<1>2. /\ CallOK(c) /\ c \in Call /\ c.op = "explain" /\ c.step = "relate"
      /\ c.caller \in Caller /\ UNCHANGED vars
  BY <1>1 DEF ExplainRelate, At, CallOK, InOrder, StoreUnchanged
<1>3. PICK id : id = First(c.kept)
  OBVIOUS
<1>4. /\ c.kept = {id} /\ id \in EventIds /\ c.event \in MemoryEvent
      /\ SameRow(c.event, memory_events[id])
      /\ SameButState(c.event, memory_events[id])
      /\ c.event.state = "superseded" => CorrectionsOf(id) # {}
      /\ c.event.state = "quarantined" => HasEvidence(c.event, id)
  BY <1>2, <1>3, RowOfId
<1>5. PICK related : related = Related(c.event, id)
  OBVIOUS
<1>6. EventIds = 1 .. Len(memory_events) /\ Len(memory_events) \in Nat
  BY LenProperties DEF StoreOK, TypeOK, EventIds
<1>7. c.event.parents \cup c.event.supersedes \subseteq Nat
  BY <1>4 DEF MemoryEvent
<1>8. /\ related \subseteq Nat
      /\ c.event.state = "superseded" => related \cap CorrectionsOf(id) # {}
      /\ c.event.state = "active" => related = c.event.supersedes
      /\ c.event.state = "quarantined" => related = c.event.parents
  <2>1. CASE c.event.state = "superseded"
    <3>1. related = EventsSuperseding(id)
      BY <1>5, <2>1 DEF Related
    <3>2. CorrectionsOf(id) \subseteq EventsSuperseding(id)
      BY <1>4 DEF StoreOK, SupersessionIsLinked, EventsSuperseding, CorrectionsOf
    <3>3. EventsSuperseding(id) \subseteq EventIds
      BY DEF EventsSuperseding
    <3>4. QED
      BY <1>4, <1>6, <2>1, <3>1, <3>2, <3>3
  <2>2. CASE c.event.state # "superseded"
    <3>1. /\ related \in {c.event.parents, {}, c.event.supersedes}
          /\ c.event.state = "active" => related = c.event.supersedes
          /\ c.event.state = "quarantined" => related = c.event.parents
      BY <1>5, <2>2 DEF Related
    <3>2. QED
      BY <1>7, <2>2, <3>1
  <2>3. QED
    BY <2>1, <2>2
<1> DEFINE d == [[c EXCEPT !.step = "return"] EXCEPT !.related = related]
<1>9. Set(t, d) /\ related \in SUBSET Nat
  BY <1>1, <1>3, <1>5, <1>6, <1>8 DEF ExplainRelate, Finished
<1>10. /\ d \in Call /\ d.op = "explain" /\ d.step = "return" /\ d.kept = c.kept
       /\ d.caller = c.caller /\ d.event = c.event /\ d.selector = c.selector
       /\ d.left = c.left /\ d.denied = c.denied
       /\ d.related = related /\ d.at = c.at /\ d.since = c.since
  BY <1>2, <1>9 DEF Call
<1> HIDE DEF d
<1>11. InOrder(d)
  BY <1>2, <1>10 DEF InOrder, Operations, Steps
<1>12. HoldsCandidate(d) /\ HasConsidered(d)
  BY <1>10 DEF HoldsCandidate, HasConsidered
<1>13. HoldsRow(d)
  BY <1>4, <1>10 DEF HoldsRow
<1>14. IsGrounded(d)
  BY <1>3, <1>8, <1>10 DEF IsGrounded
<1>15. d.left \cup d.kept \cup d.denied \subseteq EventIds
  BY <1>2, <1>8, <1>10 DEF CallOK, RefersToStored
<1>16. CallOK(d)
  BY <1>2, <1>10, <1>11, <1>12, <1>13, <1>14, <1>15, AdvancedOK
  DEF CallOK, WithinRights
<1>17. QED
  BY <1>2, <1>9, <1>16, StillStep DEF ThreadStepOK

-----------------------------------------------------------------------------
(* All steps together.                                                     *)

LEMMA ContinueStep ==
    ASSUME StoreOK, NEW t \in Thread, CallOK(call[t]), Continue(t)
    PROVE  ThreadStepOK(t)
<1>1. CASE RecordDedupe(t) \/ RecordValidate(t) \/ RecordInsert(t)
  BY <1>1, RecordDedupeStep, RecordValidateStep, RecordInsertStep
<1>2. CASE CorrectCheck(t) \/ \E patch \in Patches : CorrectWrite(t, patch)
  BY <1>2, CorrectCheckStep, CorrectWriteStep
<1>3. CASE DeleteCheck(t) \/ DeleteChecked(t) \/ DeleteWrite(t)
  BY <1>3, DeleteCheckStep, DeleteCheckedStep, DeleteWriteStep
<1>4. CASE SearchProject(t) \/ SearchDeny(t) \/ SearchProjected(t)
  BY <1>4, SearchProjectStep, SearchDenyStep, SearchProjectedStep
<1>5. CASE \E ids \in SUBSET call[t].kept :
               SearchAnswer(t, ids) \/ ContextAssemble(t, ids)
  BY <1>5, SearchAnswerStep, ContextAssembleStep
<1>6. CASE ExplainCheck(t) \/ ExplainRelate(t)
  BY <1>6, ExplainCheckStep, ExplainRelateStep
<1>7. CASE Return(t)
  BY <1>7, StillStep, IdleOK DEF Return, StoreUnchanged, ThreadStepOK
<1>8. QED
  BY <1>1, <1>2, <1>3, <1>4, <1>5, <1>6, <1>7 DEF Continue

LEMMA AtomicStep ==
    ASSUME StoreOK, Atomic
    PROVE  StoreOK' /\ StoreGrows
<1>1. TypeOK
  BY DEF StoreOK
<1>2. ASSUME NEW caller \in Caller, NEW scope \in Scopes, NEW duration \in Durations,
             Grant(caller, scope, duration)
      PROVE  StoreOK' /\ StoreGrows
  <2>1. TypeOK'
    BY <1>1, <1>2, GrantTyped
  <2>2. QuietStep /\ PermissionStep
    <3>1. /\ UNCHANGED <<memory_events, tombstones, relation_edges>>
          /\ audit_log \subseteq audit_log' /\ UpdatesKept
      BY <1>2, OtherAudit DEF Grant
    <3>2. QED
      BY <1>2, <3>1 DEF QuietStep, PermissionStep
  <2>3. QED
    BY <2>1, <2>2, QuietStoreStep
<1>3. ASSUME NEW grant \in DOMAIN permissions, Revoke(grant)
      PROVE  StoreOK' /\ StoreGrows
  <2>1. TypeOK'
    BY <1>1, <1>3, RevokeTyped
  <2>2. QuietStep /\ PermissionStep
    <3>1. /\ UNCHANGED <<memory_events, tombstones, relation_edges>>
          /\ audit_log \subseteq audit_log' /\ UpdatesKept
      BY <1>3, OtherAudit DEF Revoke
    <3>2. QED
      BY <1>3, <3>1 DEF QuietStep, PermissionStep
  <2>3. QED
    BY <2>1, <2>2, QuietStoreStep
<1>4. CASE RevokeUnknown
  <2>1. /\ "revoke" \in AuditOperation /\ {} \in SUBSET Nat
        /\ Audit("revoke", System, "allowed", {})
        /\ UNCHANGED <<memory_events, permissions, tombstones, relation_edges, now>>
    BY <1>4 DEF RevokeUnknown, AuditOperation
  <2>2. QED
    BY <2>1, AuditStep
<1>5. CASE Tick
  <2>1. TypeOK'
    BY <1>1, <1>5 DEF Tick, TypeOK
  <2>2. QuietStep /\ PermissionStep
    BY <1>5 DEF Tick, QuietStep, UpdatesKept, AllowedRecord, PermissionStep
  <2>3. QED
    BY <2>1, <2>2, QuietStoreStep
<1>6. QED
  BY <1>2, <1>3, <1>4, <1>5 DEF Atomic

LEMMA ServiceInitially ==
    ASSUME CInit
    PROVE  ServiceInvariant
<1>1. /\ memory_events = <<>> /\ permissions = <<>> /\ tombstones = {}
      /\ Init /\ call = [t \in Thread |-> Idle] /\ begun = 0
  BY DEF CInit, Init
<1>2. TypeOK
  BY <1>1, InitTyped
<1>3. EventIds = {} /\ DOMAIN permissions = {}
  BY <1>1, EmptySeq DEF EventIds
<1>4. StoreOK
  <2>1. UpdatesNameEvents /\ SupersessionIsLinked /\ QuarantineHasEvidence
    BY <1>1, <1>3, InitLinked DEF QuarantineHasEvidence
  <2>2. DeletionIsRepresented /\ ChangesAreAudited /\ GrantsArePast
    BY <1>1, <1>3
    DEF DeletionIsRepresented, ChangesAreAudited, Tombstoned, GrantsArePast
  <2>3. QED
    BY <1>2, <2>1, <2>2 DEF StoreOK
<1>5. CallOK(Idle) /\ Idle \in Call
  BY <1>4, IdleOK DEF CallOK
<1>6. QED
  BY <1>1, <1>4, <1>5, ConcurrentServiceAssumption DEF ServiceInvariant

(* A step of a thread leaves all calls in order: its own, and, because the *)
(* store only grows, those of the others.                                  *)
LEMMA ThreadKeepsInvariant ==
    ASSUME ServiceInvariant, NEW t \in Thread, ThreadStepOK(t),
           begun' \in 0 .. MaxCalls
    PROVE  ServiceInvariant'
<1>1. StoreOK /\ StoreOK' /\ StoreGrows /\ TypeOK'
  BY DEF ServiceInvariant, ThreadStepOK, StoreOK
<1>2. PICK d : CallOK(d) /\ call' = [call EXCEPT ![t] = d]
  BY DEF ThreadStepOK, Set
<1>3. CallOK(d)'
  BY <1>1, <1>2, CallsAreUndisturbed
<1>4. call' \in [Thread -> Call] /\ call'[t] = d
  BY <1>2 DEF ServiceInvariant, CallOK
<1>5. ASSUME NEW other \in Thread \ {t} PROVE CallOK(call[other])'
  <2>1. PICK c : c = call[other]
    OBVIOUS
  <2>2. CallOK(c)
    BY <2>1 DEF ServiceInvariant
  <2>3. CallOK(c)'
    BY <1>1, <2>2, CallsAreUndisturbed
  <2>4. call'[other] = c
    BY <1>2, <2>1 DEF ServiceInvariant
  <2>5. QED
    BY <2>3, <2>4
<1>6. \A u \in Thread : CallOK(call[u])'
  BY <1>3, <1>4, <1>5
<1>7. QED
  BY <1>1, <1>4, <1>6 DEF ServiceInvariant

(* What is one step of the store, or no step at all, disturbs no call.     *)
LEMMA StoreKeepsInvariant ==
    ASSUME ServiceInvariant, StoreOK', StoreGrows, UNCHANGED <<call, begun>>
    PROVE  ServiceInvariant'
<1>1. ASSUME NEW t \in Thread PROVE CallOK(call[t])'
  <2>1. PICK c : c = call[t]
    OBVIOUS
  <2>2. CallOK(c) /\ StoreOK /\ TypeOK'
    BY <2>1 DEF ServiceInvariant, StoreOK
  <2>3. CallOK(c)'
    BY <2>2, CallsAreUndisturbed
  <2>4. call'[t] = c
    BY <2>1
  <2>5. QED
    BY <2>3, <2>4
<1>2. QED
  BY <1>1 DEF ServiceInvariant

(***************************************************************************)
(* However the steps of the calls interleave, the store stays in order and *)
(* every call may rely on what it has read: the inductive invariant.       *)
(***************************************************************************)
THEOREM ServiceInvariantHolds == CSpec => []ServiceInvariant
<1>1. CInit => ServiceInvariant
  BY ServiceInitially
<1>2. ServiceInvariant /\ [CNext]_cvars => ServiceInvariant'
  <2> SUFFICES ASSUME ServiceInvariant, [CNext]_cvars
               PROVE  ServiceInvariant'
    OBVIOUS
  <2>1. /\ StoreOK /\ begun \in 0 .. MaxCalls /\ MaxCalls \in Nat
        /\ \A t \in Thread : CallOK(call[t])
    BY ConcurrentServiceAssumption DEF ServiceInvariant
  <2>2. ASSUME NEW t \in Thread, Begin(t), begun < MaxCalls, begun' = begun + 1
        PROVE  ServiceInvariant'
    <3>1. ThreadStepOK(t)
      BY <2>1, <2>2, BeginStep
    <3>2. begun' \in 0 .. MaxCalls
      BY <2>1, <2>2
    <3>3. QED
      BY <3>1, <3>2, ThreadKeepsInvariant
  <2>3. ASSUME NEW t \in Thread, Continue(t), UNCHANGED begun
        PROVE  ServiceInvariant'
    <3>1. ThreadStepOK(t)
      BY <2>1, <2>3, ContinueStep
    <3>2. begun' \in 0 .. MaxCalls
      BY <2>1, <2>3
    <3>3. QED
      BY <3>1, <3>2, ThreadKeepsInvariant
  <2>4. CASE Atomic /\ UNCHANGED <<call, begun>>
    BY <2>1, <2>4, AtomicStep, StoreKeepsInvariant
  <2>5. CASE UNCHANGED cvars
    <3>1. UNCHANGED vars /\ UNCHANGED <<call, begun>>
      BY <2>5 DEF cvars
    <3>2. QED
      BY <2>1, <3>1, StillStep, StoreKeepsInvariant
  <2>6. QED
    BY <2>2, <2>3, <2>4, <2>5 DEF CNext
<1>3. QED
  BY <1>1, <1>2, PTL DEF CSpec

-----------------------------------------------------------------------------
(* What follows from the inductive invariant.                              *)

(* Everything a call holds exists: the ids it was answered and the state   *)
(* it remembers are never ahead of the store.                              *)
THEOREM CallsTyped == CSpec => []CallsTypeOK
<1>1. ServiceInvariant => CallsTypeOK
  <2> SUFFICES ASSUME ServiceInvariant PROVE CallsTypeOK
    OBVIOUS
  <2>1. TypeOK /\ begun \in 0 .. MaxCalls
    BY DEF ServiceInvariant, StoreOK
  <2>2. ASSUME NEW t \in Thread
        PROVE  /\ \/ call[t].op = "none" /\ call[t].step = "idle"
                  \/ /\ call[t].op \in Operations
                     /\ call[t].step \in Steps[call[t].op] \cup {"return"}
               /\ call[t].event \in MemoryEvent \cup {Nothing}
               /\ call[t].left \cup call[t].kept \cup call[t].denied \subseteq EventIds
               /\ call[t].related \subseteq Nat
               /\ call[t].since.events \in 0 .. Len(memory_events)
               /\ call[t].since.grants \in 0 .. Len(permissions)
    <3>1. PICK c : c = call[t]
      OBVIOUS
    <3>2. CallOK(c) /\ c \in Call /\ InOrder(c) /\ RefersToStored(c)
      BY <3>1 DEF ServiceInvariant, CallOK
    <3>3. /\ c.event \in MemoryEvent \cup {Nothing} /\ c.related \subseteq Nat
          /\ c.since.events \in Nat /\ c.since.grants \in Nat
      BY <3>2 DEF Call
    <3>4. Len(memory_events) \in Nat /\ Len(permissions) \in Nat
      BY <2>1, LenProperties DEF TypeOK
    <3>5. /\ c.since.events \in 0 .. Len(memory_events)
          /\ c.since.grants \in 0 .. Len(permissions)
      BY <3>2, <3>3, <3>4 DEF RefersToStored
    <3>6. QED
      BY <3>1, <3>2, <3>3, <3>5 DEF InOrder, RefersToStored
  <2>3. QED
    BY <2>1, <2>2 DEF CallsTypeOK
<1>2. QED
  BY <1>1, ServiceInvariantHolds, PTL

(***************************************************************************)
(* Nobody acts beyond their rights however checks and changes interleave:  *)
(* what a call has corrected, deleted, explained or returned is nothing    *)
(* its caller was barred from when the call began, unless a grant was given*)
(* while it ran.                                                           *)
(***************************************************************************)
THEOREM RightsRespected == CSpec => []ActsWithinRights
<1>1. ServiceInvariant => ActsWithinRights
  <2> SUFFICES ASSUME ServiceInvariant, NEW t \in Thread,
                      call[t].step = "return",
                      call[t].kept \cap call[t].since.barred # {}
               PROVE  Len(permissions) > call[t].since.grants
    BY DEF ActsWithinRights
  <2>1. PICK c : c = call[t]
    OBVIOUS
  <2>2. CallOK(c) /\ c \in Call
    BY <2>1 DEF ServiceInvariant, CallOK
  <2>3. c.op # "none"
    BY <2>1, <2>2 DEF CallOK, InOrder, Operations, Steps
  <2>4. Len(permissions) # c.since.grants
    BY <2>1, <2>2, <2>3 DEF CallOK, WithinRights
  <2>5. c.since.grants <= Len(permissions)
    BY <2>2 DEF CallOK, RefersToStored
  <2>6. c.since.grants \in Nat /\ Len(permissions) \in Nat
    BY <2>2, LenProperties DEF Call, ServiceInvariant, StoreOK, TypeOK
  <2>7. QED
    BY <2>1, <2>4, <2>5, <2>6
<1>2. QED
  BY <1>1, ServiceInvariantHolds, PTL

(***************************************************************************)
(* An explanation is never empty-handed, although explain looks up what it *)
(* cites later than the event: a superseded event's answer has a correction*)
(* of it, a correction's is the event it corrects, and a quarantined       *)
(* event's the earlier one it contradicts.                                 *)
(***************************************************************************)
THEOREM ExplanationGrounded == CSpec => []ExplanationIsGrounded
<1>1. ServiceInvariant => ExplanationIsGrounded
  <2> SUFFICES ASSUME ServiceInvariant, NEW t \in Thread,
                      call[t].op = "explain", call[t].step = "return",
                      NEW id, id = First(call[t].kept)
               PROVE  /\ call[t].event.state = "superseded" =>
                             call[t].related \cap CorrectionsOf(id) # {}
                      /\ (call[t].event.state = "active" /\ IsCorrection(id)) =>
                             \E old \in EventIds :
                                 call[t].related = {old} /\ id \in CorrectionsOf(old)
                      /\ call[t].event.state = "quarantined" =>
                             \E evidence \in 1 .. (id - 1) :
                                 /\ call[t].related = {evidence}
                                 /\ IsContradiction(memory_events[evidence],
                                                     memory_events[id])
    BY DEF ExplanationIsGrounded
  <2>1. PICK c : c = call[t]
    OBVIOUS
  <2>2. /\ CallOK(c) /\ StoreOK /\ c.op = "explain" /\ c.step = "return"
        /\ id = First(c.kept)
    BY <2>1 DEF ServiceInvariant
  <2>3. /\ id \in EventIds /\ SameButState(c.event, memory_events[id])
        /\ c.event.state = "quarantined" => HasEvidence(c.event, id)
    BY <2>2, RowOfId
  <2>4. /\ c.event.state = "superseded" => c.related \cap CorrectionsOf(id) # {}
        /\ c.event.state = "active" => c.related = c.event.supersedes
        /\ c.event.state = "quarantined" => c.related = c.event.parents
    BY <2>2 DEF CallOK, IsGrounded
  <2>5. ASSUME c.event.state = "active", IsCorrection(id)
        PROVE  \E old \in EventIds : c.related = {old} /\ id \in CorrectionsOf(old)
    <3>1. PICK old \in 1 .. (id - 1) : id \in CorrectionsOf(old)
      BY <2>5 DEF IsCorrection
    <3>2. old \in EventIds
      BY <2>2, <2>3, LenProperties DEF StoreOK, TypeOK, EventIds
    <3>3. memory_events[id].supersedes = {old}
      BY <2>2, <3>1, <3>2 DEF StoreOK, SupersessionIsLinked
    <3>4. QED
      BY <2>3, <2>4, <2>5, <3>1, <3>2, <3>3 DEF SameButState, SameParts
  <2>6. c.event.state = "quarantined" =>
            \E evidence \in 1 .. (id - 1) :
                /\ c.related = {evidence}
                /\ IsContradiction(memory_events[evidence], memory_events[id])
    BY <2>3, <2>4 DEF HasEvidence
  <2>7. QED
    BY <2>1, <2>4, <2>5, <2>6
<1>2. QED
  BY <1>1, ServiceInvariantHolds, PTL

(***************************************************************************)
(* Only corrections supersede, and a corrected event is never current      *)
(* again, although a correction writes what it read earlier and an event   *)
(* recorded meanwhile may claim any lineage.                               *)
(***************************************************************************)
THEOREM SupersessionLinkedByCalls == CSpec => []SupersessionIsLinked
<1>1. ServiceInvariant => SupersessionIsLinked
  BY DEF ServiceInvariant, StoreOK
<1>2. QED
  BY <1>1, ServiceInvariantHolds, PTL

(***************************************************************************)
(* A deleted event has its tombstone and a tombstoned one is never active, *)
(* whatever other threads did to it between selection and deletion.        *)
(***************************************************************************)
THEOREM DeletionRepresentedByCalls == CSpec => []DeletionIsRepresented
<1>1. ServiceInvariant => DeletionIsRepresented
  BY DEF ServiceInvariant, StoreOK
<1>2. QED
  BY <1>1, ServiceInvariantHolds, PTL

(***************************************************************************)
(* The evidence of a quarantine was read before the event is inserted: it  *)
(* is stored and contradicts it all the same.                              *)
(***************************************************************************)
THEOREM QuarantineEvidencedByCalls == CSpec => []QuarantineHasEvidence
<1>1. ServiceInvariant => QuarantineHasEvidence
  BY DEF ServiceInvariant, StoreOK
<1>2. QED
  BY <1>1, ServiceInvariantHolds, PTL

(***************************************************************************)
(* Every change of the canonical memory is in the audit log, whichever     *)
(* thread made it.                                                         *)
(***************************************************************************)
THEOREM ChangesAuditedByCalls == CSpec => []ChangesAreAudited
<1>1. ServiceInvariant => ChangesAreAudited
  BY DEF ServiceInvariant, StoreOK
<1>2. QED
  BY <1>1, ServiceInvariantHolds, PTL

(***************************************************************************)
(* History is kept by every step of every thread: no row but for its state,*)
(* no audit record, tombstone or revocation is ever removed or rewritten.  *)
(***************************************************************************)
THEOREM HistoryKeptByCalls == CSpec => HistoryIsKept
<1>1. ServiceInvariant /\ [CNext]_cvars => [KeepsHistory]_vars
  <2> SUFFICES ASSUME ServiceInvariant, [CNext]_cvars PROVE [KeepsHistory]_vars
    OBVIOUS
  <2>1. StoreOK /\ \A t \in Thread : CallOK(call[t])
    BY DEF ServiceInvariant
  <2>2. ASSUME NEW t \in Thread, Begin(t) \/ Continue(t) PROVE KeepsHistory
    BY <2>1, <2>2, BeginStep, ContinueStep DEF ThreadStepOK, StoreGrows
  <2>3. CASE Atomic
    BY <2>1, <2>3, AtomicStep DEF StoreGrows
  <2>4. CASE UNCHANGED cvars
    BY <2>4 DEF cvars
  <2>5. QED
    BY <2>2, <2>3, <2>4 DEF CNext
<1>2. QED
  BY <1>1, ServiceInvariantHolds, PTL DEF CSpec, HistoryIsKept

-----------------------------------------------------------------------------
(* What a step of the threads does to the rows.                            *)

(* Only the two transactions that insert add a row.                        *)
LEMMA OnlyInsertingAdds ==
    ASSUME ServiceInvariant, [CNext]_cvars,
           \A t \in Thread : /\ ~RecordInsert(t)
                             /\ \A patch \in Patches : ~CorrectWrite(t, patch)
    PROVE  EventIds' = EventIds
<1>1. CASE memory_events' = memory_events
  BY <1>1 DEF EventIds
<1>2. ASSUME NEW t \in Thread, DeleteWrite(t) PROVE EventIds' = EventIds
  <2>1. TypeOK /\ call[t].kept \in SUBSET EventIds
    BY DEF ServiceInvariant, StoreOK, CallOK, RefersToStored
  <2>2. memory_events' = WithState(memory_events, call[t].kept, "deleted")
    BY <1>2 DEF DeleteWrite
  <2>3. PICK ids \in SUBSET EventIds : ids = call[t].kept
    BY <2>1
  <2>4. QED
    BY <2>1, <2>2, <2>3, DeletedRows DEF RowsAfterDelete
<1>3. ASSUME NEW t \in Thread, Begin(t) PROVE memory_events' = memory_events
  BY <1>3
  DEF Begin, RecordCheck, NotFound, Refuse, Deny, CorrectRead, ExplainRead,
      DeleteQuery, SearchQuery, StoreUnchanged, vars
<1>4. ASSUME NEW t \in Thread, Continue(t)
      PROVE  memory_events' = memory_events \/ DeleteWrite(t)
  <2>1. CASE RecordDedupe(t) \/ RecordValidate(t) \/ CorrectCheck(t) \/ DeleteCheck(t)
    BY <2>1
    DEF RecordDedupe, RecordValidate, CorrectCheck, DeleteCheck, Refuse, Deny,
        StoreUnchanged, vars
  <2>2. CASE \/ DeleteChecked(t) \/ SearchProject(t) \/ SearchDeny(t)
             \/ SearchProjected(t)
    BY <2>2
    DEF DeleteChecked, SearchProject, SearchDeny, SearchProjected, Deny,
        StoreUnchanged, vars
  <2>3. CASE \E ids \in SUBSET call[t].kept :
                 SearchAnswer(t, ids) \/ ContextAssemble(t, ids)
    BY <2>3 DEF SearchAnswer, ContextAssemble
  <2>4. CASE ExplainCheck(t) \/ ExplainRelate(t) \/ Return(t)
    BY <2>4
    DEF ExplainCheck, ExplainRelate, Return, Refuse, Deny, StoreUnchanged, vars
  <2>5. QED
    BY <1>4, <2>1, <2>2, <2>3, <2>4 DEF Continue
<1>5. CASE Atomic
  <2>1. memory_events' = memory_events
    BY <1>5 DEF Atomic, Grant, Revoke, RevokeUnknown, Tick
  <2>2. QED
    BY <1>1, <2>1
<1>6. CASE UNCHANGED cvars
  BY <1>1, <1>6 DEF cvars, vars
<1>7. QED
  BY <1>1, <1>2, <1>3, <1>4, <1>5, <1>6 DEF CNext

(***************************************************************************)
(* record checks first and writes later, and still an event it makes active*)
(* is in conflict only with an active one that was written while the call  *)
(* ran: what was there when it began has been taken into account.          *)
(***************************************************************************)
THEOREM OnlyOverlapConflicts == CSpec => OnlyOverlappingRecordsConflict
<1>1. ServiceInvariant /\ [CNext]_cvars => ConflictsOverlap
  <2> SUFFICES ASSUME ServiceInvariant, [CNext]_cvars,
                      NEW new \in Recorded, memory_events'[new].state = "active",
                      NEW old \in EventIds, memory_events[old].state = "active",
                      Conflict(memory_events[old], memory_events'[new])
               PROVE  \E t \in Thread : /\ call[t].event = memory_events'[new]
                                        /\ old > call[t].since.events
    BY DEF ConflictsOverlap
  <2>1. new \in EventIds' /\ new \notin EventIds /\ ~IsCorrection(new)'
    BY DEF Recorded, EventIds
  <2>2. TypeOK /\ \A t \in Thread : CallOK(call[t])
    BY DEF ServiceInvariant, StoreOK
  <2>3. ASSUME NEW t \in Thread, RecordInsert(t)
        PROVE  call[t].event = memory_events'[new] /\ old > call[t].since.events
    <3>1. PICK c : c = call[t]
      OBVIOUS
    <3>2. /\ CallOK(c) /\ c \in Call /\ c.op = "record" /\ c.step = "insert"
          /\ c.event \in MemoryEvent
          /\ memory_events' = Append(memory_events, c.event)
      BY <2>2, <2>3, <3>1 DEF RecordInsert, At, CallOK, HoldsCandidate
    <3>3. RowsAfterRecord(Len(memory_events) + 1, c.event)
      BY <2>2, <3>2, AppendRows
    <3>4. memory_events'[new] = c.event
      BY <2>1, <3>3 DEF RowsAfterRecord
    <3>5. ~(old <= c.since.events)
      BY <3>2, <3>4 DEF CallOK, HasConsidered, Conflict
    <3>6. old \in Nat /\ c.since.events \in Nat
      BY <2>2, <3>2, LenProperties DEF Call, TypeOK, EventIds
    <3>7. QED
      BY <3>1, <3>4, <3>5, <3>6
  <2>4. ASSUME NEW t \in Thread, NEW patch \in Patches, CorrectWrite(t, patch)
        PROVE  FALSE
    <3>1. PICK c : c = call[t]
      OBVIOUS
    <3>2. CallOK(c) /\ c.op = "correct" /\ c.step = "write" /\ StoreOK
      BY <2>2, <2>4, <3>1 DEF CorrectWrite, At, ServiceInvariant
    <3>3. PICK id : id = First(c.kept)
      OBVIOUS
    <3>4. id \in EventIds /\ c.event \in MemoryEvent
      BY <3>2, <3>3, RowOfId
    <3>5. memory_events' =
              WithState(Append(memory_events, Corrected(c.event, id, patch)),
                        {id}, "superseded")
      BY <2>4, <3>1, <3>3 DEF CorrectWrite
    <3>6. RowsAfterCorrect(id, Len(memory_events) + 1)
      BY <2>2, <3>4, <3>5, SupersedeRows
    <3>7. /\ new = Len(memory_events) + 1 /\ new \in Nat /\ id < new
          /\ id \in Nat \ {0}
      BY <2>1, <2>2, <3>4, <3>6, LenProperties DEF RowsAfterCorrect, TypeOK, EventIds
    <3>8. Audit("update", c.caller, "allowed", {id, new})
      BY <2>4, <3>1, <3>3, <3>7 DEF CorrectWrite
    <3>9. IsCorrection(new)'
      BY <2>1, <3>7, <3>8, CorrectionMade
    <3>10. QED
      BY <2>1, <3>9
  <2>5. QED
    BY <2>1, <2>3, <2>4, OnlyInsertingAdds
<1>2. QED
  BY <1>1, ServiceInvariantHolds, PTL DEF CSpec, OnlyOverlappingRecordsConflict
==============================================================================
