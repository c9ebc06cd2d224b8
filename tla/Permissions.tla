----------------------------- MODULE Permissions -----------------------------
(***************************************************************************)
(* Who may do what to a memory event: governance/models.py (scopes and     *)
(* grants), governance/permissions.py (the check) and the query over the   *)
(* permissions table in personal_memory_service/storage.py that narrows    *)
(* the grants the check looks at.                                          *)
(*                                                                         *)
(* Time is a natural number.  An empty set in a scope stands for the empty *)
(* list of the code: that dimension is not restricted.                     *)
(***************************************************************************)
EXTENDS Integers

CONSTANTS
    Caller,      \* the callers that ask for access and hold grants
    App,         \* source applications of memory events
    Entity,      \* entities a memory event mentions
    NoTime       \* the missing bound of a time window (None)

ASSUME NoTimeAssumption == NoTime \notin Int

MemoryLayer == {"working", "episodic", "semantic", "procedural"}

PrivacyLevel == {"sensitive", "personal", "public"}

ProcessingPolicy ==
    {"device_only", "client_encrypted_sync", "private_compute", "cloud_indexable"}

AuditOperation ==
    {"read", "write", "update", "delete", "grant", "revoke", "projection",
     "context_build"}

AnyOperation == "*"

PermissionScope ==
    [operations: SUBSET AuditOperation,
     memory_layers: SUBSET MemoryLayer,
     privacy_levels: SUBSET PrivacyLevel,
     apps: SUBSET App,
     entities: SUBSET Entity,
     time_start: Nat \cup {NoTime},
     time_end: Nat \cup {NoTime},
     processing_policies: SUBSET ProcessingPolicy]

(* A row of the permissions table; the caller and scope are those of a     *)
(* PermissionGrant, operation is the column the table is indexed by.       *)
PermissionGrant ==
    [caller: Caller, scope: PermissionScope, granted_at: Nat, expires_at: Int,
     revoked: BOOLEAN, operation: AuditOperation \cup {AnyOperation}]

(***************************************************************************)
(* The processing policy is not a choice of the caller: the constructor    *)
(* derives it from the privacy level.                                      *)
(***************************************************************************)
DefaultProcessingPolicy(level) ==
    CASE level = "sensitive" -> "device_only"
      [] level = "public" -> "cloud_indexable"
      [] OTHER -> "client_encrypted_sync"

Allows(filter, value) == filter # {} => value \in filter

InWindow(time, start, end) ==
    /\ start # NoTime => start <= time
    /\ end # NoTime => time <= end

(* PermissionService._matches: every restricted dimension has to admit the *)
(* event; entities admit it when one of them is shared.                    *)
Matches(scope, operation, event) ==
    /\ Allows(scope.operations, operation)
    /\ Allows(scope.memory_layers, event.memory_layer)
    /\ Allows(scope.privacy_levels, event.privacy_level)
    /\ Allows(scope.apps, event.source_app)
    /\ scope.entities # {} => scope.entities \cap event.entities # {}
    /\ InWindow(event.valid_at, scope.time_start, scope.time_end)
    /\ Allows(scope.processing_policies,
              DefaultProcessingPolicy(event.privacy_level))

IsActive(grant, at) ==
    /\ ~grant.revoked
    /\ grant.granted_at <= at
    /\ at <= grant.expires_at

(* Mutant: some operation of a scope that names several.                   *)
OperationIndexOfOne(scope) ==
    IF scope.operations # {}
    THEN CHOOSE operation \in AuditOperation : operation \in scope.operations
    ELSE AnyOperation

(* The operation column of a grant: its operation when the scope names     *)
(* exactly one, the wildcard when it names none or several.                *)
OperationIndexValue(scope) ==
    IF \E operation \in AuditOperation : scope.operations = {operation}
    THEN CHOOSE operation \in AuditOperation : scope.operations = {operation}
    ELSE AnyOperation

(* The rows SQLiteMemoryStore.list_active_permission_grants selects.       *)
IsCandidateGrant(grant, caller, operation, at) ==
    /\ grant.caller = caller
    /\ grant.operation = operation \/ grant.operation = AnyOperation
    /\ grant.granted_at <= at
    /\ grant.expires_at >= at
    /\ ~grant.revoked

(* PermissionService.can_access: some row the index query returns is       *)
(* active and its scope matches.                                           *)
CanAccess(permissions, caller, operation, event, at) ==
    \E g \in DOMAIN permissions :
        /\ IsCandidateGrant(permissions[g], caller, operation, at)
        /\ IsActive(permissions[g], at)
        /\ Matches(permissions[g].scope, operation, event)

(***************************************************************************)
(* The reference definition: the caller holds a grant that is in force and *)
(* whose scope admits the operation on the event.  It does not look at the *)
(* operation column; it is also what can_access computes over a store that *)
(* has no list_active_permission_grants.                                   *)
(***************************************************************************)
HoldsGrant(permissions, caller, operation, event, at) ==
    \E g \in DOMAIN permissions :
        /\ permissions[g].caller = caller
        /\ IsActive(permissions[g], at)
        /\ Matches(permissions[g].scope, operation, event)

(* Every row carries the index value of its own scope.                     *)
WellIndexed(permissions) ==
    \A g \in DOMAIN permissions :
        permissions[g].operation = OperationIndexValue(permissions[g].scope)
==============================================================================
