---------------------------- MODULE MemoryMetrics ----------------------------
(***************************************************************************)
(* The lifecycle and audit figures of metrics_snapshot(), read off the     *)
(* state of MemoryService.                                                 *)
(***************************************************************************)
EXTENDS MemoryService

(* The events some allowed record of an operation names.                   *)
AuditedUnder(operation) ==
    UNION {record.affected : record \in
              {r \in audit_log : r.operation = operation /\ r.outcome = "allowed"}}

(* MemoryServiceMetrics._operations_without_audit, as the events it counts:*)
(* rows that no write record names and tombstones no delete record names.  *)
MissingWrites == EventIds \ AuditedUnder("write")

MissingDeletes == Tombstoned \ AuditedUnder("delete")

(***************************************************************************)
(* "Every read, write, correction, deletion ... records", and the snapshot *)
(* reports audit completeness: since every change is audited               *)
(* (ChangesAreAudited), the metric never counts an operation as unaudited. *)
(***************************************************************************)
AuditIsReportedComplete == MissingWrites = {} /\ MissingDeletes = {}
==============================================================================
