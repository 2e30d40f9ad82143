---------------------------- MODULE InputPolicy ----------------------------
(* The normalisation that internal/observer/policy.go applies to inputs and *)
(* to words of a source before they reach an MCP client.                    *)
EXTENDS Integers

CONSTANTS DefaultListLimit, MaxListLimit

ASSUME LimitAssumption ==
    MaxListLimit \in Nat /\ DefaultListLimit \in 1 .. MaxListLimit

(* The limit to apply; 0 stands for the validation error. *)
normalizeListLimit(limit) ==
    IF limit = 0 THEN DefaultListLimit
    ELSE IF limit \in 1 .. MaxListLimit THEN limit ELSE 0

(* Identifiers are modelled by their validity: the pattern rejects the      *)
(* empty one, and "invalid" stands for the others that it rejects.          *)
ValidateIdentifier(id) == id \notin {"", "invalid"}

(* Severities are compared without regard to case; the raw values of the    *)
(* models are in lower case.                                                *)
NormalizeAlertSeverity(severity) ==
    CASE severity = "critical" -> "critical"
      [] severity \in {"warning", "warn"} -> "warning"
      [] severity \in {"info", "informational"} -> "info"
      [] OTHER -> "unknown"

ReasonTable ==
    [DependencyNotReady |-> "dependency-not-ready",
     HealthCheckFailed |-> "health-check-failed",
     ReconciliationFailed |-> "reconciliation-failed",
     BuildFailed |-> "reconciliation-failed",
     ArtifactFailed |-> "artifact-failed",
     AuthenticationFailed |-> "authentication-failed",
     SourceUnavailable |-> "source-unavailable",
     GitOperationFailed |-> "source-unavailable",
     Suspended |-> "suspended"]
NormalizeReconciliationReason(reason) ==
    IF reason \in DOMAIN ReasonTable THEN ReasonTable[reason] ELSE "unknown"

=============================================================================
