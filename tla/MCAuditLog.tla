----------------------------- MODULE MCAuditLog ------------------------------
\* Events named by the time they were logged at.
EXTENDS AuditLog

MCCreatedAt == [e \in Events |-> e]
=============================================================================
