---------------------------- MODULE MCAuditPage ----------------------------
EXTENDS AuditPage

MCSenderOf == [e \in Entries |-> IF e = 2 THEN "bob" ELSE "ada"]
=============================================================================
