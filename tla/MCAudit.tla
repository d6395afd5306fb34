------------------------------- MODULE MCAudit -------------------------------
\* The nodes that may fail hold a piece of every segment; the spares get one from a repair.
EXTENDS Audit

All == [s \in Segments |-> Nodes]
=============================================================================
