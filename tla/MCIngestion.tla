---------------------------- MODULE MCIngestion -----------------------------
\* Ingestion on small instances: an empty document and one of two chunks.
EXTENDS Ingestion

MCChunkCount == [v \in Versions |-> IF v = "empty" THEN 0 ELSE 2]
=============================================================================
