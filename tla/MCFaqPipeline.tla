--------------------------- MODULE MCFaqPipeline ----------------------------
\* FaqPipeline on small instances: every FAQ captures the same question, and a
\* long answer has two chunks.
EXTENDS FaqPipeline

MCQuestion == [q \in Faqs |-> "question"]

MCChunkCount == [a \in Answers |-> IF a = "long" THEN 2 ELSE 1]
=============================================================================
