--------------------------- MODULE MCIngestPipeline ---------------------------
EXTENDS IngestPipeline
CONSTANTS likes, posts
MCEventsIn == [s \in Slice |->
  [t \in Times |-> CASE s = posts /\ t = 1 -> 2 [] s = likes /\ t = 2 -> 1 [] OTHER -> 0]]
=============================================================================
