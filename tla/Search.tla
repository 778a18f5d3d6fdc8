------------------------------- MODULE Search -------------------------------
(***************************************************************************)
(* A search or an answer over the Memories of module Memories: what it     *)
(* ranks is the active rows, as module Retrieval ranks them.               *)
(***************************************************************************)
EXTENDS Memories, Retrieval

\* The numbers of active Memories whose searches and answers are ranked right.
Agreeing == {n \in 0 .. MaxFound : FusionAgreesOn(n)}

\* However many Memories expirations and supersessions leave active, what a search or an
\* answer ranks and pages through is one order that the two channels agree with
\* (search_memories_hybrid, search_memories_explained, search_answer_evidence).
FusionAgrees == Cardinality({m \in Memories : Active(m)}) \in Agreeing
=============================================================================
