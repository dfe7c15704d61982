----------------------------- MODULE MCJobQueue -----------------------------
(***************************************************************************)
(* Instances of JobQueue for TLC.                                          *)
(***************************************************************************)
EXTENDS JobQueue

\* Every job parses a document of its own, from scratch.
OwnDoc == [j \in Jobs |-> j]
AllParse == [j \in Jobs |-> "parse"]
NoParts == {}
AllParts == Jobs

\* One document: a parse followed by reruns of its derived artifacts.
OneDoc == [j \in Jobs |-> 1]
ParseThenChunks == [j \in Jobs |-> IF j = 1 THEN "parse" ELSE "chunks"]
ParseThenEmbeddings == [j \in Jobs |-> IF j = 1 THEN "parse" ELSE "embeddings"]
=============================================================================
