------------------------------ MODULE MCInputs ------------------------------
(***************************************************************************)
(* What the modules that evaluate functions of the code have in common: an  *)
(* initial state is an input of one of them (topic tells of which), and the *)
(* properties are asked of it once, after the only step.                    *)
(***************************************************************************)
EXTENDS Integers, Sequences, FiniteSets

VARIABLES topic, input, done

Answer == ~done /\ done' = TRUE /\ UNCHANGED <<topic, input>>

Answered(t) == done /\ topic = t

Upto(S, n) == UNION {[1..k -> S] : k \in 0..n}

\* Blocks and chunks of a document, as KnowledgeUnits has them.
BlocksAt(first, last) ==
    {b \in [type : {"text", "table", "image"}, artifact : BOOLEAN, text : BOOLEAN, more : BOOLEAN,
            first : {first}, last : {last}] : (b.artifact => b.text) /\ (b.type = "text" => ~b.more)}
ChunkLists == Upto([blocks : {{1}, {2}, {1, 2}}, vector : BOOLEAN], 2)
=============================================================================
