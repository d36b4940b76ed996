----------------------- MODULE MCKnowledgeIngestion -----------------------
(***************************************************************************)
(* Small instances of KnowledgeIngestion: a and b have the same content,   *)
(* which fills two batches; junk is rejected by the validator; other has   *)
(* an extension no loader knows.                                           *)
(***************************************************************************)
EXTENDS KnowledgeIngestion, TLC

CONSTANTS a, b, junk, other, text, scrap

MCDocs == [f \in File |-> CASE f \in {a, b} -> <<text>>
                        [] f = junk -> <<scrap>>
                        [] OTHER -> <<>>]

MCBatches == [d \in Doc |-> IF d = text THEN 2 ELSE 1]
=============================================================================
