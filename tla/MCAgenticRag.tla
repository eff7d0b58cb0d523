----------------------------- MODULE MCAgenticRag -----------------------------
(***************************************************************************)
(* An instance of AgenticRag for TLC.                                      *)
(***************************************************************************)
EXTENDS AgenticRag, TLC

\* Two searches, one fusion, and no reranking, as in the BM25 configuration.
SmallBudgets == "retrieval" :> 2 @@ "rerank" :> 0 @@ "fusion" :> 1
===============================================================================
