----------------------------- MODULE MCSearchIndexer -----------------------------
(* Two changes of one document and an unreadable event, on two pods.              *)
EXTENDS SearchIndexer, TLC

MCEvent == 1 .. 3
MCDocumentOf == [e \in MCEvent |-> "task"]
MCMalformed == {3}
===============================================================================
