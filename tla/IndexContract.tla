--------------------------- MODULE IndexContract ---------------------------
(***************************************************************************)
(* What an IndexWriter promises its caller (the documentation of           *)
(* add_document, delete_term, commit and rollback in                       *)
(* src/indexer/index_writer.rs): the caller's operations change a working  *)
(* set of documents, a commit makes it what searchers see, and a rollback  *)
(* or a restart goes back to the last commit.  There are no segments, no   *)
(* merges and no files here.                                               *)
(***************************************************************************)
CONSTANT Keys

VARIABLES working,  \* the documents the writer holds
          visible   \* the documents of the last commit

Init == working = {} /\ visible = {}

Add(k) ==
    /\ \E d \in working' : d.key = k /\ d \notin working /\ working' = working \cup {d}
    /\ UNCHANGED visible

\* Only documents added before the delete are affected.
Delete(k) ==
    /\ working' = {d \in working : d.key # k}
    /\ UNCHANGED visible

Clear ==
    /\ working' \subseteq working
    /\ UNCHANGED visible

Commit ==
    /\ visible' = working
    /\ UNCHANGED working

Rollback ==
    /\ working' = visible
    /\ UNCHANGED visible

Next ==
    \/ \E k \in Keys : Add(k) \/ Delete(k)
    \/ Clear \/ Commit \/ Rollback

Spec == Init /\ [][Next]_<<working, visible>>
=============================================================================
