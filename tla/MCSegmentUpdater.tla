------------------------- MODULE MCSegmentUpdater -------------------------
(***************************************************************************)
(* Small instances of SegmentUpdater.                                      *)
(***************************************************************************)
EXTENDS SegmentUpdater

\* A schedule of UpdaterUndelete: the delete comes after all the additions and
\* before the last commit, every other commit has a document, and merges end
\* after the delete.
LateDelete ==
    /\ deletes # <<>> => added = MaxDocs
    /\ commits = MaxCommits => deletes # <<>>
    /\ added <= commits + 2
    /\ commits < MaxCommits => commits <= added
    /\ nextSeg > 1 /\ 1 \notin files => commits = MaxCommits
=============================================================================
