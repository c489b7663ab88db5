-------------------------- MODULE SegmentUpdater --------------------------
(***************************************************************************)
(* One IndexWriter and its segment updater actor (src/indexer/             *)
(* index_writer.rs, segment_updater.rs, segment_updater_actor.rs,          *)
(* segment_manager.rs, commit_dag.rs, delete_queue.rs): documents and      *)
(* deletes, flushes, commits, background and explicit merges, rollback.    *)
(*                                                                         *)
(* Abstractions.  A document is its number, the key a delete names it by   *)
(* and its opstamp.  A segment is the set of its alive documents.  The     *)
(* updater actor runs one handler at a time, so a handler is one action.   *)
(* Two calls reach the registers or meta.json from outside while a handler *)
(* runs: delete_all_documents (MergesDoneCleared: the end of a batch is    *)
(* the only handler that uses the registers more than once while the       *)
(* caller is free) and rollback (LateSave).  The merges themselves run as  *)
(* tasks and only their results, which do not depend on when they run, are *)
(* kept.  The payload of a commit always travels with its opstamp and is   *)
(* left out.  There is one worker.                                         *)
(***************************************************************************)
EXTENDS Naturals, Sequences, FiniteSets, FiniteSetsExt

CONSTANTS Keys,         \* what a delete can name
          MaxDocs,      \* bound: documents added
          MaxDeletes,   \* bound: deletes queued
          MaxCommits,   \* bound: commits prepared
          MaxMerges,    \* bound: merges asked for by the client
          MaxReopens,   \* bound: rollbacks and restarts
          MaxClears,    \* bound: calls of delete_all_documents
          MaxSegments,  \* bound: segments created
          Policy,       \* TRUE: a merge policy proposes merges (not NoMergePolicy)
          EarlyFlush,   \* TRUE: the worker's memory budget can flush a segment
          MayFail,      \* TRUE: a merge task or the write of meta.json can fail
          MayFold       \* TRUE: the index has a shard dictionary, folded in the background

ASSUME SegmentUpdaterBounds ==
    /\ {MaxDocs, MaxDeletes, MaxCommits, MaxMerges, MaxReopens, MaxClears, MaxSegments} \subseteq Nat
    /\ {Policy, EarlyFlush, MayFail, MayFold} \subseteq BOOLEAN

VARIABLES stamp,        \* the Stamper
          openStamp,    \* IndexWriter::committed_opstamp, read at open
          deletes,      \* the delete queue
          workerCursor, \* the worker's DeleteCursor: operations it has passed
          buffer,       \* documents of the segment the worker is writing
          uncommitted,  \* SegmentRegisters::uncommitted
          committed,    \* SegmentRegisters::committed
          merging,      \* SegmentUpdaterState::merging
          batches,      \* merge batches whose tasks run
          pendingFlag,  \* pending_merge_tasks
          meta,         \* meta.json: segments and opstamp
          active,       \* active_index_meta, the updater's copy of it
          late,         \* what killed updaters are about to write to meta.json
          files,        \* segments that have files in the directory
          folding,      \* a dictionary fold runs in the background
          client,       \* what the caller of the IndexWriter is doing
          request,      \* the commit or merge it waits for
          working,      \* history: the documents an ideal writer holds
          visible,      \* history: those of the last commit
          buried,       \* history: those a commit took away
          overwritten,  \* history: a killed updater has written meta.json
          nextSeg, added, commits, merges, reopens, clears  \* numbering, and the bounded counts

registers == <<uncommitted, committed>>
queueVars == <<stamp, deletes>>
workerVars == <<buffer, workerCursor>>
mergeVars == <<merging, batches, pendingFlag>>
metaVars == <<meta, active, late, overwritten>>
diskVars == <<metaVars, files>>
clientVars == <<client, request>>
history == <<working, visible, buried>>
counts == <<added, commits, merges, reopens, clears>>
vars == <<queueVars, openStamp, workerVars, registers, mergeVars, diskVars,
          folding, clientVars, history, nextSeg, counts>>

None == [kind |-> "none"]

Init ==
    /\ stamp = 0 /\ openStamp = 0
    /\ deletes = <<>> /\ workerCursor = 0 /\ buffer = {}
    /\ uncommitted = {} /\ committed = {}
    /\ merging = {} /\ batches = {} /\ pendingFlag = FALSE
    /\ meta = [segments |-> {}, opstamp |-> 0] /\ active = meta /\ files = {}
    /\ late = {} /\ overwritten = FALSE
    /\ folding = FALSE
    /\ client = "free" /\ request = None
    /\ working = {} /\ visible = {} /\ buried = {}
    /\ nextSeg = 1
    /\ added = 0 /\ commits = 0 /\ merges = 0 /\ reopens = 0 /\ clears = 0

Ids(entries) == {e.id : e \in entries}
DocsOf(entries) == UNION {e.docs : e \in entries}
NonEmpty(entries) == {e \in entries : e.docs # {}}

(***************************************************************************)
(* The delete queue.  A cursor is the number of operations it has passed.  *)
(***************************************************************************)

\* compute_deleted_bitset stops at the first operation after the target.
Consume(cursor, target) ==
    LET later == {i \in (cursor + 1) .. Len(deletes) : deletes[i].op > target}
    IN IF later = {} THEN Len(deletes) ELSE Min(later) - 1

\* Mutant: the cursor runs past the end of the queue.
SkipToPastEnd(cursor, target) ==
    LET ahead == {i \in (cursor + 1) .. Len(deletes) : deletes[i].op >= target}
    IN IF ahead = {} THEN Len(deletes) + 1 ELSE Min(ahead) - 1

\* DeleteCursor::skip_to stops at the first operation not before the target.
SkipTo(cursor, target) ==
    LET ahead == {i \in (cursor + 1) .. Len(deletes) : deletes[i].op >= target}
    IN IF ahead = {} THEN Len(deletes) ELSE Min(ahead) - 1

\* advance_deletes: no document opstamps any more, a delete hits every match.
Advance(e, target) ==
    LET stop == Consume(e.cursor, target)
        hit == {deletes[i].key : i \in (e.cursor + 1) .. stop}
        alive == {d \in e.docs : d.key \notin hit}
    IN IF e.delop = {target} THEN e
       ELSE [e EXCEPT !.cursor = stop,
                      !.docs = alive,
                      !.unsaved = FALSE,
                      !.delop = IF e.unsaved \/ alive # e.docs THEN {target} ELSE @]

\* Mutant: a delete hits the matching documents whenever they were added.
FinalizeUnordered(docs) ==
    LET stop == Consume(workerCursor, Max({d.op : d \in docs}))
        dead == {d \in docs : \E i \in (workerCursor + 1) .. stop : deletes[i].key = d.key}
    IN [id |-> nextSeg, docs |-> docs \ dead, cursor |-> stop, delop |-> {}, unsaved |-> dead # {}]

\* finalize_segment with apply_deletes: up to the last document's opstamp, a
\* delete hits the documents added before it.
Finalize(docs) ==
    LET stop == Consume(workerCursor, Max({d.op : d \in docs}))
        dead == {d \in docs : \E i \in (workerCursor + 1) .. stop :
                                 deletes[i].key = d.key /\ d.op < deletes[i].op}
    IN [id |-> nextSeg, docs |-> docs \ dead, cursor |-> stop, delop |-> {}, unsaved |-> dead # {}]

Purged(entries, target) == {Advance(e, target) : e \in entries}

\* PrepareNode: purge_deletes over both registers; SegmentManager::commit makes
\* the result the committed register.
Prepared(target) == Purged(uncommitted \cup committed, target)

(***************************************************************************)
(* meta.json and the files.                                                *)
(***************************************************************************)

\* What meta.json keeps of an entry, and what SegmentRegister::new makes of it.
Saved(entries) == {[id |-> e.id, docs |-> e.docs, delop |-> e.delop] : e \in entries}
Loaded(segments) ==
    {[id |-> s.id, docs |-> s.docs, cursor |-> 0, delop |-> s.delop, unsaved |-> FALSE] : s \in segments}

SaveMetas(entries, opstamp) ==
    /\ meta' = [segments |-> Saved(entries), opstamp |-> opstamp]
    /\ active' = meta'
    /\ UNCHANGED <<late, overwritten>>

BatchIds(b) == UNION {Ids(b.ops[i].entries) : i \in DOMAIN b.ops}

\* Mutant: only what meta.json names and what merges is kept.
InventoryPublished(entries, segments, running) ==
    Ids(segments) \cup UNION {BatchIds(b) : b \in running}

\* list_files keeps every segment of the inventory: those of the registers, of
\* the active meta and of the merges that run.
Inventory(entries, segments, running) ==
    Ids(entries) \cup Ids(segments) \cup UNION {BatchIds(b) : b \in running}

\* The inventory is the index's: a killed updater still holds its segments there.
CollectFiles(present, entries, segments, running) ==
    files' = present \cap (Inventory(entries, segments, running) \cup UNION {Ids(m.segments) : m \in late})

(***************************************************************************)
(* Merges.  A plan is the sequence of groups to merge, each with the       *)
(* segment that comes first.                                               *)
(***************************************************************************)

Group(ids) == {[ids |-> g, first |-> f] : g \in SUBSET ids, f \in ids}
Groups(ids) == {g \in Group(ids) : g.first \in g.ids}

Plans(groups) ==
    {<<>>} \cup {<<g>> : g \in groups}
    \cup {<<g, h>> : <<g, h>> \in {x \in groups \X groups : x[1].ids \cap x[2].ids = {} /\ Min(x[1].ids) < Min(x[2].ids)}}

\* compute_merge_candidates: any disjoint groups of at least two segments.
PolicyPlans(ids) ==
    IF Policy THEN Plans({g \in Groups(ids) : Cardinality(g.ids) > 1}) ELSE {<<>>}

MergeOp(group, entries, target) ==
    [entries |-> {e \in entries : e.id \in group.ids}, first |-> group.first, target |-> target]

\* Mutant: the merged segment starts at the end of the delete queue.
MergedAtEnd(op, id) ==
    LET advanced == Purged(op.entries, op.target)
    IN [id |-> id, docs |-> DocsOf(advanced), cursor |-> Len(deletes), delop |-> {}, unsaved |-> FALSE]

\* build_merge_dag: the merged segment takes the delete cursor of the first one.
Merged(op, id) ==
    LET advanced == Purged(op.entries, op.target)
    IN [id |-> id, docs |-> DocsOf(advanced),
        cursor |-> (CHOOSE e \in advanced : e.id = op.first).cursor,
        delop |-> {}, unsaved |-> FALSE]

\* register_merge_result: deletes committed while the merge ran.
CaughtUp(e) ==
    IF e.cursor < Len(deletes) /\ deletes[e.cursor + 1].op < active.opstamp
    THEN Advance(e, active.opstamp)
    ELSE e

\* Mutant: the merged segment joins its sources.
EndMergesKeepSources(entries, ops, base) ==
    LET held == {i \in DOMAIN ops : Ids(ops[i].entries) \subseteq Ids(entries)}
    IN entries \cup {CaughtUp(Merged(ops[i], base + i)) : i \in held}

\* Mutant: the sources are removed and the merged segment is dropped.
EndMergesDropResult(entries, ops, base) ==
    LET held == {i \in DOMAIN ops : Ids(ops[i].entries) \subseteq Ids(entries)}
    IN {e \in entries : \A i \in held : e.id \notin Ids(ops[i].entries)}

\* SegmentManager::end_merge on one register: the operations of `ops` whose
\* segments it holds replace them; a merge of no document leaves nothing.
EndMerges(entries, ops, base) ==
    LET held == {i \in DOMAIN ops : Ids(ops[i].entries) \subseteq Ids(entries)}
    IN {e \in entries : \A i \in held : e.id \notin Ids(ops[i].entries)}
       \cup {CaughtUp(Merged(ops[i], base + i)) : i \in {j \in held : DocsOf(ops[j].entries) # {}}}

Launch(plan, entries, target, opstamp, asked, running, held) ==
    LET ops == [i \in DOMAIN plan |-> MergeOp(plan[i], entries, target)]
    IN /\ nextSeg + Len(plan) <= MaxSegments + 1
       /\ batches' = running \cup {[ops |-> ops, base |-> nextSeg - 1, opstamp |-> opstamp, asked |-> asked]}
       /\ merging' = held \cup UNION {plan[i].ids : i \in DOMAIN plan}
       /\ pendingFlag' = TRUE
       /\ nextSeg' = nextSeg + Len(plan)

(***************************************************************************)
(* The IndexWriter: documents, deletes, the worker's segments.             *)
(***************************************************************************)

\* add_document; a first document opens a segment (handle_docs).
AddDocument(k) ==
    /\ client = "free"
    /\ added < MaxDocs
    /\ LET d == [n |-> added + 1, key |-> k, op |-> stamp]
       IN /\ buffer' = buffer \cup {d}
          /\ working' = working \cup {d}
    /\ workerCursor' = IF buffer = {} THEN SkipTo(workerCursor, stamp) ELSE workerCursor
    /\ stamp' = stamp + 1
    /\ added' = added + 1
    /\ UNCHANGED <<openStamp, deletes, registers, mergeVars, diskVars, folding, clientVars,
                   visible, buried, nextSeg, commits, merges, reopens, clears>>

\* delete_term, delete_query.
Delete(k) ==
    /\ client = "free"
    /\ Len(deletes) < MaxDeletes
    /\ deletes' = Append(deletes, [op |-> stamp, key |-> k])
    /\ stamp' = stamp + 1
    /\ working' = {d \in working : d.key # k}
    /\ UNCHANGED <<openStamp, workerVars, registers, mergeVars, diskVars, folding, clientVars,
                   visible, buried, nextSeg, counts>>

\* What delete_all_documents does beside the registers: the stamper turns back;
\* the documents the worker still holds are not reached.
ClearStamp ==
    /\ client = "free"
    /\ clears < MaxClears
    /\ stamp' = openStamp
    /\ working' = working \cap buffer
    /\ clears' = clears + 1

DeleteAllDocuments ==
    /\ ClearStamp
    /\ uncommitted' = {}
    /\ committed' = {}
    /\ UNCHANGED <<openStamp, deletes, workerVars, mergeVars, diskVars, folding, clientVars,
                   visible, buried, nextSeg, added, commits, merges, reopens>>

\* The worker's segment is finalized and registered: asked for by a flush, or
\* because the memory budget is reached.
Flush ==
    /\ buffer # {}
    /\ EarlyFlush \/ client \in {"preparing", "rolling"}
    /\ nextSeg <= MaxSegments
    /\ uncommitted' = uncommitted \cup {Finalize(buffer)}
    /\ files' = files \cup {nextSeg}
    /\ nextSeg' = nextSeg + 1
    /\ buffer' = {}
    /\ UNCHANGED <<queueVars, openStamp, workerCursor, committed, mergeVars, metaVars, folding,
                   clientVars, history, counts>>

(***************************************************************************)
(* Commit.                                                                 *)
(***************************************************************************)

\* prepare_commit flushes the workers, waits, and takes the commit's opstamp.
BeginPrepare ==
    /\ client = "free"
    /\ commits < MaxCommits
    /\ client' = "preparing"
    /\ commits' = commits + 1
    /\ UNCHANGED <<queueVars, openStamp, workerVars, registers, mergeVars, diskVars, folding,
                   request, history, nextSeg, added, merges, reopens, clears>>

PrepareCommit ==
    /\ client = "preparing"
    /\ buffer = {}
    /\ client' = "prepared"
    /\ request' = [kind |-> "commit", opstamp |-> stamp]
    /\ stamp' = stamp + 1
    /\ UNCHANGED <<openStamp, deletes, workerVars, registers, mergeVars, diskVars, folding,
                   history, nextSeg, counts>>

\* handle_commit when its DAG fails at save_metas.
CommitFails ==
    /\ MayFail
    /\ request.kind = "commit"
    /\ committed' = NonEmpty(Prepared(request.opstamp))
    /\ uncommitted' = {}
    /\ client' = "free" /\ request' = None
    /\ UNCHANGED <<queueVars, openStamp, workerVars, mergeVars, diskVars, folding, history, nextSeg, counts>>

\* handle_commit: fold, purge, promote, save, collect, then the policy.
HandleCommit ==
    /\ request.kind = "commit"
    /\ LET kept == NonEmpty(Prepared(request.opstamp))
       IN /\ committed' = kept
          /\ uncommitted' = {}
          /\ SaveMetas(kept, request.opstamp)
          /\ CollectFiles(files, kept, kept, batches)
          /\ \E plan \in PolicyPlans(Ids(kept) \ merging) :
                IF plan = <<>>
                THEN UNCHANGED <<mergeVars, nextSeg>>
                ELSE Launch(plan, kept, request.opstamp, request.opstamp, FALSE, batches, merging)
    /\ visible' = working
    /\ buried' = buried \cup (visible \ working)
    /\ folding' \in (IF MayFold THEN {folding, TRUE} ELSE {folding})
    /\ client' = "free" /\ request' = None
    /\ UNCHANGED <<queueVars, openStamp, workerVars, working, counts>>

\* The background fold ends: meta.json is written again with what it held.
DictionaryFolded ==
    /\ folding
    /\ folding' = FALSE
    /\ committed' = NonEmpty(committed)
    /\ SaveMetas(NonEmpty(committed), active.opstamp)
    /\ CollectFiles(files, uncommitted \cup committed, NonEmpty(committed), batches)
    /\ UNCHANGED <<queueVars, openStamp, workerVars, uncommitted, mergeVars, clientVars, history, nextSeg, counts>>

(***************************************************************************)
(* Merges asked for by the client, which waits for the answer.             *)
(***************************************************************************)

\* IndexWriter::merge and merge_many read the opstamp before they send; compact
\* waits for the flag first.  The segments are those a searcher sees.
AskMerge ==
    /\ client = "free"
    /\ merges < MaxMerges
    /\ merges' = merges + 1
    /\ client' = "merging"
    /\ \/ \E g \in Groups(Ids(meta.segments)) :
             request' = [kind |-> "merge", plan |-> <<g>>, target |-> active.opstamp]
       \/ \E plan \in Plans(Groups(Ids(meta.segments))) \ {<<>>} :
             request' = [kind |-> "merges", plan |-> plan, target |-> active.opstamp]
       \/ ~pendingFlag /\ ~folding /\ request' = [kind |-> "compact"]
    /\ UNCHANGED <<queueVars, openStamp, workerVars, registers, mergeVars, diskVars, folding,
                   history, nextSeg, added, commits, reopens, clears>>

Answered == client' = "free" /\ request' = None

PlanIds(plan) == UNION {plan[i].ids : i \in DOMAIN plan}

\* Mutant: handle_start_merges without refuse_if_merging.
StartMergesUnchecked(plan, entries, target) ==
    LET purged == Purged(entries, active.opstamp)
    IN /\ committed' = purged
       /\ uncommitted' = {}
       /\ PlanIds(plan) \subseteq Ids(purged)
       /\ Launch(plan, purged, target, active.opstamp, TRUE, batches, merging)
       /\ request' = None
       /\ UNCHANGED client

\* handle_start_merges for a client: it promotes every uncommitted segment, and
\* only then refuses a plan that names a segment in merge or an unknown one.
StartMerges(plan, entries, target) ==
    LET purged == Purged(entries, active.opstamp)
    IN /\ committed' = purged
       /\ uncommitted' = {}
       /\ \/ /\ PlanIds(plan) \cap merging = {}
             /\ PlanIds(plan) \subseteq Ids(purged)
             /\ Launch(plan, purged, target, active.opstamp, TRUE, batches, merging)
             /\ request' = None
             /\ UNCHANGED client
          \/ /\ PlanIds(plan) \cap merging # {} \/ ~(PlanIds(plan) \subseteq Ids(purged))
             /\ Answered
             /\ UNCHANGED <<mergeVars, nextSeg>>

HandleStartMerges ==
    /\ request.kind = "merges"
    /\ StartMerges(request.plan, uncommitted \cup committed, request.target)
    /\ UNCHANGED <<queueVars, openStamp, workerVars, diskVars, folding, history, counts>>

\* The compact handler plans over the committed segments itself.
HandleCompact ==
    /\ request.kind = "compact"
    /\ \E plan \in Plans({g \in Groups(Ids(NonEmpty(committed)) \ merging) : Cardinality(g.ids) > 1}) :
          IF plan = <<>>
          THEN /\ committed' = NonEmpty(committed)
               /\ Answered
               /\ UNCHANGED <<uncommitted, mergeVars, nextSeg>>
          ELSE StartMerges(plan, uncommitted \cup NonEmpty(committed), active.opstamp)
    /\ UNCHANGED <<queueVars, openStamp, workerVars, diskVars, folding, history, counts>>

\* handle_merge: the whole merge runs inside the handler.  It may fail before its
\* result is registered, or after, when meta.json is written.
HandleMerge ==
    /\ request.kind = "merge"
    /\ Answered
    /\ LET purged == Prepared(active.opstamp)
           ids == PlanIds(request.plan)
           op == MergeOp(request.plan[1], purged, request.target)
           kept == NonEmpty(EndMerges(purged, <<op>>, nextSeg - 1))
       IN \/ /\ ids \cap merging # {}
             /\ UNCHANGED <<registers, diskVars, nextSeg>>
          \/ /\ ids \cap merging = {}
             /\ ~(ids \subseteq Ids(purged)) \/ MayFail
             /\ committed' = purged
             /\ uncommitted' = {}
             /\ UNCHANGED <<diskVars, nextSeg>>
          \/ /\ ids \cap merging = {}
             /\ ids \subseteq Ids(purged)
             /\ nextSeg <= MaxSegments
             /\ committed' = kept
             /\ uncommitted' = {}
             /\ nextSeg' = nextSeg + 1
             /\ \/ /\ SaveMetas(kept, active.opstamp)
                   /\ CollectFiles(files \cup {nextSeg}, kept, kept, batches)
                \/ /\ MayFail
                   /\ files' = files \cup {nextSeg}
                   /\ UNCHANGED metaVars
    /\ UNCHANGED <<queueVars, openStamp, workerVars, mergeVars, folding, history, counts>>

(***************************************************************************)
(* The end of a batch (SuMergesDoneMsg).                                   *)
(***************************************************************************)

Reply(b) == client' = IF b.asked THEN "free" ELSE client

\* Every task succeeded and every result found its segments.
AllRegister(b, ops) ==
    /\ DOMAIN ops = DOMAIN b.ops
    /\ \A i \in DOMAIN ops : \/ Ids(ops[i].entries) \subseteq Ids(uncommitted)
                             \/ Ids(ops[i].entries) \subseteq Ids(committed)

\* merges_done_inner fails: what registered stays, nothing is saved.
MergesDoneFails(b) ==
    \E failed \in (IF MayFail THEN SUBSET DOMAIN b.ops ELSE {{}}) :
        LET ops == [i \in DOMAIN b.ops \ failed |-> b.ops[i]]
        IN /\ MayFail \/ ~AllRegister(b, ops)
           /\ committed' = (IF AllRegister(b, ops) THEN NonEmpty(EndMerges(committed, ops, b.base))
                                                   ELSE EndMerges(committed, ops, b.base))
           /\ uncommitted' = EndMerges(uncommitted, ops, b.base)
           /\ files' = files \cup {b.base + i : i \in DOMAIN ops}
           /\ merging' = merging \ BatchIds(b)
           /\ batches' = batches \ {b}
           /\ pendingFlag' = FALSE
           /\ Reply(b)
           /\ UNCHANGED <<queueVars, openStamp, workerVars, metaVars, folding, request, history, nextSeg, counts>>

\* The results are registered and saved under the opstamp the batch started
\* with; the policy may then start the next batch.
MergesDone(b) ==
    LET kept == NonEmpty(EndMerges(committed, b.ops, b.base))
        waiting == EndMerges(uncommitted, b.ops, b.base)
        running == batches \ {b}
        held == merging \ BatchIds(b)
    IN /\ AllRegister(b, b.ops)
       /\ SaveMetas(kept, b.opstamp)
       /\ CollectFiles(files \cup {b.base + i : i \in DOMAIN b.ops}, kept \cup waiting, kept, running)
       /\ \E plan \in PolicyPlans(Ids(kept) \ held) :
             IF plan = <<>>
             THEN /\ committed' = kept
                  /\ uncommitted' = waiting
                  /\ merging' = held
                  /\ batches' = running
                  /\ pendingFlag' = FALSE
                  /\ UNCHANGED nextSeg
             ELSE /\ committed' = Purged(kept \cup waiting, b.opstamp)
                  /\ uncommitted' = {}
                  /\ Launch(plan, Purged(kept \cup waiting, b.opstamp), b.opstamp, b.opstamp, FALSE, running, held)
       /\ Reply(b)
       /\ UNCHANGED <<queueVars, openStamp, workerVars, folding, request, history, counts>>

\* delete_all_documents while the updater handles the end of a batch.  It clears
\* the registers before meta.json is saved; or after the policy has made its
\* plan, whose segments are then missing, and the flag stays up; or between
\* purge_deletes and SegmentManager::commit, which brings the segments back.
\* Before or after the handler it is DeleteAllDocuments.
MergesDoneCleared(b) ==
    LET kept == NonEmpty(EndMerges(committed, b.ops, b.base))
        waiting == EndMerges(uncommitted, b.ops, b.base)
        written == files \cup {b.base + i : i \in DOMAIN b.ops}
        running == batches \ {b}
        held == merging \ BatchIds(b)
        Ended == merging' = held /\ batches' = running /\ uncommitted' = {} /\ committed' = {} /\ UNCHANGED nextSeg
        SavedFirst == SaveMetas(kept, b.opstamp) /\ CollectFiles(written, kept \cup waiting, kept, running)
    IN /\ AllRegister(b, b.ops)
       /\ ClearStamp
       /\ \/ /\ SaveMetas({}, b.opstamp)
             /\ CollectFiles(written, {}, {}, running)
             /\ Ended
             /\ pendingFlag' = FALSE
          \/ /\ PolicyPlans(Ids(kept) \ held) # {<<>>}
             /\ SavedFirst
             /\ Ended
             /\ UNCHANGED pendingFlag
          \/ \E plan \in PolicyPlans(Ids(kept) \ held) \ {<<>>} :
                /\ SavedFirst
                /\ committed' = Purged(kept \cup waiting, b.opstamp)
                /\ uncommitted' = {}
                /\ Launch(plan, Purged(kept \cup waiting, b.opstamp), b.opstamp, b.opstamp, FALSE, running, held)
       /\ UNCHANGED <<openStamp, deletes, workerVars, folding, clientVars, visible, buried,
                      added, commits, merges, reopens>>

\* garbage_collect_files: by the updater (SuGarbageCollectMsg), then once more by
\* the caller.
GarbageCollect ==
    /\ client = "free"
    /\ CollectFiles(files, uncommitted \cup committed, active.segments, batches)
    /\ UNCHANGED <<queueVars, openStamp, workerVars, registers, mergeVars, metaVars, folding, clientVars,
                   history, nextSeg, counts>>

(***************************************************************************)
(* Rollback and restart: a new writer from meta.json.                      *)
(***************************************************************************)

\* rollback, or PreparedCommit::abort: the workers are flushed first.
BeginRollback ==
    /\ client \in {"free", "prepared"}
    /\ reopens < MaxReopens
    /\ client' = "rolling" /\ request' = None
    /\ UNCHANGED <<queueVars, openStamp, workerVars, registers, mergeVars, diskVars, folding,
                   history, nextSeg, counts>>

Reopened ==
    /\ stamp' = meta.opstamp /\ openStamp' = meta.opstamp
    /\ deletes' = <<>> /\ workerCursor' = 0 /\ buffer' = {}
    /\ uncommitted' = {} /\ committed' = Loaded(meta.segments)
    /\ merging' = {} /\ batches' = {} /\ pendingFlag' = FALSE
    /\ active' = meta
    /\ folding' = FALSE
    /\ client' = "free" /\ request' = None
    /\ working' = visible
    /\ reopens' = reopens + 1
    /\ UNCHANGED <<meta, overwritten, visible, buried, nextSeg, added, commits, merges, clears>>

\* The updater may be killed inside save_metas, past its is_alive check: at the
\* end of a batch or of a fold.
LastSaves ==
    {[segments |-> Saved(NonEmpty(EndMerges(committed, b.ops, b.base))), opstamp |-> b.opstamp] :
        b \in {x \in batches : AllRegister(x, x.ops)}}
    \cup {[segments |-> Saved(NonEmpty(committed)), opstamp |-> active.opstamp] : x \in {TRUE} \cap {folding}}

Rollback ==
    /\ client = "rolling"
    /\ buffer = {}
    /\ \/ UNCHANGED <<late, files>>
       \/ \E m \in LastSaves : /\ late' = late \cup {m}
                               /\ files' = files \cup Ids(m.segments)
    /\ Reopened

\* The killed updater writes meta.json after all; its successor does not know.
LateSave ==
    \E m \in late :
        /\ meta' = m
        /\ late' = late \ {m}
        /\ overwritten' = TRUE
        /\ UNCHANGED <<queueVars, openStamp, workerVars, registers, mergeVars, active, files, folding,
                       clientVars, history, nextSeg, counts>>

\* The process ends at any point and the index is opened again.
Restart ==
    /\ client # "rolling"
    /\ reopens < MaxReopens
    /\ late' = {}
    /\ UNCHANGED files
    /\ Reopened

Next ==
    \/ \E k \in Keys : AddDocument(k) \/ Delete(k)
    \/ DeleteAllDocuments \/ Flush
    \/ BeginPrepare \/ PrepareCommit \/ HandleCommit \/ CommitFails \/ DictionaryFolded
    \/ AskMerge \/ HandleStartMerges \/ HandleCompact \/ HandleMerge
    \/ \E b \in batches : MergesDone(b) \/ MergesDoneFails(b) \/ MergesDoneCleared(b)
    \/ GarbageCollect \/ BeginRollback \/ Rollback \/ LateSave \/ Restart

Spec == Init /\ [][Next]_vars

(***************************************************************************)
(* Properties.                                                             *)
(***************************************************************************)

Documents == [n : Nat, key : Keys, op : Nat]
Entries == [id : Nat, docs : SUBSET Documents, cursor : Nat, delop : SUBSET Nat, unsaved : BOOLEAN]

TypeOK ==
    /\ stamp \in Nat /\ openStamp \in Nat
    /\ deletes \in Seq([op : Nat, key : Keys])
    /\ workerCursor \in 0 .. Len(deletes)
    /\ buffer \subseteq Documents /\ working \subseteq Documents /\ visible \subseteq Documents /\ buried \subseteq Documents
    /\ uncommitted \subseteq Entries /\ committed \subseteq Entries
    /\ \A e \in uncommitted \cup committed : e.cursor <= Len(deletes)
    /\ merging \subseteq Nat /\ files \subseteq Nat
    /\ pendingFlag \in BOOLEAN /\ folding \in BOOLEAN
    /\ \A m \in {meta, active} \cup late :
          /\ m.opstamp \in Nat
          /\ m.segments \subseteq [id : Nat, docs : SUBSET Documents, delop : SUBSET Nat]
    /\ overwritten \in BOOLEAN
    /\ client \in {"free", "preparing", "prepared", "merging", "rolling"}
    /\ request.kind \in {"none", "commit", "merge", "merges", "compact"}

\* No merge, promotion or reopening duplicates: a document is alive in one
\* segment of the two registers at most, and a segment is in one register
\* (handle_merges_done, SegmentManager::end_merge).
NoDocumentTwice ==
    \A e, f \in uncommitted \cup committed :
        e = f \/ (e.id # f.id /\ e.docs \cap f.docs = {})

\* refuse_if_merging: no segment is in two merges that run, and a segment is
\* marked as merging exactly while the batch that will release it runs.
OneMergePerSegment ==
    /\ merging = UNION {BatchIds(b) : b \in batches}
    /\ \A b \in batches : \A i, j \in DOMAIN b.ops :
          i # j => Ids(b.ops[i].entries) \cap Ids(b.ops[j].entries) = {}
    /\ \A b, c \in batches : b # c => BatchIds(b) \cap BatchIds(c) = {}

\* Whatever merges run, fail or are cut short by a restart or a rollback, every
\* document of the last commit stays in the segments meta.json names, as long as
\* nobody calls delete_all_documents and no killed updater writes meta.json.
NoCommittedDocumentLost == clears = 0 /\ ~overwritten => visible \subseteq DocsOf(meta.segments)

\* rollback: the same, whatever the killed updater was doing.
RollbackLosesNothing == clears = 0 => visible \subseteq DocsOf(meta.segments)

\* Additions are visible only after a commit: what meta.json names was there at
\* the last commit (IndexWriter::add_document, rollback).
NothingElseVisible == DocsOf(meta.segments) \subseteq visible

\* A committed delete is not undone: a document that a commit took away stays
\* away, although a merge that started before the delete registers after it
\* (register_merge_result, advance_deletes).
DeletesStay == DocsOf(meta.segments) \cap buried = {}

\* garbage_collect_files never removes a segment that meta.json names, unless a
\* killed updater has written meta.json after its successor had read it.
NamedFilesExist == ~overwritten => Ids(meta.segments) \subseteq files

\* wait_merging_thread: when pending_merge_tasks is down no merge task runs.
QuietWhenFlagDown == ~pendingFlag => batches = {}

\* It comes down with the last of them: otherwise wait_merging_thread polls for
\* good.
FlagDownWhenQuiet == batches = {} => ~pendingFlag

\* IndexMeta::opstamp is the opstamp of the last commit: nothing else moves it.
OnlyCommitsMoveOpstamp == [][meta'.opstamp # meta.opstamp => request.kind = "commit"]_vars

\* What the IndexWriter's documentation promises, see IndexContract.
Contract == INSTANCE IndexContract WITH visible <- DocsOf(meta.segments)

\* Additions and deletes become visible at a commit, all of them and only then,
\* and a rollback or a restart returns to the last commit, whatever merges do.
ImplementsContract == Contract!Spec

=============================================================================
