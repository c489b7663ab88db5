----------------------------- MODULE ShardActor -----------------------------
(***************************************************************************)
(* The shard actors of a ShardedHandle (lucivy_core/src/sharded_handle.rs, *)
(* ShardActor): inserts and deletes, the commit in four messages, what is  *)
(* deferred while a commit is in flight, the report of lost writes,        *)
(* shutdown.                                                               *)
(*                                                                         *)
(* Abstractions.  A handler is one action, except that the loop of         *)
(* finish_commit handles one deferred message per step: other threads can  *)
(* take the writer lock between two of them, and the mailbox waits.  The   *)
(* IndexWriter of a shard is the set of documents it holds and the set of  *)
(* those its last commit published (see SegmentUpdater); its workers are   *)
(* seen through their answers to drain and flush.  A search changes no     *)
(* state of the actor and is left out; fast and full commits differ only   *)
(* in the files they write.  Lost writes are counted.                      *)
(***************************************************************************)
EXTENDS Naturals, Sequences

CONSTANTS Shards, Clients,
          Nodes,        \* the _node_id values
          MaxWrites,    \* bound: inserts and deletes sent
          MaxRequests,  \* bound: commits, drains and shutdowns asked for
          MaxReleases,  \* bound: calls of LucivyHandle::close
          MayRefuse,    \* TRUE: the writer can refuse a document
          MayFail       \* TRUE: drain, flush, finalization or reload can fail

ASSUME ShardActorBounds ==
    /\ {MaxWrites, MaxRequests, MaxReleases} \subseteq Nat
    /\ {MayRefuse, MayFail} \subseteq BOOLEAN

VARIABLES mailbox,     \* messages sent to the actor, in order
          stopped,     \* the actor returned Stop, its mailbox is gone
          inFlight,    \* commit_in_flight
          deferred,    \* deferred
          lost,        \* lost: writes not applied since the last commit
          report,      \* lost_report: how many the commit in flight reports
          pending,     \* work a commit waits for outside the actor
          lock,        \* the finalization task holds the writer lock
          closing,     \* how far LucivyHandle::close is, or what it returned
          writer,      \* the shard has an IndexWriter
          applied,     \* documents the writer holds
          durable,     \* documents of its last commit
          dirty,       \* has_uncommitted
          reply,       \* what each client waits for from each shard, or got
          arrived,     \* history: the deferrable messages sent to the shard
          handled,     \* history: those the actor has handled
          dropped,     \* history: writes thrown away with no commit to report them
          writes, requests, releases  \* the bounded counts

actorVars == <<inFlight, deferred, lost, report>>
writerVars == <<writer, lock, closing, applied, durable, dirty>>
history == <<arrived, handled, dropped>>
counts == <<writes, requests, releases>>
shardVars == <<mailbox, stopped, actorVars, pending, writerVars, reply, history>>
vars == <<shardVars, counts>>

None == [kind |-> "none"]
Writes == {"insert", "delete"}
Deferrable == Writes \cup {"commit", "drain"}

Init ==
    /\ mailbox = [s \in Shards |-> <<>>]
    /\ stopped = [s \in Shards |-> FALSE]
    /\ inFlight = [s \in Shards |-> FALSE]
    /\ deferred = [s \in Shards |-> <<>>]
    /\ lost = [s \in Shards |-> 0]
    /\ report = [s \in Shards |-> 0]
    /\ pending = [s \in Shards |-> None]
    /\ lock = [s \in Shards |-> FALSE]
    /\ closing = [s \in Shards |-> "no"]
    /\ writer = [s \in Shards |-> TRUE]
    /\ applied = [s \in Shards |-> {}]
    /\ durable = [s \in Shards |-> {}]
    /\ dirty = [s \in Shards |-> FALSE]
    /\ reply = [c \in Clients |-> [s \in Shards |-> "none"]]
    /\ arrived = [s \in Shards |-> <<>>]
    /\ handled = [s \in Shards |-> <<>>]
    /\ dropped = [s \in Shards |-> {}]
    /\ writes = 0 /\ requests = 0 /\ releases = 0

(***************************************************************************)
(* Sending.  A stopped actor has no mailbox and a send to it fails.        *)
(***************************************************************************)

Deliver(targets, msg) ==
    LET reached == {s \in targets : ~stopped[s]}
    IN /\ mailbox' = [s \in Shards |-> IF s \in reached THEN Append(mailbox[s], msg) ELSE mailbox[s]]
       /\ arrived' = [s \in Shards |-> IF s \in reached /\ msg.kind \in Deferrable
                                       THEN Append(arrived[s], msg) ELSE arrived[s]]

\* Pool::scatter, drain and shutdown skip the workers that are gone.
Ask(c, targets, kind) ==
    /\ Deliver(targets, [kind |-> kind, from |-> c])
    /\ reply' = [reply EXCEPT ![c] = [s \in Shards |->
                    IF s \notin targets THEN "none" ELSE IF stopped[s] THEN "closed" ELSE "waiting"]]

Waiting(c) == \E s \in Shards : reply[c][s] = "waiting"

(***************************************************************************)
(* The actor's next message: the loop of finish_commit comes before the    *)
(* mailbox.                                                                *)
(***************************************************************************)

\* Mutant: the deferred messages go behind the mailbox.
ReplayLast(s) == ~inFlight[s] /\ deferred[s] # <<>> /\ mailbox[s] = <<>>

Replaying(s) == ~inFlight[s] /\ deferred[s] # <<>>

Ready(s) == ~stopped[s] /\ (Replaying(s) \/ mailbox[s] # <<>>)

Message(s) == IF Replaying(s) THEN Head(deferred[s]) ELSE Head(mailbox[s])

\* Mutant: every message waits, those of the commit in flight included.
DefersAll(s) == inFlight[s]

\* Mutant: a second commit is not deferred.
DefersWritesOnly(s) == inFlight[s] /\ Message(s).kind \in Writes

\* Mutant: once the workers have flushed, nothing is deferred.
DefersUntilFlushed(s) == inFlight[s] /\ pending[s].kind # "task" /\ Message(s).kind \in Deferrable

\* Mutant: a delete is not deferred.
DefersButDeletes(s) == inFlight[s] /\ Message(s).kind \in Deferrable \ {"delete"}

Defers(s) == inFlight[s] /\ Message(s).kind \in Deferrable

Take(s) ==
    IF Replaying(s)
    THEN /\ deferred' = [deferred EXCEPT ![s] = Tail(@)]
         /\ UNCHANGED mailbox
    ELSE /\ mailbox' = [mailbox EXCEPT ![s] = Tail(@)]
         /\ UNCHANGED deferred

Faces(s, kind) == Ready(s) /\ Message(s).kind = kind /\ ~Defers(s)

Receives(s, kind) == Faces(s, kind) /\ Take(s)

\* Someone holds the mutex of the shard's writer: the finalization task of a
\* commit, or close.
Locked(s) == lock[s] \/ closing[s] \in {"commit", "drain", "frozen"}

Answer(c, s, result) == reply' = [reply EXCEPT ![c][s] = result]

\* Mutant: the lost writes are not in the answer.
CommitResultAlone(ok, unapplied) == IF ok THEN "ok" ELSE "err"

\* commit_result.
CommitResult(ok, unapplied) == IF ok /\ unapplied = 0 THEN "ok" ELSE "err"

(***************************************************************************)
(* The handlers.                                                           *)
(***************************************************************************)

\* While a commit is in flight what takes the writer lock, and a drain, waits.
Defer(s) ==
    /\ Ready(s)
    /\ Defers(s)
    /\ mailbox' = [mailbox EXCEPT ![s] = Tail(@)]
    /\ deferred' = [deferred EXCEPT ![s] = Append(@, Head(mailbox[s]))]
    /\ UNCHANGED <<stopped, inFlight, lost, report, pending, writerVars, reply, history, counts>>

Note(s) == handled' = [handled EXCEPT ![s] = Append(@, Message(s))]

Lose(s) ==
    /\ lost' = [lost EXCEPT ![s] = @ + 1]
    /\ UNCHANGED applied

HandleInsert(s) ==
    /\ Receives(s, "insert")
    /\ ~Locked(s)
    /\ \/ /\ writer[s]
          /\ applied' = [applied EXCEPT ![s] = @ \cup {Message(s).doc}]
          /\ UNCHANGED lost
       \/ /\ ~writer[s] \/ MayRefuse
          /\ Lose(s)
    /\ dirty' = [dirty EXCEPT ![s] = @ \/ writer[s]]
    /\ Note(s)
    /\ UNCHANGED <<stopped, inFlight, report, pending, writer, lock, closing, durable, reply, arrived, dropped, counts>>

HandleDelete(s) ==
    /\ Receives(s, "delete")
    /\ ~Locked(s)
    /\ IF writer[s]
       THEN /\ applied' = [applied EXCEPT ![s] = {d \in @ : d.node # Message(s).node}]
            /\ UNCHANGED lost
       ELSE Lose(s)
    /\ dirty' = [dirty EXCEPT ![s] = @ \/ writer[s]]
    /\ Note(s)
    /\ UNCHANGED <<stopped, inFlight, report, pending, writer, lock, closing, durable, reply, arrived, dropped, counts>>

HandleDrain(s) ==
    /\ Receives(s, "drain")
    /\ Answer(Message(s).from, s, "ok")
    /\ Note(s)
    /\ UNCHANGED <<stopped, inFlight, lost, report, pending, writerVars, arrived, dropped, counts>>

\* Commit takes the lost writes and asks the workers to drain; without a
\* writer, or when a worker is gone, it answers at once.
HandleCommit(s) ==
    /\ Receives(s, "commit")
    /\ ~Locked(s)
    /\ lost' = [lost EXCEPT ![s] = 0]
    /\ \/ /\ writer[s]
          /\ report' = [report EXCEPT ![s] = lost[s]]
          /\ inFlight' = [inFlight EXCEPT ![s] = TRUE]
          /\ pending' = [pending EXCEPT ![s] = [kind |-> "drain", from |-> Message(s).from]]
          /\ UNCHANGED reply
       \/ /\ ~writer[s] \/ MayFail
          /\ Answer(Message(s).from, s, CommitResult(~writer[s], lost[s]))
          /\ UNCHANGED <<report, inFlight, pending>>
    /\ Note(s)
    /\ UNCHANGED <<stopped, writerVars, arrived, dropped, counts>>

\* Mutant: commit_in_flight is not reset.
FinishCommitStillInFlight(s, ok) ==
    /\ Answer(Message(s).from, s, CommitResult(ok, report[s]))
    /\ report' = [report EXCEPT ![s] = 0]
    /\ UNCHANGED inFlight

\* The commit in flight is over: the answer, then the deferred messages.
FinishCommit(s, ok) ==
    /\ Answer(Message(s).from, s, CommitResult(ok, report[s]))
    /\ report' = [report EXCEPT ![s] = 0]
    /\ inFlight' = [inFlight EXCEPT ![s] = FALSE]

\* IndexersDrained: ask the workers to flush, or stop here.
HandleDrained(s) ==
    /\ Receives(s, "drained")
    /\ ~Locked(s)
    /\ \/ /\ writer[s]
          /\ pending' = [pending EXCEPT ![s] = [kind |-> "flush", from |-> Message(s).from]]
          /\ UNCHANGED <<reply, report, inFlight>>
       \/ /\ ~writer[s] \/ MayFail
          /\ FinishCommit(s, ~writer[s])
          /\ UNCHANGED pending
    /\ UNCHANGED <<stopped, lost, writerVars, history, counts>>

\* FlushDone: hand the finalization to a task.
HandleFlushed(s) ==
    /\ Receives(s, "flushed")
    /\ pending' = [pending EXCEPT ![s] = [kind |-> "task", from |-> Message(s).from]]
    /\ UNCHANGED <<stopped, inFlight, lost, report, writerVars, reply, history, counts>>

\* CommitDone.
HandleDone(s) ==
    /\ Receives(s, "done")
    /\ FinishCommit(s, Message(s).ok)
    /\ UNCHANGED <<stopped, lost, pending, writerVars, history, counts>>

WritesIn(queue) == {queue[i] : i \in {j \in DOMAIN queue : queue[j].kind \in Writes}}

SentBy(queue, c, kinds) == \E i \in DOMAIN queue : queue[i].kind \in kinds /\ queue[i].from = c

\* Shutdown: deferred commits get an error, deferred drains their answer, and
\* the actor stops, and is dropped with its counters and with the replies in
\* what is left of its mailbox.
HandleShutdown(s) ==
    /\ Faces(s, "shutdown")
    /\ stopped' = [stopped EXCEPT ![s] = TRUE]
    /\ mailbox' = [mailbox EXCEPT ![s] = <<>>]
    /\ deferred' = [deferred EXCEPT ![s] = <<>>]
    /\ dropped' = [dropped EXCEPT ![s] = WritesIn(deferred[s])]
    /\ LET rest == Tail(mailbox[s])
       IN reply' = [c \in Clients |-> [reply[c] EXCEPT ![s] =
              CASE c = Message(s).from -> "ok"
                [] SentBy(deferred[s], c, {"commit"}) -> "err"
                [] SentBy(deferred[s], c, {"drain"}) -> "ok"
                [] SentBy(rest, c, {"commit", "drain", "drained", "flushed", "done", "shutdown"}) -> "closed"
                [] OTHER -> @]]
    /\ inFlight' = [inFlight EXCEPT ![s] = FALSE]
    /\ lost' = [lost EXCEPT ![s] = 0]
    /\ report' = [report EXCEPT ![s] = 0]
    /\ UNCHANGED <<pending, writerVars, arrived, handled, counts>>

(***************************************************************************)
(* What happens outside the actor during a commit.                         *)
(***************************************************************************)

\* The answer comes back as a message; when the actor is gone the send fails
\* and drops the commit's reply.
Post(s, msg) ==
    IF stopped[s]
    THEN /\ Answer(msg.from, s, "closed")
         /\ UNCHANGED mailbox
    ELSE /\ mailbox' = [mailbox EXCEPT ![s] = Append(@, msg)]
         /\ UNCHANGED reply

\* collect_replies_to: the last worker has answered.
WorkersAnswer(s) ==
    /\ pending[s].kind \in {"drain", "flush"}
    /\ Post(s, [kind |-> IF pending[s].kind = "drain" THEN "drained" ELSE "flushed", from |-> pending[s].from])
    /\ pending' = [pending EXCEPT ![s] = None]
    /\ UNCHANGED <<stopped, actorVars, writerVars, history, counts>>

\* The finalization takes the writer lock, and waits for the commit with it.
TaskBegin(s) ==
    /\ pending[s].kind = "task"
    /\ ~Locked(s)
    /\ lock' = [lock EXCEPT ![s] = TRUE]
    /\ UNCHANGED <<mailbox, stopped, actorVars, pending, writer, closing, applied, durable, dirty, reply, history, counts>>

\* The commit fails before or after it has written meta.json, or it succeeds and
\* the reload may fail.
TaskEnd(s) ==
    /\ lock[s]
    /\ \E published, marked, ok \in BOOLEAN :
          /\ ok => marked
          /\ marked => published
          /\ ~writer[s] => marked
          /\ MayFail \/ ok
          /\ durable' = [durable EXCEPT ![s] = IF writer[s] /\ published THEN applied[s] ELSE @]
          /\ dirty' = [dirty EXCEPT ![s] = @ /\ ~marked]
          /\ Post(s, [kind |-> "done", from |-> pending[s].from, ok |-> ok])
    /\ lock' = [lock EXCEPT ![s] = FALSE]
    /\ pending' = [pending EXCEPT ![s] = None]
    /\ UNCHANGED <<stopped, actorVars, writer, closing, applied, history, counts>>

(***************************************************************************)
(* LucivyHandle::close of a shard: with the writer lock held, commit what  *)
(* is uncommitted, wait for the merges, drop the writer.                   *)
(***************************************************************************)

Closing(s, to) == closing' = [closing EXCEPT ![s] = to]

\* Close takes the lock and looks at has_uncommitted once.
Release(s) ==
    /\ ~Locked(s)
    /\ Closing(s, IF writer[s] /\ dirty[s] THEN "commit" ELSE "drain")
    /\ UNCHANGED <<mailbox, stopped, actorVars, pending, writer, lock, applied, durable, dirty, reply, history>>

ReleaseCommits(s) ==
    /\ closing[s] = "commit"
    /\ durable' = [durable EXCEPT ![s] = applied[s]]
    /\ Closing(s, "drain")
    /\ UNCHANGED <<mailbox, stopped, actorVars, pending, writer, lock, applied, dirty, reply, history, counts>>

\* Its commit fails, before or after it has written meta.json: the writer, taken
\* out of its place, is dropped, and has_uncommitted stays.
ReleaseFails(s) ==
    /\ closing[s] = "commit"
    /\ MayFail
    /\ \/ UNCHANGED durable
       \/ durable' = [durable EXCEPT ![s] = applied[s]]
    /\ writer' = [writer EXCEPT ![s] = FALSE]
    /\ Closing(s, "err")
    /\ UNCHANGED <<mailbox, stopped, actorVars, pending, lock, applied, dirty, reply, history, counts>>

\* The merges are over (the sleep of wait_merging_thread).
ReleaseEnds(s) ==
    /\ closing[s] = "drain"
    /\ writer' = [writer EXCEPT ![s] = FALSE]
    /\ dirty' = [dirty EXCEPT ![s] = FALSE]
    /\ Closing(s, "ok")
    /\ UNCHANGED <<mailbox, stopped, actorVars, pending, lock, applied, durable, reply, history, counts>>

\* What runs next for the shard asks for the lock: a handler, or the
\* finalization task.
AsksForLock(s) ==
    \/ Ready(s) /\ ~Defers(s) /\ Message(s).kind \in Writes \cup {"commit", "drained"}
    \/ pending[s].kind = "task" /\ ~lock[s]

\* The commit of close waits with Scheduler::wait.  On a thread of the scheduler,
\* or when the scheduler has one thread, that wait runs other work, and what it
\* runs asks for the lock that its own thread holds: neither goes on.
Freeze(s) ==
    /\ closing[s] = "commit"
    /\ AsksForLock(s)
    /\ Closing(s, "frozen")
    /\ UNCHANGED <<mailbox, stopped, actorVars, pending, writer, lock, applied, durable, dirty, reply, history, counts>>

ReleaseStep(s) == ReleaseCommits(s) \/ ReleaseFails(s) \/ ReleaseEnds(s) \/ Freeze(s)

ActorStep(s) ==
    \/ Defer(s) \/ HandleInsert(s) \/ HandleDelete(s) \/ HandleDrain(s) \/ HandleCommit(s)
    \/ HandleDrained(s) \/ HandleFlushed(s) \/ HandleDone(s) \/ HandleShutdown(s)

OutsideStep(s) == WorkersAnswer(s) \/ TaskBegin(s) \/ TaskEnd(s)

(***************************************************************************)
(* Clients of the shards alone: any thread may send anything.              *)
(***************************************************************************)

SendWrite(s, k) ==
    /\ writes < MaxWrites
    /\ writes' = writes + 1
    /\ \/ Deliver({s}, [kind |-> "insert", doc |-> [n |-> writes + 1, node |-> k]])
       \/ Deliver({s}, [kind |-> "delete", node |-> k])
    /\ UNCHANGED <<stopped, actorVars, pending, writerVars, reply, handled, dropped, requests, releases>>

SendRequest(c, kind) ==
    /\ ~Waiting(c)
    /\ requests < MaxRequests
    /\ requests' = requests + 1
    /\ Ask(c, Shards, kind)
    /\ UNCHANGED <<stopped, actorVars, pending, writerVars, handled, dropped, writes, releases>>

ReleaseWriter(s) ==
    /\ releases < MaxReleases
    /\ releases' = releases + 1
    /\ Release(s)
    /\ UNCHANGED <<writes, requests>>

Next ==
    \/ \E s \in Shards : ActorStep(s) \/ OutsideStep(s) \/ ReleaseStep(s) \/ ReleaseWriter(s)
    \/ \E s \in Shards, k \in Nodes : SendWrite(s, k)
    \/ \E c \in Clients, kind \in {"commit", "drain", "shutdown"} : SendRequest(c, kind)

\* The scheduler does not rest while an actor has a message or a task waits, and
\* a thread inside close goes on.
Fairness == WF_vars(\E s \in Shards : ActorStep(s) \/ OutsideStep(s) \/ ReleaseStep(s))

Spec == Init /\ [][Next]_vars /\ Fairness

(***************************************************************************)
(* Properties.                                                             *)
(***************************************************************************)

TypeOK ==
    /\ \A s \in Shards : \A i \in DOMAIN mailbox[s] :
          mailbox[s][i].kind \in Deferrable \cup {"drained", "flushed", "done", "shutdown"}
    /\ \A s \in Shards : \A i \in DOMAIN deferred[s] : deferred[s][i].kind \in Deferrable
    /\ {stopped, inFlight, lock, writer, dirty} \subseteq [Shards -> BOOLEAN]
    /\ closing \in [Shards -> {"no", "commit", "drain", "frozen", "ok", "err"}]
    /\ {lost, report} \subseteq [Shards -> Nat]
    /\ \A s \in Shards : pending[s].kind \in {"none", "drain", "flush", "task"}
    /\ \A s \in Shards : applied[s] \cup durable[s] \subseteq [n : Nat, node : Nodes]
    /\ reply \in [Clients -> [Shards -> {"none", "waiting", "ok", "err", "closed"}]]

ClientMessages(queue) == SelectSeq(queue, LAMBDA m : m.kind \in Deferrable)

\* Writes, drains and commits take effect in the order they were sent, those
\* deferred during a commit included (finish_commit: "in their order, before
\* any message still in the mailbox").
InOrder ==
    \A s \in Shards :
        ~stopped[s] => handled[s] \o deferred[s] \o ClientMessages(mailbox[s]) = arrived[s]

Continuations(s) == SelectSeq(mailbox[s], LAMBDA m : m.kind \in {"drained", "flushed", "done"})

\* commit_in_flight: one commit at most, and it has exactly one continuation,
\* outside the actor or as a message to it, so that it neither stalls nor runs
\* next to a second one; a task holds the lock for its finalization only.
OneCommitInFlight ==
    \A s \in Shards :
        /\ ~stopped[s] => Len(Continuations(s)) + (IF pending[s] = None THEN 0 ELSE 1)
                          = (IF inFlight[s] THEN 1 ELSE 0)
        /\ lock[s] => pending[s].kind = "task"

\* commit_in_flight: no handler asks for the writer lock while the finalization
\* task, whose cooperative wait may run this very handler, holds it.
NeverWaitsForLock ==
    \A s \in Shards :
        lock[s] /\ Ready(s) /\ ~Defers(s) => Message(s).kind \notin Writes \cup {"commit", "drained"}

Forgets(s) == lost'[s] + report'[s] < lost[s] + report[s]
TellsSomeone(s) == \E c \in Clients : reply[c][s] = "waiting" /\ reply'[c][s] = "err"

\* lost, lost_report: as long as the actor lives, a write that was not applied is
\* forgotten only by telling some commit about it.
LostWritesReported == [][\A s \in Shards : Forgets(s) => TellsSomeone(s) \/ stopped'[s]]_vars

\* The same of an actor that stops.
LostWritesOutliveActor == [][\A s \in Shards : Forgets(s) => TellsSomeone(s)]_vars

\* Shutdown: nothing deferred is dropped silently.
NothingDroppedSilently == \A s \in Shards : dropped[s] = {}

\* A thread waits for good for a lock that it holds itself.
Frozen == \E s \in Shards : closing[s] = "frozen"

\* Every commit, drain and shutdown is answered, or told that the actor is gone,
\* unless a close that commits with the writer lock held runs, in its own wait, a
\* handler or a finalization of its shard.
EveryRequestAnswered ==
    \A c \in Clients, s \in Shards : reply[c][s] = "waiting" ~> reply[c][s] # "waiting" \/ Frozen

\* Close never does that.
CloseNeverFreezes == ~Frozen

=============================================================================
