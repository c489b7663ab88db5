--------------------------- MODULE ShardedHandle ---------------------------
(***************************************************************************)
(* A ShardedHandle (lucivy_core/src/sharded_handle.rs): the reader pool,   *)
(* the router and the shard actors of ShardActor behind them, and the      *)
(* threads that call it.  One client writes; the others commit, search or  *)
(* close at any moment.                                                    *)
(*                                                                         *)
(* Abstractions.  Tokenizing is left out, and the router may choose any    *)
(* shard: its counters and the statistics a commit saves are not kept.     *)
(* Sends of one call to several actors are one step.                       *)
(***************************************************************************)
EXTENDS ShardActor, FiniteSets

CONSTANTS NumReaders,  \* size of the reader pool
          Writer,      \* the client that adds and deletes
          Committers, Searchers, Closers,  \* the clients that commit, search, close
          MayBatch     \* TRUE: the writer uses add_documents too

ASSUME ShardedHandleClients ==
    /\ NumReaders \in Nat \ {0}
    /\ Writer \in Clients
    /\ Committers \cup Searchers \cup Closers \subseteq Clients
    /\ MayBatch \in BOOLEAN

VARIABLES readers,   \* the mailbox of each ReaderActor
          router,    \* the mailbox of the RouterActor
          routing,   \* an insert the router has placed and not yet sent
          gone,      \* readers and router that have stopped
          nodeMap,   \* ShardRouter: node id to shard
          turn,      \* Pool::next
          closed,    \* ShardedHandle::closed
          call,      \* the call each client is in
          awaits,    \* the readers and the router whose answer it waits for
          accepted,  \* history: documents whose add returned Ok, no delete or failed commit since
          doomed,    \* history: documents added before some delete of their node
          killed,    \* history: those whose delete returned Ok
          promised,  \* history: documents a commit or close that returned Ok covers
          buried     \* history: deletes that such a commit or close covers

pipeVars == <<readers, router, routing, gone, nodeMap, turn>>
callVars == <<call, awaits>>
promises == <<accepted, doomed, killed, promised, buried>>
handleVars == <<pipeVars, closed, callVars, promises>>
allVars == <<vars, handleVars>>

Readers == 0 .. NumReaders - 1
Router == NumReaders
Idle == [op |-> "idle"]

HandleInit ==
    /\ Init
    /\ readers = [r \in Readers |-> <<>>]
    /\ router = <<>>
    /\ routing = None
    /\ gone = {}
    /\ nodeMap = [k \in Nodes |-> {}]
    /\ turn = 0
    /\ closed = FALSE
    /\ call = [c \in Clients |-> Idle]
    /\ awaits = [c \in Clients |-> {}]
    /\ accepted = {} /\ doomed = {} /\ killed = {} /\ promised = {} /\ buried = {}

Enter(c, op) ==
    call' = [call EXCEPT ![c] = [op |-> op, at |-> "readers", covers |-> accepted, kills |-> killed]]

At(c, ops, at) == call[c].op \in ops /\ call[c].at = at

Move(c, at) == call' = [call EXCEPT ![c].at = at]

Leave(c) == call' = [call EXCEPT ![c] = Idle]

MarkUncommitted == dirty' = [s \in Shards |-> TRUE]

(***************************************************************************)
(* Adding.  One shard: the caller routes and sends.  Several: a reader     *)
(* tokenizes, the router places, the shard actor inserts.                  *)
(***************************************************************************)

NewDoc(i, k) == [n |-> writes + i, node |-> k]


\* ShardRouter::route and record_node_id under the router's lock.
Place(k, s) == nodeMap' = [nodeMap EXCEPT ![k] = {s}]

AddDirect(k) ==
    \E s \in Shards :
        /\ Place(k, s)
        /\ call' = [call EXCEPT ![Writer] = [op |-> "insert", doc |-> NewDoc(1, k), shard |-> s]]
        /\ UNCHANGED <<readers, turn, accepted>>

ToReader(r, docs) ==
    IF r \in gone
    THEN UNCHANGED <<readers, accepted>>
    ELSE /\ readers' = [readers EXCEPT ![r] = Append(@, [kind |-> "docs", docs |-> docs])]
         /\ accepted' = accepted \cup {docs[i] : i \in DOMAIN docs}

AddDocument(k) ==
    /\ call[Writer] = Idle
    /\ ~closed
    /\ writes < MaxWrites
    /\ writes' = writes + 1
    /\ MarkUncommitted
    /\ \/ /\ Cardinality(Shards) = 1
          /\ AddDirect(k)
       \/ /\ Cardinality(Shards) > 1
          /\ ToReader(turn % NumReaders, <<NewDoc(1, k)>>)
          /\ turn' = turn + 1
          /\ UNCHANGED <<nodeMap, call>>
    /\ UNCHANGED <<mailbox, stopped, actorVars, pending, writer, lock, closing, applied, durable, reply, history,
                   requests, releases, router, routing, gone, closed, awaits, doomed, killed, promised, buried>>

\* The second half of route_and_send.
SendInsert ==
    /\ call[Writer].op = "insert"
    /\ LET s == call[Writer].shard
           d == call[Writer].doc
       IN /\ Deliver({s}, [kind |-> "insert", doc |-> d])
          /\ accepted' = IF stopped[s] THEN accepted ELSE accepted \cup {d}
    /\ Leave(Writer)
    /\ UNCHANGED <<stopped, actorVars, pending, writerVars, reply, handled, dropped, counts,
                   pipeVars, closed, awaits, doomed, killed, promised, buried>>

\* add_documents: document i goes to reader i % n; the first reader that is
\* gone ends the call.  Here a batch of two.
AddDocuments(j, k) ==
    /\ MayBatch
    /\ call[Writer] = Idle
    /\ writes + 1 < MaxWrites
    /\ writes' = writes + 2
    /\ LET docs == <<NewDoc(1, j), NewDoc(2, k)>>
           batches == IF NumReaders = 1 THEN <<docs>> ELSE <<<<docs[1]>>, <<docs[2]>>>>
           sent == {i \in DOMAIN batches : \A h \in 1 .. i : h - 1 \notin gone}
       IN /\ readers' = [r \in Readers |->
                 IF r + 1 \in sent THEN Append(readers[r], [kind |-> "docs", docs |-> batches[r + 1]]) ELSE readers[r]]
          /\ accepted' = accepted \cup UNION {{batches[i][h] : h \in DOMAIN batches[i]} : i \in sent}
    /\ UNCHANGED <<shardVars, requests, releases, router, routing, gone, nodeMap, turn, closed, callVars,
                   doomed, killed, promised, buried>>

Acknowledge(actor, c) == awaits' = [awaits EXCEPT ![c] = @ \ {actor}]

\* Mutant: an actor that stops answers only the request that stopped it.
AcknowledgeFirst(actor, queue) == Acknowledge(actor, Head(queue).from)

\* An actor that stops drops the requests left in its mailbox.
AcknowledgeAll(actor, queue) ==
    awaits' = [c \in Clients |-> IF \E i \in DOMAIN queue : queue[i].kind # "docs" /\ queue[i].from = c
                                 THEN awaits[c] \ {actor} ELSE awaits[c]]

ReaderTakes(r) ==
    /\ r \notin gone
    /\ readers[r] # <<>>
    /\ UNCHANGED <<shardVars, counts, routing, nodeMap, turn, closed, call, promises>>

\* ReaderActor: Tokenize and Batch.
ReaderTokenizes(r) ==
    /\ ReaderTakes(r)
    /\ Head(readers[r]).kind = "docs"
    /\ LET docs == Head(readers[r]).docs
       IN router' = IF Router \in gone THEN router
                    ELSE router \o [i \in DOMAIN docs |-> [kind |-> "docs", docs |-> <<docs[i]>>]]
    /\ readers' = [readers EXCEPT ![r] = Tail(@)]
    /\ UNCHANGED <<gone, awaits>>

ReaderDrains(r) ==
    /\ ReaderTakes(r)
    /\ Head(readers[r]).kind = "drain"
    /\ Acknowledge(r, Head(readers[r]).from)
    /\ readers' = [readers EXCEPT ![r] = Tail(@)]
    /\ UNCHANGED <<gone, router>>

ReaderStops(r) ==
    /\ ReaderTakes(r)
    /\ Head(readers[r]).kind = "shutdown"
    /\ AcknowledgeAll(r, readers[r])
    /\ readers' = [readers EXCEPT ![r] = <<>>]
    /\ gone' = gone \cup {r}
    /\ UNCHANGED router

RouterTakes ==
    /\ Router \notin gone
    /\ routing = None
    /\ router # <<>>

\* RouterActor, Route: the place is recorded under the lock, then the insert is
\* sent.
RouterPlaces ==
    /\ RouterTakes
    /\ Head(router).kind = "docs"
    /\ LET d == Head(router).docs[1]
       IN \E s \in Shards :
             /\ Place(d.node, s)
             /\ routing' = [kind |-> "insert", doc |-> d, shard |-> s]
    /\ router' = Tail(router)
    /\ UNCHANGED <<shardVars, counts, readers, gone, turn, closed, callVars, promises>>

RouterSends ==
    /\ routing # None
    /\ Deliver({routing.shard}, [kind |-> "insert", doc |-> routing.doc])
    /\ routing' = None
    /\ UNCHANGED <<stopped, actorVars, pending, writerVars, reply, handled, dropped, counts,
                   readers, router, gone, nodeMap, turn, closed, callVars, promises>>

RouterDrains ==
    /\ RouterTakes
    /\ Head(router).kind = "drain"
    /\ Acknowledge(Router, Head(router).from)
    /\ router' = Tail(router)
    /\ UNCHANGED <<shardVars, counts, readers, routing, gone, nodeMap, turn, closed, call, promises>>

RouterStops ==
    /\ RouterTakes
    /\ Head(router).kind = "shutdown"
    /\ AcknowledgeAll(Router, router)
    /\ router' = <<>>
    /\ gone' = gone \cup {Router}
    /\ UNCHANGED <<shardVars, counts, readers, routing, nodeMap, turn, closed, call, promises>>

(***************************************************************************)
(* delete_by_node_id: to the shard the map names, or to all of them.       *)
(***************************************************************************)

DeleteByNodeId(k) ==
    /\ call[Writer] = Idle
    /\ writes < MaxWrites
    /\ writes' = writes + 1
    /\ MarkUncommitted
    /\ nodeMap' = [nodeMap EXCEPT ![k] = {}]
    /\ call' = [call EXCEPT ![Writer] =
                  [op |-> "delete", node |-> k, targets |-> IF nodeMap[k] = {} THEN Shards ELSE nodeMap[k]]]
    /\ LET hit == [n : 1 .. writes, node : {k}]
       IN /\ doomed' = doomed \cup hit
          /\ promised' = promised \ hit
          /\ accepted' = accepted \ hit
    /\ UNCHANGED <<mailbox, stopped, actorVars, pending, writer, lock, closing, applied, durable, reply, history,
                   requests, releases, readers, router, routing, gone, turn, closed, awaits, killed, buried>>

\* Pool::broadcast ends at the first shard that is gone: the live ones before it
\* are reached.
SendDelete ==
    /\ call[Writer].op = "delete"
    /\ \E reached \in SUBSET call[Writer].targets :
          /\ (\A s \in call[Writer].targets : ~stopped[s]) => reached = call[Writer].targets
          /\ Deliver(reached, [kind |-> "delete", node |-> call[Writer].node])
    /\ killed' = IF \E s \in call[Writer].targets : stopped[s] THEN killed
                 ELSE killed \cup {d \in doomed : d.node = call[Writer].node}
    /\ Leave(Writer)
    /\ UNCHANGED <<stopped, actorVars, pending, writerVars, reply, handled, dropped, counts,
                   pipeVars, closed, awaits, accepted, doomed, promised, buried>>

(***************************************************************************)
(* commit, search and close all begin by draining the readers, the router  *)
(* and the shards; commit and close then commit every shard.               *)
(***************************************************************************)

Commits == {"commit", "close"}
Calls == Commits \cup {"search"}

AskReaders(c, kind) ==
    /\ readers' = [r \in Readers |-> IF r \in gone THEN readers[r] ELSE Append(readers[r], [kind |-> kind, from |-> c])]
    /\ awaits' = [awaits EXCEPT ![c] = Readers \ gone]

DrainReaders(c, op) ==
    /\ call[c] = Idle
    /\ requests < MaxRequests
    /\ requests' = requests + 1
    /\ Enter(c, op)
    /\ AskReaders(c, "drain")
    /\ UNCHANGED <<shardVars, writes, releases, router, routing, gone, nodeMap, turn, closed, promises>>

BeginCommit(c) == c \in Committers /\ ~closed /\ DrainReaders(c, "commit")
BeginSearch(c) == c \in Searchers /\ ~closed /\ DrainReaders(c, "search")
BeginClose(c) == c \in Closers /\ DrainReaders(c, "close")

\* Mutant: the router is not drained.
DrainRouterSkipped(c) ==
    /\ At(c, Calls, "readers")
    /\ awaits[c] = {}
    /\ Move(c, "router")
    /\ UNCHANGED <<shardVars, counts, pipeVars, closed, awaits, promises>>

DrainRouter(c) ==
    /\ At(c, Calls, "readers")
    /\ awaits[c] = {}
    /\ Move(c, "router")
    /\ IF Router \in gone
       THEN UNCHANGED <<router, awaits>>
       ELSE /\ router' = Append(router, [kind |-> "drain", from |-> c])
            /\ awaits' = [awaits EXCEPT ![c] = {Router}]
    /\ UNCHANGED <<shardVars, counts, readers, routing, gone, nodeMap, turn, closed, promises>>

AskShards(c, ops, from, to, kind) ==
    /\ At(c, ops, from)
    /\ awaits[c] = {} /\ ~Waiting(c)
    /\ Move(c, to)
    /\ Ask(c, Shards, kind)
    /\ UNCHANGED <<stopped, actorVars, pending, writerVars, handled, dropped, counts,
                   pipeVars, closed, awaits, promises>>

\* Mutant: the shards are drained and never committed.
CommitShardsForgotten(c) == AskShards(c, Commits, "shards", "commit", "drain")

DrainShards(c) == AskShards(c, Calls, "router", "shards", "drain")
CommitShards(c) == AskShards(c, Commits, "shards", "commit", "commit")

Refused(c) == \E s \in Shards : reply[c][s] = "err"

\* The call returns Ok: what was accepted before it began is promised, also when
\* another caller got an error for it.
Promise(c) ==
    /\ promised' = (promised \cup call[c].covers) \ doomed
    /\ buried' = buried \cup call[c].kills
    /\ accepted' = accepted \cup (call[c].covers \ doomed)
    /\ killed' = killed \cup call[c].kills

\* It returns an error: the caller knows that it cannot count on them.
Excuse(c) ==
    /\ accepted' = accepted \ (call[c].covers \ promised)
    /\ killed' = killed \ (call[c].kills \ buried)

\* A shard that is gone answers nothing, and is no error.  Writing the router's
\* statistics may fail.
Failed(c) == Refused(c) \/ MayFail
Succeeded(c) == ~Refused(c)

EndCommit(c) ==
    /\ At(c, {"commit"}, "commit")
    /\ ~Waiting(c)
    /\ \/ Failed(c) /\ Excuse(c) /\ UNCHANGED <<promised, buried>>
       \/ Succeeded(c) /\ Promise(c)
    /\ Leave(c)
    /\ UNCHANGED <<shardVars, counts, pipeVars, closed, awaits, doomed>>

(***************************************************************************)
(* The rest of close: release the writers, stop the actors.                *)
(***************************************************************************)

CloseCommitted(c) ==
    /\ At(c, {"close"}, "commit")
    /\ ~Waiting(c)
    /\ \/ Failed(c) /\ Excuse(c) /\ Leave(c)
       \/ /\ Succeeded(c)
          /\ call' = [call EXCEPT ![c] = [op |-> "close", at |-> "release", covers |-> @.covers, kills |-> @.kills,
                                          todo |-> Shards, now |-> {}]]
          /\ UNCHANGED <<accepted, killed>>
    /\ UNCHANGED <<shardVars, counts, pipeVars, closed, awaits, doomed, promised, buried>>

\* shard.close(), up to the lock; ReleaseStep goes on with it.
CloseShard(c, s) ==
    /\ At(c, {"close"}, "release")
    /\ call[c].now = {}
    /\ s \in call[c].todo
    /\ closing[s] = "no"
    /\ Release(s)
    /\ call' = [call EXCEPT ![c].todo = @ \ {s}, ![c].now = {s}]
    /\ UNCHANGED <<counts, pipeVars, closed, awaits, promises>>

\* An error ends the call, with this writer and those before it released and the
\* handle not closed.
CloseShardReturns(c, s) ==
    /\ At(c, {"close"}, "release")
    /\ s \in call[c].now
    /\ closing[s] \in {"ok", "err"}
    /\ Closing(s, "no")
    /\ IF closing[s] = "err" THEN Excuse(c) /\ Leave(c)
                             ELSE call' = [call EXCEPT ![c].now = {}] /\ UNCHANGED <<accepted, killed>>
    /\ UNCHANGED <<mailbox, stopped, actorVars, pending, writer, lock, applied, durable, dirty, reply, history,
                   counts, pipeVars, closed, awaits, doomed, promised, buried>>

StopReaders(c) ==
    /\ At(c, {"close"}, "release")
    /\ call[c].todo \cup call[c].now = {}
    /\ AskReaders(c, "shutdown")
    /\ Move(c, "stopping")
    /\ UNCHANGED <<shardVars, counts, router, routing, gone, nodeMap, turn, closed, promises>>

\* The router's answer is not waited for.
StopRouterAndShards(c) ==
    /\ At(c, {"close"}, "stopping")
    /\ awaits[c] = {}
    /\ IF Router \in gone
       THEN /\ Leave(c)
            /\ UNCHANGED <<router, mailbox, arrived, reply>>
       ELSE /\ router' = Append(router, [kind |-> "shutdown", from |-> c])
            /\ Ask(c, Shards, "shutdown")
            /\ Move(c, "stopped")
    /\ UNCHANGED <<stopped, actorVars, pending, writerVars, handled, dropped, counts,
                   readers, routing, gone, nodeMap, turn, closed, awaits, promises>>

\* Mutant: the handle is closed without waiting for the shards.
EndCloseEarly(c) ==
    /\ At(c, {"close"}, "stopped")
    /\ closed' = TRUE
    /\ Promise(c)
    /\ Leave(c)
    /\ UNCHANGED <<shardVars, counts, pipeVars, awaits, doomed>>

EndClose(c) ==
    /\ At(c, {"close"}, "stopped")
    /\ ~Waiting(c)
    /\ closed' = TRUE
    /\ Promise(c)
    /\ Leave(c)
    /\ UNCHANGED <<shardVars, counts, pipeVars, awaits, doomed>>

(***************************************************************************)
(* A search that has drained the pipeline commits the shards with          *)
(* uncommitted writes (FlushNode), one after the other, and does not look  *)
(* at the answers.                                                         *)
(***************************************************************************)

BeginFlush(c) ==
    /\ At(c, {"search"}, "shards")
    /\ ~Waiting(c)
    /\ call' = [call EXCEPT ![c] = [op |-> "search", at |-> "flush", todo |-> Shards]]
    /\ UNCHANGED <<shardVars, counts, pipeVars, closed, awaits, promises>>

FlushShard(c, s) ==
    /\ At(c, {"search"}, "flush")
    /\ ~Waiting(c)
    /\ s \in call[c].todo
    /\ call' = [call EXCEPT ![c].todo = @ \ {s}]
    /\ IF dirty[s] THEN Ask(c, {s}, "commit") ELSE UNCHANGED <<mailbox, arrived, reply>>
    /\ UNCHANGED <<stopped, actorVars, pending, writerVars, handled, dropped, counts,
                   pipeVars, closed, awaits, promises>>

\* The nodes behind FlushNode read the index and change nothing.
EndSearch(c) ==
    /\ At(c, {"search"}, "flush")
    /\ ~Waiting(c)
    /\ call[c].todo = {}
    /\ Leave(c)
    /\ UNCHANGED <<shardVars, counts, pipeVars, closed, awaits, promises>>

ShardStep ==
    /\ \E s \in Shards : ActorStep(s) \/ OutsideStep(s) \/ ReleaseStep(s)
    /\ UNCHANGED handleVars

PipelineStep ==
    \/ \E r \in Readers : ReaderTokenizes(r) \/ ReaderDrains(r) \/ ReaderStops(r)
    \/ RouterPlaces \/ RouterSends \/ RouterDrains \/ RouterStops

CallStep(c) ==
    \/ DrainRouter(c) \/ DrainShards(c) \/ CommitShards(c) \/ EndCommit(c)
    \/ CloseCommitted(c) \/ StopReaders(c) \/ StopRouterAndShards(c) \/ EndClose(c)
    \/ BeginFlush(c) \/ EndSearch(c)
    \/ \E s \in Shards : CloseShard(c, s) \/ CloseShardReturns(c, s) \/ FlushShard(c, s)

WriterStep ==
    \/ \E k \in Nodes : AddDocument(k) \/ DeleteByNodeId(k)
    \/ \E j, k \in Nodes : AddDocuments(j, k)
    \/ SendInsert \/ SendDelete

HandleNext ==
    \/ ShardStep \/ PipelineStep \/ WriterStep
    \/ \E c \in Clients : BeginCommit(c) \/ BeginClose(c) \/ BeginSearch(c) \/ CallStep(c)

\* The scheduler does not rest while an actor has a message or a task waits, and
\* threads inside a call go on.
HandleFairness == WF_allVars(ShardStep \/ PipelineStep \/ SendInsert \/ SendDelete \/ \E c \in Clients : CallStep(c))

HandleSpec == HandleInit /\ [][HandleNext]_allVars

FairHandleSpec == HandleSpec /\ HandleFairness

(***************************************************************************)
(* Properties.                                                             *)
(***************************************************************************)


Published == UNION {durable[s] : s \in Shards}

\* A commit or a close that returns Ok has made durable every document whose
\* add had returned Ok before it, wherever in the pipeline it was, whatever
\* other threads commit, search or close.
CommitCoversAdds == promised \subseteq Published

\* It has also made durable the deletes that had returned Ok: the documents
\* added before them are gone and stay gone.
CommitCoversDeletes == buried \cap Published = {}

\* Every call returns: commit, search, close and the writes, also when a
\* concurrent close stops the readers, the router or the shards it waits for,
\* unless a close has frozen (ShardActor).
CallsReturn == \A c \in Clients : call[c] # Idle ~> call[c] = Idle \/ Frozen

\* close: once the handle is closed every shard has released its writer and
\* stopped, and so have the readers, whatever calls of other threads were under
\* way ("After close() the handle is inert").
ClosedIsInert ==
    closed => Readers \subseteq gone /\ \A s \in Shards : stopped[s] /\ ~writer[s]

\* No commit of a shard is unfinished then ("nothing lucivy holds can touch the
\* storage again").
ClosedIsQuiet == closed => \A s \in Shards : pending[s] = None

\* mark_uncommitted: the index is uncommitted from the moment a change is
\* accepted until it is committed.
UncommittedIsMarked == ~(accepted \subseteq Published) => \E s \in Shards : dirty[s]

=============================================================================
