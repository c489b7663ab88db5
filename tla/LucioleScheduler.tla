------------------------- MODULE LucioleScheduler -------------------------
(***************************************************************************)
(* The actor scheduler of luciole (luciole/src/scheduler.rs, mailbox.rs):  *)
(* run_loop threads, cooperative waiters that call run_one_step, and the   *)
(* lock-free wake protocol between ActorRef::send and the scheduler.       *)
(*                                                                         *)
(* Abstractions.  A mailbox is the number of messages it holds.  The ready *)
(* queue is a bag of work items and a pop takes any of them: the heap only *)
(* orders by priority.  The atomics are sequentially consistent: the       *)
(* mailbox operations around them go through the channel's own lock.       *)
(* Condvar::notify_one wakes at least one waiting thread.                  *)
(***************************************************************************)
EXTENDS Integers, FiniteSets

CONSTANTS Actors,       \* actors that may be spawned
          Threads,      \* threads running run_loop
          Pumps,        \* other threads, which call run_one_step while they wait for a reply
          Clients,      \* threads that only spawn, send and submit
          BatchSize,    \* BATCH_SIZE: messages handled per run_loop turn
          Capacity,     \* capacity of every mailbox
          MsgBound,     \* bound: messages sent in a behaviour
          TaskBound,    \* bound: tasks submitted in a behaviour
          Statuses,     \* what handlers return: Continue, Yield, Suspend, Stop
          IdleWork,     \* TRUE: poll_idle may report more work
          MayPanic,     \* TRUE: a handler or a task may panic
          MayShutdown,  \* TRUE: the SchedulerHandle may be shut down
          MayDisconnect \* TRUE: all the ActorRefs of an actor may be dropped

Workers == Threads \cup Pumps
Procs == Workers \cup Clients

ASSUME ProcsDisjoint ==
    /\ Threads \cap Pumps = {}
    /\ Threads \cap Clients = {}
    /\ Pumps \cap Clients = {}

ASSUME BoundsAssumption ==
    /\ BatchSize \in Nat \ {0}
    /\ Capacity \in Nat \ {0}
    /\ MsgBound \in Nat
    /\ TaskBound \in Nat

ASSUME StatusesAssumption ==
    /\ Statuses \subseteq {"Continue", "Yield", "Suspend", "Stop"}
    /\ IdleWork \in BOOLEAN
    /\ MayPanic \in BOOLEAN
    /\ MayShutdown \in BOOLEAN
    /\ MayDisconnect \in BOOLEAN

VARIABLES slot,      \* the ActorSlot of each actor
          isIdle,    \* WakeHandle::is_idle
          pending,   \* messages in the mailbox
          closed,    \* every ActorRef of the actor is dropped
          suspended, \* the actor returned Suspend and was put back
          reply,     \* the Reply it waits for, and the ResumeHandle set on it
          queued,    \* WorkItem::Actor entries of the ready queue
          tasks,     \* WorkItem::Task entries of the ready queue
          pc,        \* where each thread is
          cur,       \* the actor a thread is working on
          left,      \* messages left in the thread's batch
          depth,     \* run_one_step nesting: 0 is run_loop itself
          rescued,   \* the idle actors with messages that a scan found
          to,        \* the actor a thread is sending to
          ret,       \* where the thread continues after the send
          sent,      \* messages sent so far
          submitted, \* tasks submitted so far
          shutdown   \* SharedState::shutdown and the notify_all after it

actorVars == <<slot, isIdle, pending, closed, suspended, reply>>
queueVars == <<queued, tasks>>
sendVars == <<to, ret, sent>>
envVars == <<submitted, shutdown>>
workVars == <<cur, left, depth, rescued>>
vars == <<actorVars, queueVars, pc, workVars, sendVars, envVars>>

\* The thread owns the actor's box, taken out of its slot.
OwnPcs == {"handle", "probe", "store", "more", "arm", "susp", "stop"}
SendPcs == {"put", "swap", "wake"}

TypeOK ==
    /\ slot \in [Actors -> {"new", "here", "taken", "gone", "dead"}]
    /\ isIdle \in [Actors -> BOOLEAN]
    /\ pending \in [Actors -> Nat]
    /\ closed \in [Actors -> BOOLEAN]
    /\ suspended \in [Actors -> BOOLEAN]
    /\ reply \in [Actors -> {"none", "open", "sent", "armed", "fired", "missed"}]
    /\ queued \in [Actors -> Nat]
    /\ tasks \in Nat
    /\ pc \in [Procs -> {"idle", "take", "check", "push", "scan", "rescue",
                         "parking", "parked", "exit"} \cup OwnPcs \cup SendPcs]
    /\ cur \in [Procs -> Actors]
    /\ left \in [Procs -> Nat]
    /\ depth \in [Procs -> Nat]
    /\ rescued \in [Procs -> SUBSET Actors]
    /\ to \in [Procs -> Actors]
    /\ ret \in [Procs -> {"idle"} \cup OwnPcs]
    /\ sent \in Nat
    /\ submitted \in Nat
    /\ shutdown \in {"no", "stored", "notified"}

Init ==
    /\ slot = [a \in Actors |-> "new"]
    /\ isIdle = [a \in Actors |-> FALSE]
    /\ pending = [a \in Actors |-> 0]
    /\ closed = [a \in Actors |-> FALSE]
    /\ suspended = [a \in Actors |-> FALSE]
    /\ reply = [a \in Actors |-> "none"]
    /\ queued = [a \in Actors |-> 0]
    /\ tasks = 0
    /\ pc = [p \in Procs |-> "idle"]
    /\ \E a \in Actors : cur = [p \in Procs |-> a] /\ to = [p \in Procs |-> a]
    /\ left = [p \in Procs |-> 0]
    /\ depth = [p \in Procs |-> 0]
    /\ rescued = [p \in Procs |-> {}]
    /\ ret = [p \in Procs |-> "idle"]
    /\ sent = 0
    /\ submitted = 0
    /\ shutdown = "no"

(***************************************************************************)
(* Locks and the condition variable.                                       *)
(***************************************************************************)

\* The ready-queue mutex is held between finding the queue empty and waiting.
QueueFree == \A t \in Threads : pc[t] # "parking"

\* The actors mutex is held while is_idle is raised and the mailbox rechecked.
ActorsFree == \A w \in Workers : pc[w] # "check"

Parked == {t \in Threads : pc[t] = "parked"}

\* notify_one: at least one of the waiting threads leaves the condvar.
NotifyOne == {W \in SUBSET Parked : Parked # {} => W # {}}

Goto(p, next) == pc' = [pc EXCEPT ![p] = next]

GotoAndWake(p, next, W) ==
    pc' = [q \in Procs |-> IF q = p THEN next ELSE IF q \in W THEN "idle" ELSE pc[q]]

Enqueue(a) == queued' = [queued EXCEPT ![a] = @ + 1]

\* Work done by a thread returns to run_loop or to the enclosing run_one_step.
InRunLoop(w) == w \in Threads /\ depth[w] = 0

(***************************************************************************)
(* ActorRef::send: put the message, swap is_idle, wake when it was idle.   *)
(***************************************************************************)

BeginSend(p, a, next) ==
    /\ sent < MsgBound
    /\ ~closed[a]
    /\ sent' = sent + 1
    /\ to' = [to EXCEPT ![p] = a]
    /\ ret' = [ret EXCEPT ![p] = next]
    /\ Goto(p, "put")

\* A full mailbox blocks the sender; a dropped one is an error for the caller.
Put(p) ==
    /\ pc[p] = "put"
    /\ \/ /\ slot[to[p]] \in {"gone", "dead"}
          /\ Goto(p, ret[p])
          /\ UNCHANGED pending
       \/ /\ slot[to[p]] \notin {"gone", "dead"}
          /\ pending[to[p]] < Capacity
          /\ pending' = [pending EXCEPT ![to[p]] = @ + 1]
          /\ Goto(p, "swap")
    /\ UNCHANGED <<slot, isIdle, closed, suspended, reply, queueVars, workVars, sendVars, envVars>>

Swap(p) ==
    /\ pc[p] = "swap"
    /\ isIdle' = [isIdle EXCEPT ![to[p]] = FALSE]
    /\ Goto(p, IF isIdle[to[p]] THEN "wake" ELSE ret[p])
    /\ UNCHANGED <<slot, pending, closed, suspended, reply, queueVars, workVars, sendVars, envVars>>

\* SchedulerNotifier::wake pushes even when the actor is being processed.
Wake(p) ==
    /\ pc[p] = "wake"
    /\ ActorsFree
    /\ \/ /\ slot[to[p]] = "gone"
          /\ Goto(p, ret[p])
          /\ UNCHANGED queued
       \/ /\ slot[to[p]] # "gone"
          /\ QueueFree
          /\ Enqueue(to[p])
          /\ \E W \in NotifyOne : GotoAndWake(p, ret[p], W)
    /\ UNCHANGED <<actorVars, tasks, workVars, sendVars, envVars>>

SendStep(p) == Put(p) \/ Swap(p) \/ Wake(p)

(***************************************************************************)
(* What the threads outside the scheduler do.                              *)
(***************************************************************************)

\* Scheduler::spawn: insert the slot, then push it (action Push).
Spawn(c, a) ==
    /\ pc[c] = "idle"
    /\ slot[a] = "new"
    /\ ActorsFree
    /\ slot' = [slot EXCEPT ![a] = "here"]
    /\ cur' = [cur EXCEPT ![c] = a]
    /\ Goto(c, "push")
    /\ UNCHANGED <<isIdle, pending, closed, suspended, reply, queueVars, left, depth, rescued, sendVars, envVars>>

ClientSend(c, a) ==
    /\ pc[c] = "idle"
    /\ BeginSend(c, a, "idle")
    /\ UNCHANGED <<actorVars, queueVars, workVars, envVars>>

SubmitTask(c) ==
    /\ pc[c] = "idle"
    /\ submitted < TaskBound
    /\ QueueFree
    /\ tasks' = tasks + 1
    /\ submitted' = submitted + 1
    /\ \E W \in NotifyOne : GotoAndWake(c, "idle", W)
    /\ UNCHANGED <<actorVars, queued, workVars, sendVars, shutdown>>

\* Reply::send on the reply a suspending handler waits for: it fires the
\* ResumeHandle that set_resume left there, which pushes the actor.
Answer(a) ==
    /\ ActorsFree
    /\ QueueFree
    /\ \/ /\ reply[a] = "open"
          /\ reply' = [reply EXCEPT ![a] = "sent"]
          /\ UNCHANGED <<queued, pc>>
       \/ /\ reply[a] = "armed"
          /\ reply' = [reply EXCEPT ![a] = "fired"]
          /\ Enqueue(a)
          /\ \E W \in NotifyOne :
                pc' = [q \in Procs |-> IF q \in W THEN "idle" ELSE pc[q]]
    /\ UNCHANGED <<slot, isIdle, pending, closed, suspended, tasks, workVars, sendVars, envVars>>

\* Every ActorRef of a spawned actor is dropped; a sender holds one.
DropRefs(a) ==
    /\ MayDisconnect
    /\ slot[a] # "new"
    /\ ~closed[a]
    /\ \A p \in Procs : pc[p] \in SendPcs => to[p] # a
    /\ closed' = [closed EXCEPT ![a] = TRUE]
    /\ UNCHANGED <<slot, isIdle, pending, suspended, reply, queueVars, pc, workVars, sendVars, envVars>>

\* do_shutdown stores the flag without the queue lock, then notifies all.
ShutdownStore ==
    /\ MayShutdown
    /\ shutdown = "no"
    /\ shutdown' = "stored"
    /\ UNCHANGED <<actorVars, queueVars, pc, workVars, sendVars, submitted>>

ShutdownNotify ==
    /\ shutdown = "stored"
    /\ shutdown' = "notified"
    /\ pc' = [q \in Procs |-> IF q \in Parked THEN "idle" ELSE pc[q]]
    /\ UNCHANGED <<actorVars, queueVars, workVars, sendVars, submitted>>

(***************************************************************************)
(* Popping work: pop_work of run_loop, run_one_step of a cooperative wait. *)
(***************************************************************************)

\* The loop's shutdown test, or a waiter between two steps.
MayPop(w) ==
    /\ pc[w] = "idle"
    /\ \/ InRunLoop(w) /\ shutdown = "no"
       \/ depth[w] > 0

\* The pop found no item (the queue lock is held for it).
QueueEmpty ==
    /\ QueueFree
    /\ tasks = 0
    /\ \A a \in Actors : queued[a] = 0

\* Mutant: the pop does not look whether the queue has the item.
PopActorUnchecked(w, a) ==
    /\ MayPop(w)
    /\ QueueFree
    /\ queued' = [queued EXCEPT ![a] = @ - 1]
    /\ cur' = [cur EXCEPT ![w] = a]
    /\ Goto(w, "take")
    /\ UNCHANGED <<actorVars, tasks, left, depth, rescued, sendVars, envVars>>

PopActor(w, a) ==
    /\ MayPop(w)
    /\ QueueFree
    /\ queued[a] > 0
    /\ queued' = [queued EXCEPT ![a] = @ - 1]
    /\ cur' = [cur EXCEPT ![w] = a]
    /\ Goto(w, "take")
    /\ UNCHANGED <<actorVars, tasks, left, depth, rescued, sendVars, envVars>>

\* The task's body is where the thread may wait cooperatively.
PopTask(w) ==
    /\ MayPop(w)
    /\ QueueFree
    /\ tasks > 0
    /\ tasks' = tasks - 1
    /\ depth' = [depth EXCEPT ![w] = @ + 1]
    /\ UNCHANGED <<actorVars, queued, pc, cur, left, rescued, sendVars, envVars>>

\* pop_work finds nothing; it still holds the queue lock.
FindEmpty(t) ==
    /\ MayPop(t)
    /\ InRunLoop(t)
    /\ QueueEmpty
    /\ Goto(t, "parking")
    /\ UNCHANGED <<actorVars, queueVars, workVars, sendVars, envVars>>

\* Condvar::wait releases the lock and waits, in one step.
Park(t) ==
    /\ pc[t] = "parking"
    /\ Goto(t, "parked")
    /\ UNCHANGED <<actorVars, queueVars, workVars, sendVars, envVars>>

Exit(t) ==
    /\ pc[t] = "idle"
    /\ InRunLoop(t)
    /\ shutdown # "no"
    /\ Goto(t, "exit")
    /\ UNCHANGED <<actorVars, queueVars, workVars, sendVars, envVars>>

TaskBase(w) == IF w \in Threads THEN 0 ELSE 1

\* The task returns; its result may be piped to an actor.
TaskEnd(w) ==
    /\ pc[w] = "idle"
    /\ depth[w] > TaskBase(w)
    /\ depth' = [depth EXCEPT ![w] = @ - 1]
    /\ \/ UNCHANGED <<pc, sendVars>>
       \/ \E a \in Actors : BeginSend(w, a, "idle")
    /\ UNCHANGED <<actorVars, queueVars, cur, left, rescued, envVars>>

\* A thread outside the scheduler enters or leaves wait_cooperative.
WaitBegin(w) ==
    /\ pc[w] = "idle"
    /\ depth[w] = 0
    /\ depth' = [depth EXCEPT ![w] = 1]
    /\ UNCHANGED <<actorVars, queueVars, pc, cur, left, rescued, sendVars, envVars>>

WaitEnd(w) ==
    /\ pc[w] = "idle"
    /\ depth[w] = 1
    /\ depth' = [depth EXCEPT ![w] = 0]
    /\ UNCHANGED <<actorVars, queueVars, pc, cur, left, rescued, sendVars, envVars>>

\* run_one_step on an empty queue looks for the actors whose wake was missed.
FindNothing(w) ==
    /\ pc[w] = "idle"
    /\ depth[w] > 0
    /\ QueueEmpty
    /\ Goto(w, "scan")
    /\ UNCHANGED <<actorVars, queueVars, workVars, sendVars, envVars>>

Missed == {a \in Actors : slot[a] = "here" /\ isIdle[a] /\ pending[a] > 0}

Scan(w) ==
    /\ pc[w] = "scan"
    /\ ActorsFree
    /\ isIdle' = [a \in Actors |-> isIdle[a] /\ a \notin Missed]
    /\ rescued' = [rescued EXCEPT ![w] = Missed]
    /\ Goto(w, IF Missed = {} THEN "idle" ELSE "rescue")
    /\ UNCHANGED <<slot, pending, closed, suspended, reply, queueVars, cur, left, depth, sendVars, envVars>>

Rescue(w) ==
    /\ pc[w] = "rescue"
    /\ QueueFree
    /\ queued' = [a \in Actors |-> queued[a] + (IF a \in rescued[w] THEN 1 ELSE 0)]
    /\ rescued' = [rescued EXCEPT ![w] = {}]
    /\ GotoAndWake(w, "idle", Parked)
    /\ UNCHANGED <<actorVars, tasks, cur, left, depth, sendVars, envVars>>

(***************************************************************************)
(* Processing one actor: run_loop_handle_actor with handle_batch, and      *)
(* run_one_step_actor, which handles a single message.                     *)
(***************************************************************************)

\* Mutant: a duplicate work item finds the actor as well.
TakeTwice(w) ==
    /\ pc[w] = "take"
    /\ ActorsFree
    /\ slot' = [slot EXCEPT ![cur[w]] = "taken"]
    /\ suspended' = [suspended EXCEPT ![cur[w]] = FALSE]
    /\ left' = [left EXCEPT ![w] = IF InRunLoop(w) THEN BatchSize ELSE 1]
    /\ Goto(w, "handle")
    /\ UNCHANGED <<isIdle, pending, closed, reply, queueVars, cur, depth, rescued, sendVars, envVars>>

\* The slot is empty when the item was a duplicate: it is dropped.
Take(w) ==
    /\ pc[w] = "take"
    /\ ActorsFree
    /\ \/ /\ slot[cur[w]] = "here"
          /\ slot' = [slot EXCEPT ![cur[w]] = "taken"]
          /\ suspended' = [suspended EXCEPT ![cur[w]] = FALSE]
          /\ left' = [left EXCEPT ![w] = IF InRunLoop(w) THEN BatchSize ELSE 1]
          /\ Goto(w, "handle")
       \/ /\ slot[cur[w]] # "here"
          /\ Goto(w, "idle")
          /\ UNCHANGED <<slot, suspended, left>>
    /\ UNCHANGED <<isIdle, pending, closed, reply, queueVars, cur, depth, rescued, sendVars, envVars>>

\* Where the batch goes after a handler returned a status.
After(w, status) ==
    CASE status = "Stop"    -> "stop"
      [] status = "Suspend" -> "arm"
      [] status = "Yield"   -> "more"
      [] OTHER              -> IF left[w] = 1 THEN "more" ELSE "handle"

\* try_recv, then Actor::handle, which may send one message of its own.
Handle(w) ==
    /\ pc[w] = "handle"
    /\ pending[cur[w]] > 0
    /\ pending' = [pending EXCEPT ![cur[w]] = @ - 1]
    /\ left' = [left EXCEPT ![w] = @ - 1]
    /\ \E status \in Statuses :
          /\ status = "Suspend" => reply[cur[w]] \notin {"open", "armed"}
          /\ reply' = IF status = "Suspend" THEN [reply EXCEPT ![cur[w]] = "open"] ELSE reply
          /\ \/ Goto(w, After(w, status)) /\ UNCHANGED sendVars
             \/ \E a \in Actors : BeginSend(w, a, After(w, status))
    /\ UNCHANGED <<slot, isIdle, closed, suspended, queueVars, cur, depth, rescued, envVars>>

\* ReplyReceiver::set_resume does not look at whether the reply was sent.
SetResume(w) ==
    /\ pc[w] = "arm"
    /\ reply' = [reply EXCEPT ![cur[w]] = IF @ = "open" THEN "armed" ELSE "missed"]
    /\ Goto(w, "susp")
    /\ UNCHANGED <<slot, isIdle, pending, closed, suspended, queueVars, workVars, sendVars, envVars>>

FindDrained(w) ==
    /\ pc[w] = "handle"
    /\ pending[cur[w]] = 0
    /\ Goto(w, "probe")
    /\ UNCHANGED <<actorVars, queueVars, workVars, sendVars, envVars>>

\* handle_batch rechecks the mailbox; run_one_step drops a zombie actor.
Probe(w) ==
    /\ pc[w] = "probe"
    /\ \/ /\ InRunLoop(w)
          /\ pending[cur[w]] > 0
          /\ Goto(w, "more")
       \/ /\ ~InRunLoop(w)
          /\ closed[cur[w]] /\ pending[cur[w]] = 0
          /\ Goto(w, "stop")
       \/ /\ IF InRunLoop(w) THEN pending[cur[w]] = 0
                             ELSE ~(closed[cur[w]] /\ pending[cur[w]] = 0)
          /\ \/ Goto(w, "store")
             \/ IdleWork /\ Goto(w, "more")
    /\ UNCHANGED <<actorVars, queueVars, workVars, sendVars, envVars>>

PutBack(w) == slot' = [slot EXCEPT ![cur[w]] = "here"]

\* BatchResult::Stopped: the slot is removed and the mailbox dropped.
Stop(w) ==
    /\ pc[w] = "stop"
    /\ ActorsFree
    /\ slot' = [slot EXCEPT ![cur[w]] = "gone"]
    /\ pending' = [pending EXCEPT ![cur[w]] = 0]
    /\ Goto(w, "idle")
    /\ UNCHANGED <<isIdle, closed, suspended, reply, queueVars, workVars, sendVars, envVars>>

\* BatchResult::Suspended: back in the slot, not in the queue.
Suspend(w) ==
    /\ pc[w] = "susp"
    /\ ActorsFree
    /\ PutBack(w)
    /\ suspended' = [suspended EXCEPT ![cur[w]] = TRUE]
    /\ Goto(w, "idle")
    /\ UNCHANGED <<isIdle, pending, closed, reply, queueVars, workVars, sendVars, envVars>>

\* Mutant: the actor is put back and not pushed.
HasMoreForgotten(w) ==
    /\ pc[w] = "more"
    /\ ActorsFree
    /\ PutBack(w)
    /\ Goto(w, "idle")
    /\ UNCHANGED <<isIdle, pending, closed, suspended, reply, queueVars, workVars, sendVars, envVars>>

\* BatchResult::HasMore: back in the slot, then pushed (action Push).
HasMore(w) ==
    /\ pc[w] = "more"
    /\ ActorsFree
    /\ PutBack(w)
    /\ Goto(w, "push")
    /\ UNCHANGED <<isIdle, pending, closed, suspended, reply, queueVars, workVars, sendVars, envVars>>

\* BatchResult::Idle: back in the slot and idle, the actors lock still held.
GoIdle(w) ==
    /\ pc[w] = "store"
    /\ ActorsFree
    /\ PutBack(w)
    /\ isIdle' = [isIdle EXCEPT ![cur[w]] = TRUE]
    /\ Goto(w, "check")
    /\ UNCHANGED <<pending, closed, suspended, reply, queueVars, workVars, sendVars, envVars>>

\* Mutant: the Idle branch without its recheck of the mailbox.
RecheckDropped(w) ==
    /\ pc[w] = "check"
    /\ Goto(w, "idle")
    /\ UNCHANGED <<actorVars, queueVars, workVars, sendVars, envVars>>

\* needs_rewake: a send may have landed before is_idle was raised.
Recheck(w) ==
    /\ pc[w] = "check"
    /\ Goto(w, IF pending[cur[w]] > 0 THEN "push" ELSE "idle")
    /\ UNCHANGED <<actorVars, queueVars, workVars, sendVars, envVars>>

\* Mutant: no push notifies a thread.
PushSilently(p) ==
    /\ pc[p] = "push"
    /\ QueueFree
    /\ Enqueue(cur[p])
    /\ Goto(p, "idle")
    /\ UNCHANGED <<actorVars, tasks, workVars, sendVars, envVars>>

\* run_one_step_actor pushes without notifying; the others notify one thread.
Push(p) ==
    /\ pc[p] = "push"
    /\ QueueFree
    /\ Enqueue(cur[p])
    /\ IF depth[p] > 0
       THEN Goto(p, "idle")
       ELSE \E W \in NotifyOne : GotoAndWake(p, "idle", W)
    /\ UNCHANGED <<actorVars, tasks, workVars, sendVars, envVars>>

\* Nothing catches a panic: the thread ends, the actor and its mailbox are
\* dropped, and the slot stays with no actor in it.
PanicInHandler(w) ==
    /\ MayPanic
    /\ pc[w] = "handle"
    /\ pending[cur[w]] > 0
    /\ slot' = [slot EXCEPT ![cur[w]] = "dead"]
    /\ pending' = [pending EXCEPT ![cur[w]] = 0]
    /\ Goto(w, "exit")
    /\ UNCHANGED <<isIdle, closed, suspended, reply, queueVars, workVars, sendVars, envVars>>

PanicInTask(w) ==
    /\ MayPanic
    /\ pc[w] = "idle"
    /\ depth[w] > TaskBase(w)
    /\ Goto(w, "exit")
    /\ UNCHANGED <<actorVars, queueVars, workVars, sendVars, envVars>>

(***************************************************************************)
(* The next-state relation and the specification.                          *)
(***************************************************************************)

ActorStep(w) ==
    \/ Take(w) \/ Handle(w) \/ FindDrained(w) \/ Probe(w) \/ Stop(w)
    \/ SetResume(w) \/ Suspend(w) \/ HasMore(w) \/ GoIdle(w) \/ Recheck(w) \/ Push(w)

WorkerStep(w) ==
    \/ \E a \in Actors : PopActor(w, a)
    \/ PopTask(w) \/ TaskEnd(w) \/ FindNothing(w) \/ Scan(w) \/ Rescue(w)
    \/ ActorStep(w)
    \/ SendStep(w)

ThreadStep(t) == WorkerStep(t) \/ FindEmpty(t) \/ Park(t) \/ Exit(t)

PumpStep(w) == WorkerStep(w) \/ WaitEnd(w)

ClientStep(c) == SendStep(c) \/ Push(c)

Environment ==
    \/ \E c \in Clients, a \in Actors : Spawn(c, a) \/ ClientSend(c, a)
    \/ \E c \in Clients : SubmitTask(c)
    \/ \E a \in Actors : Answer(a) \/ DropRefs(a)
    \/ \E w \in Pumps : WaitBegin(w)
    \/ \E w \in Workers : PanicInHandler(w) \/ PanicInTask(w)
    \/ ShutdownStore \/ ShutdownNotify

Next ==
    \/ \E t \in Threads : ThreadStep(t)
    \/ \E w \in Pumps : PumpStep(w)
    \/ \E c \in Clients : ClientStep(c)
    \/ Environment

Spec == Init /\ [][Next]_vars

\* Every thread that can run keeps running: OS threads are scheduled fairly.
Fairness ==
    /\ \A t \in Threads : WF_vars(ThreadStep(t))
    /\ \A w \in Pumps : WF_vars(PumpStep(w))
    /\ \A c \in Clients : WF_vars(ClientStep(c))
    /\ WF_vars(ShutdownNotify)
    /\ \A a \in Actors : WF_vars(Answer(a))

FairSpec == Spec /\ Fairness

(***************************************************************************)
(* Properties.                                                             *)
(***************************************************************************)

\* The thread has the actor's box, in a handler or in a send of that handler.
Owns(w) == pc[w] \in OwnPcs \/ (pc[w] \in SendPcs /\ ret[w] \in OwnPcs)

\* The slot's take() gives an actor to one thread at a time: although wake
\* pushes an actor that is being processed, two threads never run handlers of
\* one actor, and a slot is empty exactly while a thread has its actor.
MutualExclusion ==
    /\ \A v, w \in Procs : v # w /\ Owns(v) /\ Owns(w) => cur[v] # cur[w]
    /\ \A a \in Actors : slot[a] = "taken" <=> \E w \in Procs : Owns(w) /\ cur[w] = a

\* The process holds a work item of the actor, or is bound to push one.
Carries(p, a) ==
    \/ pc[p] \in {"take", "push"} /\ cur[p] = a
    \/ pc[p] = "wake" /\ to[p] = a
    \/ pc[p] = "rescue" /\ a \in rescued[p]

Scheduled(a) == queued[a] > 0 \/ \E p \in Procs : Carries(p, a)

\* The process sent a message, or made the actor idle, and still has to look.
Checks(p, a) ==
    \/ pc[p] = "swap" /\ to[p] = a
    \/ pc[p] = "check" /\ cur[p] = a

\* The wake protocol of ActorRef::send and of the Idle branch of
\* run_loop_handle_actor never strands a message: an actor that is in its slot
\* with messages, and did not suspend itself, is scheduled, or someone is about
\* to notice, whatever the order of the swap, the store and the recheck.
NoLostWake ==
    \A a \in Actors :
        slot[a] = "here" /\ pending[a] > 0 /\ ~suspended[a]
        => Scheduled(a) \/ \E p \in Procs : Checks(p, a)

\* pop_work does not sleep over work: as long as the scheduler runs, some thread
\* of the pool is awake when an item is queued, although run_one_step_actor
\* pushes without notify_one.
NoSleepOverWork ==
    (\E a \in Actors : queued[a] > 0) \/ tasks > 0
    => \/ shutdown # "no"
       \/ \A t \in Threads : pc[t] = "exit"
       \/ \E t \in Threads : pc[t] \notin {"parked", "exit"}

\* A suspended actor whose ResumeHandle fired is scheduled again
\* (ActorStatus::Suspend in luciole/src/lib.rs).
NoLostResume ==
    \A a \in Actors : suspended[a] /\ reply[a] = "fired" => Scheduled(a)

\* A ResumeHandle registered on a ReplyReceiver fires when the reply arrives,
\* also when it arrived first (ReplyReceiver::set_resume).
ResumeFires == \A a \in Actors : reply[a] # "missed"

Drained(a) == slot[a] \in {"new", "gone", "dead"} \/ pending[a] = 0

\* Every message sent to a spawned actor is handled, or the actor ends: no
\* mailbox stays non-empty for ever.
MessagesHandled == \A a \in Actors : []<>Drained(a)

\* Joining the pool's threads after shutdown terminates.
ShutdownTerminates == shutdown = "notified" ~> \A t \in Threads : pc[t] = "exit"
=============================================================================
