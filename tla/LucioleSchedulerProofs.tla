----------------------- MODULE LucioleSchedulerProofs -----------------------
(***************************************************************************)
(* Proofs about the scheduler for any number of actors, pool threads,      *)
(* cooperative waiters and clients, any batch size and mailbox capacity:   *)
(* type correctness, MutualExclusion and NoLostWake.                       *)
(*                                                                         *)
(* The inductive invariant adds two facts.  LeftOK: a thread in its batch  *)
(* loop has messages left, so the counter stays natural.  Safe adds to     *)
(* NoLostWake that an actor in its slot with is_idle FALSE is scheduled:   *)
(* this is what the swap in ActorRef::send relies on when it sees FALSE    *)
(* and leaves without waking anyone.                                       *)
(***************************************************************************)
EXTENDS LucioleScheduler, TLAPS

LeftOK ==
    \A p \in Procs :
        pc[p] = "handle" \/ (pc[p] \in SendPcs /\ ret[p] = "handle") => left[p] > 0

Safe(a) ==
    /\ slot[a] = "here" /\ ~isIdle[a] /\ ~suspended[a] => Scheduled(a)
    /\ slot[a] = "here" /\ pending[a] > 0 /\ ~suspended[a]
       => Scheduled(a) \/ \E p \in Procs : Checks(p, a)

WakeInv == \A a \in Actors : Safe(a)

IInv == TypeOK /\ LeftOK /\ MutualExclusion /\ WakeInv

(***************************************************************************)
(* Types and the batch counter.                                            *)
(***************************************************************************)

\* Every step of the scheduler keeps the types of its state.
LEMMA TypeStep == ASSUME TypeOK, LeftOK, [Next]_vars PROVE TypeOK'
<1> USE BoundsAssumption
<1> USE DEF Procs, Workers, TypeOK, actorVars, queueVars, workVars, sendVars, envVars,
           OwnPcs, SendPcs
<1>1. ASSUME NEW w \in Workers, NEW a \in Actors, PopActor(w, a) PROVE TypeOK'
  BY <1>1 DEF PopActor, Goto, MayPop, Enqueue
<1>2. ASSUME NEW w \in Workers, PopTask(w) PROVE TypeOK'
  BY <1>2 DEF PopTask, Goto, MayPop
<1>3. ASSUME NEW w \in Workers, TaskEnd(w) PROVE TypeOK'
  BY <1>3 DEF TaskEnd, Goto, BeginSend, TaskBase
<1>4. ASSUME NEW w \in Workers, FindNothing(w) PROVE TypeOK'
  BY <1>4 DEF FindNothing, Goto
<1>5. ASSUME NEW w \in Workers, Scan(w) PROVE TypeOK'
  BY <1>5 DEF Scan, Goto, Missed
<1>6. ASSUME NEW w \in Workers, Rescue(w) PROVE TypeOK'
  BY <1>6 DEF Rescue, Goto, GotoAndWake, Parked
<1>7. ASSUME NEW w \in Workers, Take(w) PROVE TypeOK'
  <2>1. left' \in [Procs -> Nat]
    BY <1>7 DEF Take, InRunLoop
  <2>2. slot' \in [Actors -> {"new", "here", "taken", "gone", "dead"}]
    BY <1>7 DEF Take
  <2>3. suspended' \in [Actors -> BOOLEAN]
    BY <1>7 DEF Take
  <2>4. pc' \in [Procs -> {"idle", "take", "check", "push", "scan", "rescue",
                           "parking", "parked", "exit"} \cup OwnPcs \cup SendPcs]
    BY <1>7 DEF Take, Goto
  <2>5. QED
    BY <1>7, <2>1, <2>2, <2>3, <2>4 DEF Take
<1>8. ASSUME NEW w \in Workers, Handle(w) PROVE TypeOK'
  BY <1>8 DEF Handle, Goto, BeginSend, After, LeftOK
<1>9. ASSUME NEW w \in Workers, FindDrained(w) PROVE TypeOK'
  BY <1>9 DEF FindDrained, Goto
<1>10. ASSUME NEW w \in Workers, Probe(w) PROVE TypeOK'
  BY <1>10 DEF Probe, Goto, InRunLoop
<1>11. ASSUME NEW w \in Workers, Stop(w) PROVE TypeOK'
  BY <1>11 DEF Stop, Goto, PutBack
<1>12. ASSUME NEW w \in Workers, SetResume(w) PROVE TypeOK'
  BY <1>12 DEF SetResume, Goto
<1>13. ASSUME NEW w \in Workers, Suspend(w) PROVE TypeOK'
  BY <1>13 DEF Suspend, Goto, PutBack
<1>14. ASSUME NEW w \in Workers, HasMore(w) PROVE TypeOK'
  BY <1>14 DEF HasMore, Goto, PutBack
<1>15. ASSUME NEW w \in Workers, GoIdle(w) PROVE TypeOK'
  BY <1>15 DEF GoIdle, Goto, PutBack
<1>16. ASSUME NEW w \in Workers, Recheck(w) PROVE TypeOK'
  BY <1>16 DEF Recheck, Goto
<1>17. ASSUME NEW w \in Procs, Push(w) PROVE TypeOK'
  BY <1>17 DEF Push, Goto, GotoAndWake, NotifyOne, Parked, Enqueue
<1>18. ASSUME NEW w \in Procs, Put(w) PROVE TypeOK'
  BY <1>18 DEF Put, Goto
<1>19. ASSUME NEW w \in Procs, Swap(w) PROVE TypeOK'
  BY <1>19 DEF Swap, Goto
<1>20. ASSUME NEW w \in Procs, Wake(w) PROVE TypeOK'
  BY <1>20 DEF Wake, Goto, GotoAndWake, NotifyOne, Parked, Enqueue
<1>21. ASSUME NEW w \in Threads, FindEmpty(w) PROVE TypeOK'
  BY <1>21 DEF FindEmpty, Goto, MayPop, InRunLoop
<1>22. ASSUME NEW w \in Threads, Park(w) PROVE TypeOK'
  BY <1>22 DEF Park, Goto
<1>23. ASSUME NEW w \in Threads, Exit(w) PROVE TypeOK'
  BY <1>23 DEF Exit, Goto
<1>24. ASSUME NEW w \in Pumps, WaitEnd(w) PROVE TypeOK'
  BY <1>24 DEF WaitEnd, Goto
<1>25. ASSUME NEW w \in Pumps, WaitBegin(w) PROVE TypeOK'
  BY <1>25 DEF WaitBegin, Goto
<1>26. ASSUME NEW w \in Workers, PanicInHandler(w) PROVE TypeOK'
  BY <1>26 DEF PanicInHandler, Goto
<1>27. ASSUME NEW w \in Workers, PanicInTask(w) PROVE TypeOK'
  BY <1>27 DEF PanicInTask, Goto
<1>28. ASSUME NEW w \in Clients, NEW a \in Actors, Spawn(w, a) PROVE TypeOK'
  BY <1>28 DEF Spawn, Goto
<1>29. ASSUME NEW w \in Clients, NEW a \in Actors, ClientSend(w, a) PROVE TypeOK'
  BY <1>29 DEF ClientSend, Goto, BeginSend
<1>30. ASSUME NEW w \in Clients, SubmitTask(w) PROVE TypeOK'
  BY <1>30 DEF SubmitTask, Goto, GotoAndWake, NotifyOne, Parked
<1>31. ASSUME NEW a \in Actors, Answer(a) PROVE TypeOK'
  BY <1>31 DEF Answer, Goto, NotifyOne, Parked, Enqueue
<1>32. ASSUME NEW a \in Actors, DropRefs(a) PROVE TypeOK'
  BY <1>32 DEF DropRefs, Goto
<1>33. CASE ShutdownStore
  BY <1>33 DEF ShutdownStore, Goto
<1>34. CASE ShutdownNotify
  BY <1>34 DEF ShutdownNotify, Goto, Parked
<1>35. CASE UNCHANGED vars
  BY <1>35 DEF vars
<1>36. QED
  BY <1>1, <1>2, <1>3, <1>4, <1>5, <1>6, <1>7, <1>8, <1>9, <1>10, <1>11, <1>12, <1>13,
     <1>14, <1>15, <1>16, <1>17, <1>18, <1>19, <1>20, <1>21, <1>22, <1>23, <1>24, <1>25,
     <1>26, <1>27, <1>28, <1>29, <1>30, <1>31, <1>32, <1>33, <1>34, <1>35 DEF Next,
     ThreadStep, PumpStep, WorkerStep, ActorStep, SendStep, ClientStep, Environment,
     Workers, Procs

\* A thread inside handle_batch's loop always has a message of its batch left.
LEMMA LeftStep == ASSUME TypeOK, LeftOK, [Next]_vars PROVE LeftOK'
<1> USE BoundsAssumption DEF LeftOK
<1> USE DEF Procs, Workers, TypeOK, actorVars, queueVars, workVars, sendVars, envVars,
           OwnPcs, SendPcs
<1>1. ASSUME NEW w \in Workers, NEW a \in Actors, PopActor(w, a) PROVE LeftOK'
  BY <1>1 DEF PopActor, Goto, MayPop, Enqueue
<1>2. ASSUME NEW w \in Workers, PopTask(w) PROVE LeftOK'
  BY <1>2 DEF PopTask, Goto, MayPop
<1>3. ASSUME NEW w \in Workers, TaskEnd(w) PROVE LeftOK'
  BY <1>3 DEF TaskEnd, Goto, BeginSend, TaskBase
<1>4. ASSUME NEW w \in Workers, FindNothing(w) PROVE LeftOK'
  BY <1>4 DEF FindNothing, Goto
<1>5. ASSUME NEW w \in Workers, Scan(w) PROVE LeftOK'
  BY <1>5 DEF Scan, Goto, Missed
<1>6. ASSUME NEW w \in Workers, Rescue(w) PROVE LeftOK'
  BY <1>6 DEF Rescue, Goto, GotoAndWake, Parked
<1>7. ASSUME NEW w \in Workers, Take(w) PROVE LeftOK'
  BY <1>7 DEF Take, Goto, InRunLoop
<1>8. ASSUME NEW w \in Workers, Handle(w) PROVE LeftOK'
  BY <1>8 DEF Handle, Goto, BeginSend, After
<1>9. ASSUME NEW w \in Workers, FindDrained(w) PROVE LeftOK'
  BY <1>9 DEF FindDrained, Goto
<1>10. ASSUME NEW w \in Workers, Probe(w) PROVE LeftOK'
  BY <1>10 DEF Probe, Goto, InRunLoop
<1>11. ASSUME NEW w \in Workers, Stop(w) PROVE LeftOK'
  BY <1>11 DEF Stop, Goto, PutBack
<1>12. ASSUME NEW w \in Workers, SetResume(w) PROVE LeftOK'
  BY <1>12 DEF SetResume, Goto
<1>13. ASSUME NEW w \in Workers, Suspend(w) PROVE LeftOK'
  BY <1>13 DEF Suspend, Goto, PutBack
<1>14. ASSUME NEW w \in Workers, HasMore(w) PROVE LeftOK'
  BY <1>14 DEF HasMore, Goto, PutBack
<1>15. ASSUME NEW w \in Workers, GoIdle(w) PROVE LeftOK'
  BY <1>15 DEF GoIdle, Goto, PutBack
<1>16. ASSUME NEW w \in Workers, Recheck(w) PROVE LeftOK'
  BY <1>16 DEF Recheck, Goto
<1>17. ASSUME NEW w \in Procs, Push(w) PROVE LeftOK'
  BY <1>17 DEF Push, Goto, GotoAndWake, NotifyOne, Parked, Enqueue
<1>18. ASSUME NEW w \in Procs, Put(w) PROVE LeftOK'
  BY <1>18 DEF Put, Goto
<1>19. ASSUME NEW w \in Procs, Swap(w) PROVE LeftOK'
  BY <1>19 DEF Swap, Goto
<1>20. ASSUME NEW w \in Procs, Wake(w) PROVE LeftOK'
  BY <1>20 DEF Wake, Goto, GotoAndWake, NotifyOne, Parked, Enqueue
<1>21. ASSUME NEW w \in Threads, FindEmpty(w) PROVE LeftOK'
  BY <1>21 DEF FindEmpty, Goto, MayPop, InRunLoop
<1>22. ASSUME NEW w \in Threads, Park(w) PROVE LeftOK'
  BY <1>22 DEF Park, Goto
<1>23. ASSUME NEW w \in Threads, Exit(w) PROVE LeftOK'
  BY <1>23 DEF Exit, Goto
<1>24. ASSUME NEW w \in Pumps, WaitEnd(w) PROVE LeftOK'
  BY <1>24 DEF WaitEnd, Goto
<1>25. ASSUME NEW w \in Pumps, WaitBegin(w) PROVE LeftOK'
  BY <1>25 DEF WaitBegin, Goto
<1>26. ASSUME NEW w \in Workers, PanicInHandler(w) PROVE LeftOK'
  BY <1>26 DEF PanicInHandler, Goto
<1>27. ASSUME NEW w \in Workers, PanicInTask(w) PROVE LeftOK'
  BY <1>27 DEF PanicInTask, Goto
<1>28. ASSUME NEW w \in Clients, NEW a \in Actors, Spawn(w, a) PROVE LeftOK'
  BY <1>28 DEF Spawn, Goto
<1>29. ASSUME NEW w \in Clients, NEW a \in Actors, ClientSend(w, a) PROVE LeftOK'
  BY <1>29 DEF ClientSend, Goto, BeginSend
<1>30. ASSUME NEW w \in Clients, SubmitTask(w) PROVE LeftOK'
  BY <1>30 DEF SubmitTask, Goto, GotoAndWake, NotifyOne, Parked
<1>31. ASSUME NEW a \in Actors, Answer(a) PROVE LeftOK'
  BY <1>31 DEF Answer, Goto, NotifyOne, Parked, Enqueue
<1>32. ASSUME NEW a \in Actors, DropRefs(a) PROVE LeftOK'
  BY <1>32 DEF DropRefs, Goto
<1>33. CASE ShutdownStore
  BY <1>33 DEF ShutdownStore, Goto
<1>34. CASE ShutdownNotify
  BY <1>34 DEF ShutdownNotify, Goto, Parked
<1>35. CASE UNCHANGED vars
  BY <1>35 DEF vars
<1>36. QED
  BY <1>1, <1>2, <1>3, <1>4, <1>5, <1>6, <1>7, <1>8, <1>9, <1>10, <1>11, <1>12, <1>13,
     <1>14, <1>15, <1>16, <1>17, <1>18, <1>19, <1>20, <1>21, <1>22, <1>23, <1>24, <1>25,
     <1>26, <1>27, <1>28, <1>29, <1>30, <1>31, <1>32, <1>33, <1>34, <1>35 DEF Next,
     ThreadStep, PumpStep, WorkerStep, ActorStep, SendStep, ClientStep, Environment,
     Workers, Procs

(***************************************************************************)
(* Mutual exclusion: who has an actor's box, and which slots are empty.    *)
(***************************************************************************)

OwnersKept ==
    \A p \in Procs : (Owns(p) <=> Owns(p)') /\ (Owns(p) => cur'[p] = cur[p])

SlotsKept == \A a \in Actors : slot[a] = "taken" <=> slot'[a] = "taken"

\* A step that moves no actor out of or into a slot keeps MutualExclusion.
LEMMA KeepOwners ==
    ASSUME MutualExclusion, OwnersKept, SlotsKept
    PROVE  MutualExclusion'
  BY DEF MutualExclusion, OwnersKept, SlotsKept

Releases(w) ==
    /\ Owns(w) /\ ~Owns(w)'
    /\ \A p \in Procs \ {w} : (Owns(p) <=> Owns(p)') /\ (Owns(p) => cur'[p] = cur[p])
    /\ slot'[cur[w]] # "taken"
    /\ \A a \in Actors \ {cur[w]} : slot'[a] = slot[a]

\* The owner of an actor may put it back, or lose it, at the end of its batch.
LEMMA ReleaseOwner ==
    ASSUME TypeOK, MutualExclusion, NEW w \in Procs, Releases(w)
    PROVE  MutualExclusion'
<1>1. \A v, p \in Procs : v # p /\ Owns(v)' /\ Owns(p)' => cur'[v] # cur'[p]
  BY DEF MutualExclusion, Releases
<1>2. ASSUME NEW a \in Actors, slot'[a] = "taken"
      PROVE  \E p \in Procs : Owns(p)' /\ cur'[p] = a
  BY <1>2 DEF MutualExclusion, Releases
<1>3. ASSUME NEW a \in Actors, NEW p \in Procs, Owns(p)', cur'[p] = a
      PROVE  slot'[a] = "taken"
  BY <1>3 DEF MutualExclusion, Releases
<1>4. QED
  BY <1>1, <1>2, <1>3 DEF MutualExclusion

\* Only Take gives an actor to a thread, and only out of its slot.
LEMMA MutexStep ==
    ASSUME TypeOK, MutualExclusion, [Next]_vars
    PROVE  MutualExclusion'
<1> USE DEF Procs, Workers, TypeOK, actorVars, queueVars, workVars, sendVars, envVars,
           OwnPcs, SendPcs
<1>1. ASSUME NEW w \in Workers, NEW a \in Actors, PopActor(w, a) PROVE MutualExclusion'
  BY <1>1, KeepOwners DEF OwnersKept, SlotsKept, Owns, PopActor, Goto, MayPop, Enqueue
<1>2. ASSUME NEW w \in Workers, PopTask(w) PROVE MutualExclusion'
  BY <1>2, KeepOwners DEF OwnersKept, SlotsKept, Owns, PopTask, Goto, MayPop
<1>3. ASSUME NEW w \in Workers, TaskEnd(w) PROVE MutualExclusion'
  BY <1>3, KeepOwners DEF OwnersKept, SlotsKept, Owns, TaskEnd, Goto, BeginSend,
     TaskBase
<1>4. ASSUME NEW w \in Workers, FindNothing(w) PROVE MutualExclusion'
  BY <1>4, KeepOwners DEF OwnersKept, SlotsKept, Owns, FindNothing, Goto
<1>5. ASSUME NEW w \in Workers, Scan(w) PROVE MutualExclusion'
  BY <1>5, KeepOwners DEF OwnersKept, SlotsKept, Owns, Scan, Goto, Missed
<1>6. ASSUME NEW w \in Workers, Rescue(w) PROVE MutualExclusion'
  BY <1>6, KeepOwners DEF OwnersKept, SlotsKept, Owns, Rescue, Goto, GotoAndWake, Parked
<1>7. ASSUME NEW w \in Workers, Take(w) PROVE MutualExclusion'
  BY <1>7 DEF MutualExclusion, Owns, Take, Goto, InRunLoop
<1>8. ASSUME NEW w \in Workers, Handle(w) PROVE MutualExclusion'
  BY <1>8, KeepOwners DEF OwnersKept, SlotsKept, Owns, Handle, Goto, BeginSend, After
<1>9. ASSUME NEW w \in Workers, FindDrained(w) PROVE MutualExclusion'
  BY <1>9, KeepOwners DEF OwnersKept, SlotsKept, Owns, FindDrained, Goto
<1>10. ASSUME NEW w \in Workers, Probe(w) PROVE MutualExclusion'
  BY <1>10, KeepOwners DEF OwnersKept, SlotsKept, Owns, Probe, Goto, InRunLoop
<1>11. ASSUME NEW w \in Workers, Stop(w) PROVE MutualExclusion'
  BY <1>11, ReleaseOwner DEF Releases, Owns, Stop, Goto, PutBack
<1>12. ASSUME NEW w \in Workers, SetResume(w) PROVE MutualExclusion'
  BY <1>12, KeepOwners DEF OwnersKept, SlotsKept, Owns, SetResume, Goto
<1>13. ASSUME NEW w \in Workers, Suspend(w) PROVE MutualExclusion'
  BY <1>13, ReleaseOwner DEF Releases, Owns, Suspend, Goto, PutBack
<1>14. ASSUME NEW w \in Workers, HasMore(w) PROVE MutualExclusion'
  BY <1>14, ReleaseOwner DEF Releases, Owns, HasMore, Goto, PutBack
<1>15. ASSUME NEW w \in Workers, GoIdle(w) PROVE MutualExclusion'
  BY <1>15, ReleaseOwner DEF Releases, Owns, GoIdle, Goto, PutBack
<1>16. ASSUME NEW w \in Workers, Recheck(w) PROVE MutualExclusion'
  BY <1>16, KeepOwners DEF OwnersKept, SlotsKept, Owns, Recheck, Goto
<1>17. ASSUME NEW w \in Procs, Push(w) PROVE MutualExclusion'
  BY <1>17, KeepOwners DEF OwnersKept, SlotsKept, Owns, Push, Goto, GotoAndWake,
     NotifyOne, Parked, Enqueue
<1>18. ASSUME NEW w \in Procs, Put(w) PROVE MutualExclusion'
  BY <1>18, KeepOwners DEF OwnersKept, SlotsKept, Owns, Put, Goto
<1>19. ASSUME NEW w \in Procs, Swap(w) PROVE MutualExclusion'
  BY <1>19, KeepOwners DEF OwnersKept, SlotsKept, Owns, Swap, Goto
<1>20. ASSUME NEW w \in Procs, Wake(w) PROVE MutualExclusion'
  BY <1>20, KeepOwners DEF OwnersKept, SlotsKept, Owns, Wake, Goto, GotoAndWake,
     NotifyOne, Parked, Enqueue
<1>21. ASSUME NEW w \in Threads, FindEmpty(w) PROVE MutualExclusion'
  BY <1>21, KeepOwners DEF OwnersKept, SlotsKept, Owns, FindEmpty, Goto, MayPop,
     InRunLoop
<1>22. ASSUME NEW w \in Threads, Park(w) PROVE MutualExclusion'
  BY <1>22, KeepOwners DEF OwnersKept, SlotsKept, Owns, Park, Goto
<1>23. ASSUME NEW w \in Threads, Exit(w) PROVE MutualExclusion'
  BY <1>23, KeepOwners DEF OwnersKept, SlotsKept, Owns, Exit, Goto
<1>24. ASSUME NEW w \in Pumps, WaitEnd(w) PROVE MutualExclusion'
  BY <1>24, KeepOwners DEF OwnersKept, SlotsKept, Owns, WaitEnd, Goto
<1>25. ASSUME NEW w \in Pumps, WaitBegin(w) PROVE MutualExclusion'
  BY <1>25, KeepOwners DEF OwnersKept, SlotsKept, Owns, WaitBegin, Goto
<1>26. ASSUME NEW w \in Workers, PanicInHandler(w) PROVE MutualExclusion'
  BY <1>26, ReleaseOwner DEF Releases, Owns, PanicInHandler, Goto
<1>27. ASSUME NEW w \in Workers, PanicInTask(w) PROVE MutualExclusion'
  BY <1>27, KeepOwners DEF OwnersKept, SlotsKept, Owns, PanicInTask, Goto
<1>28. ASSUME NEW w \in Clients, NEW a \in Actors, Spawn(w, a) PROVE MutualExclusion'
  BY <1>28, KeepOwners DEF OwnersKept, SlotsKept, Owns, Spawn, Goto
<1>29. ASSUME NEW w \in Clients, NEW a \in Actors, ClientSend(w, a) PROVE MutualExclusion'
  BY <1>29, KeepOwners DEF OwnersKept, SlotsKept, Owns, ClientSend, Goto, BeginSend
<1>30. ASSUME NEW w \in Clients, SubmitTask(w) PROVE MutualExclusion'
  BY <1>30, KeepOwners DEF OwnersKept, SlotsKept, Owns, SubmitTask, Goto, GotoAndWake,
     NotifyOne, Parked
<1>31. ASSUME NEW a \in Actors, Answer(a) PROVE MutualExclusion'
  BY <1>31, KeepOwners DEF OwnersKept, SlotsKept, Owns, Answer, Goto, NotifyOne, Parked,
     Enqueue
<1>32. ASSUME NEW a \in Actors, DropRefs(a) PROVE MutualExclusion'
  BY <1>32, KeepOwners DEF OwnersKept, SlotsKept, Owns, DropRefs, Goto
<1>33. CASE ShutdownStore
  BY <1>33, KeepOwners DEF OwnersKept, SlotsKept, Owns, ShutdownStore, Goto
<1>34. CASE ShutdownNotify
  BY <1>34, KeepOwners DEF OwnersKept, SlotsKept, Owns, ShutdownNotify, Goto, Parked
<1>35. CASE UNCHANGED vars
  BY <1>35, KeepOwners DEF OwnersKept, SlotsKept, Owns, vars
<1>36. QED
  BY <1>1, <1>2, <1>3, <1>4, <1>5, <1>6, <1>7, <1>8, <1>9, <1>10, <1>11, <1>12, <1>13,
     <1>14, <1>15, <1>16, <1>17, <1>18, <1>19, <1>20, <1>21, <1>22, <1>23, <1>24, <1>25,
     <1>26, <1>27, <1>28, <1>29, <1>30, <1>31, <1>32, <1>33, <1>34, <1>35 DEF Next,
     ThreadStep, PumpStep, WorkerStep, ActorStep, SendStep, ClientStep, Environment,
     Workers, Procs

(***************************************************************************)
(* The wake protocol, one actor at a time.                                 *)
(***************************************************************************)

Kept(a) ==
    /\ slot'[a] = "here" => /\ slot[a] = "here"
                            /\ isIdle'[a] = isIdle[a]
                            /\ suspended'[a] = suspended[a]
                            /\ pending'[a] = pending[a]
    /\ queued[a] > 0 => queued'[a] > 0
    /\ \A p \in Procs : Carries(p, a) => Carries(p, a)'
    /\ \A p \in Procs : Checks(p, a) => Checks(p, a)'

\* A step that leaves the actor in its slot alone, and takes no work item or
\* pending check of it away, keeps the actor safe.
LEMMA KeepSafe ==
    ASSUME NEW a \in Actors, Safe(a), Kept(a)
    PROVE  Safe(a)'
  BY DEF Safe, Kept, Scheduled

\* No step of a sender, a thread or a waiter strands an actor's messages.
LEMMA WakeStep ==
    ASSUME TypeOK, MutualExclusion, [Next]_vars, NEW b \in Actors, Safe(b)
    PROVE  Safe(b)'
<1> USE DEF Procs, Workers, TypeOK, actorVars, queueVars, workVars, sendVars, envVars,
           OwnPcs, SendPcs
<1>1. ASSUME NEW w \in Workers, NEW a \in Actors, PopActor(w, a) PROVE Safe(b)'
  BY <1>1 DEF Safe, Scheduled, Carries, Checks, PopActor, Goto, MayPop, Enqueue
<1>2. ASSUME NEW w \in Workers, PopTask(w) PROVE Safe(b)'
  BY <1>2, KeepSafe DEF Kept, Carries, Checks, PopTask, Goto, MayPop
<1>3. ASSUME NEW w \in Workers, TaskEnd(w) PROVE Safe(b)'
  BY <1>3, KeepSafe DEF Kept, Carries, Checks, TaskEnd, Goto, BeginSend, TaskBase
<1>4. ASSUME NEW w \in Workers, FindNothing(w) PROVE Safe(b)'
  BY <1>4, KeepSafe DEF Kept, Carries, Checks, FindNothing, Goto
<1>5. ASSUME NEW w \in Workers, Scan(w) PROVE Safe(b)'
  BY <1>5 DEF Safe, Scheduled, Carries, Checks, Scan, Goto, Missed
<1>6. ASSUME NEW w \in Workers, Rescue(w) PROVE Safe(b)'
  <2>1. CASE b \in rescued[w]
    <3>1. queued'[b] > 0
      BY <1>6, <2>1 DEF Rescue
    <3>2. QED
      BY <3>1 DEF Safe, Scheduled
  <2>2. CASE b \notin rescued[w]
    BY <1>6, <2>2, KeepSafe DEF Kept, Carries, Checks, Rescue, GotoAndWake, Parked
  <2>3. QED
    BY <2>1, <2>2
<1>7. ASSUME NEW w \in Workers, Take(w) PROVE Safe(b)'
  BY <1>7 DEF Safe, Scheduled, Carries, Checks, Take, Goto, InRunLoop
<1>8. ASSUME NEW w \in Workers, Handle(w) PROVE Safe(b)'
  <2>1. slot[cur[w]] = "taken" /\ slot' = slot
    BY <1>8 DEF MutualExclusion, Owns, Handle
  <2>2. QED
    BY <1>8, <2>1, KeepSafe DEF Kept, Carries, Checks, Handle, Goto, BeginSend, After
<1>9. ASSUME NEW w \in Workers, FindDrained(w) PROVE Safe(b)'
  BY <1>9, KeepSafe DEF Kept, Carries, Checks, FindDrained, Goto
<1>10. ASSUME NEW w \in Workers, Probe(w) PROVE Safe(b)'
  BY <1>10, KeepSafe DEF Kept, Carries, Checks, Probe, Goto, InRunLoop
<1>11. ASSUME NEW w \in Workers, Stop(w) PROVE Safe(b)'
  BY <1>11, KeepSafe DEF Kept, Carries, Checks, Stop, Goto, PutBack
<1>12. ASSUME NEW w \in Workers, SetResume(w) PROVE Safe(b)'
  BY <1>12, KeepSafe DEF Kept, Carries, Checks, SetResume, Goto
<1>13. ASSUME NEW w \in Workers, Suspend(w) PROVE Safe(b)'
  BY <1>13 DEF Safe, Scheduled, Carries, Checks, Suspend, Goto, PutBack
<1>14. ASSUME NEW w \in Workers, HasMore(w) PROVE Safe(b)'
  BY <1>14 DEF Safe, Scheduled, Carries, Checks, HasMore, Goto, PutBack
<1>15. ASSUME NEW w \in Workers, GoIdle(w) PROVE Safe(b)'
  BY <1>15 DEF Safe, Scheduled, Carries, Checks, GoIdle, Goto, PutBack
<1>16. ASSUME NEW w \in Workers, Recheck(w) PROVE Safe(b)'
  BY <1>16 DEF Safe, Scheduled, Carries, Checks, Recheck, Goto
<1>17. ASSUME NEW w \in Procs, Push(w) PROVE Safe(b)'
  BY <1>17 DEF Safe, Scheduled, Carries, Checks, Push, Goto, GotoAndWake, NotifyOne,
     Parked, Enqueue
<1>18. ASSUME NEW w \in Procs, Put(w) PROVE Safe(b)'
  BY <1>18 DEF Safe, Scheduled, Carries, Checks, Put, Goto
<1>19. ASSUME NEW w \in Procs, Swap(w) PROVE Safe(b)'
  BY <1>19 DEF Safe, Scheduled, Carries, Checks, Swap, Goto
<1>20. ASSUME NEW w \in Procs, Wake(w) PROVE Safe(b)'
  BY <1>20 DEF Safe, Scheduled, Carries, Checks, Wake, Goto, GotoAndWake, NotifyOne,
     Parked, Enqueue
<1>21. ASSUME NEW w \in Threads, FindEmpty(w) PROVE Safe(b)'
  BY <1>21, KeepSafe DEF Kept, Carries, Checks, FindEmpty, Goto, MayPop, InRunLoop
<1>22. ASSUME NEW w \in Threads, Park(w) PROVE Safe(b)'
  BY <1>22, KeepSafe DEF Kept, Carries, Checks, Park, Goto
<1>23. ASSUME NEW w \in Threads, Exit(w) PROVE Safe(b)'
  BY <1>23, KeepSafe DEF Kept, Carries, Checks, Exit, Goto
<1>24. ASSUME NEW w \in Pumps, WaitEnd(w) PROVE Safe(b)'
  BY <1>24, KeepSafe DEF Kept, Carries, Checks, WaitEnd, Goto
<1>25. ASSUME NEW w \in Pumps, WaitBegin(w) PROVE Safe(b)'
  BY <1>25, KeepSafe DEF Kept, Carries, Checks, WaitBegin, Goto
<1>26. ASSUME NEW w \in Workers, PanicInHandler(w) PROVE Safe(b)'
  BY <1>26, KeepSafe DEF Kept, Carries, Checks, PanicInHandler, Goto
<1>27. ASSUME NEW w \in Workers, PanicInTask(w) PROVE Safe(b)'
  BY <1>27, KeepSafe DEF Kept, Carries, Checks, PanicInTask, Goto
<1>28. ASSUME NEW w \in Clients, NEW a \in Actors, Spawn(w, a) PROVE Safe(b)'
  BY <1>28 DEF Safe, Scheduled, Carries, Checks, Spawn, Goto
<1>29. ASSUME NEW w \in Clients, NEW a \in Actors, ClientSend(w, a) PROVE Safe(b)'
  BY <1>29, KeepSafe DEF Kept, Carries, Checks, ClientSend, Goto, BeginSend
<1>30. ASSUME NEW w \in Clients, SubmitTask(w) PROVE Safe(b)'
  BY <1>30, KeepSafe DEF Kept, Carries, Checks, SubmitTask, Goto, GotoAndWake,
     NotifyOne, Parked
<1>31. ASSUME NEW a \in Actors, Answer(a) PROVE Safe(b)'
  BY <1>31, KeepSafe DEF Kept, Carries, Checks, Answer, Goto, NotifyOne, Parked, Enqueue
<1>32. ASSUME NEW a \in Actors, DropRefs(a) PROVE Safe(b)'
  BY <1>32, KeepSafe DEF Kept, Carries, Checks, DropRefs, Goto
<1>33. CASE ShutdownStore
  BY <1>33, KeepSafe DEF Kept, Carries, Checks, ShutdownStore, Goto
<1>34. CASE ShutdownNotify
  BY <1>34, KeepSafe DEF Kept, Carries, Checks, ShutdownNotify, Goto, Parked
<1>35. CASE UNCHANGED vars
  BY <1>35, KeepSafe DEF Kept, Carries, Checks, vars
<1>36. QED
  BY <1>1, <1>2, <1>3, <1>4, <1>5, <1>6, <1>7, <1>8, <1>9, <1>10, <1>11, <1>12, <1>13,
     <1>14, <1>15, <1>16, <1>17, <1>18, <1>19, <1>20, <1>21, <1>22, <1>23, <1>24, <1>25,
     <1>26, <1>27, <1>28, <1>29, <1>30, <1>31, <1>32, <1>33, <1>34, <1>35 DEF Next,
     ThreadStep, PumpStep, WorkerStep, ActorStep, SendStep, ClientStep, Environment,
     Workers, Procs

(***************************************************************************)
(* The theorems.                                                           *)
(***************************************************************************)

\* The initial states satisfy the inductive invariant.
LEMMA InitInv == ASSUME Init PROVE IInv
<1>1. TypeOK
  BY DEF Init, TypeOK, OwnPcs, SendPcs
<1>2. LeftOK /\ MutualExclusion /\ WakeInv
  BY DEF Init, LeftOK, MutualExclusion, Owns, WakeInv, Safe, OwnPcs, SendPcs
<1>3. QED
  BY <1>1, <1>2 DEF IInv

\* The inductive invariant of the scheduler holds in every reachable state.
THEOREM Invariance == Spec => []IInv
<1>1. ASSUME IInv, [Next]_vars PROVE IInv'
  <2>1. TypeOK' /\ LeftOK'
    BY <1>1, TypeStep, LeftStep DEF IInv
  <2>2. MutualExclusion'
    BY <1>1, MutexStep DEF IInv
  <2>3. ASSUME NEW a \in Actors PROVE Safe(a)'
    BY <1>1, WakeStep DEF IInv, WakeInv
  <2>4. WakeInv'
    BY <2>3 DEF WakeInv
  <2>5. QED
    BY <2>1, <2>2, <2>4 DEF IInv
<1>2. QED
  BY InitInv, <1>1, PTL DEF Spec

\* The state of the scheduler keeps its types, for any constants.
THEOREM TypeCorrect == Spec => []TypeOK
<1>1. IInv => TypeOK
  BY DEF IInv
<1>2. QED
  BY Invariance, <1>1, PTL

\* An actor is run by one thread at a time, whatever duplicates the ready queue
\* holds: the take() of run_loop_handle_actor and run_one_step_actor.
THEOREM ActorMutualExclusion == Spec => []MutualExclusion
<1>1. IInv => MutualExclusion
  BY DEF IInv
<1>2. QED
  BY Invariance, <1>1, PTL

\* ActorRef::send and the Idle branches of the scheduler lose no wake-up.
THEOREM WakeProtocolCorrect == Spec => []NoLostWake
<1>1. IInv => NoLostWake
  BY DEF IInv, WakeInv, Safe, NoLostWake
<1>2. QED
  BY Invariance, <1>1, PTL
=============================================================================
