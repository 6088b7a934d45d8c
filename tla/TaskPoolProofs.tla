--------------------------- MODULE TaskPoolProofs ---------------------------
(***************************************************************************)
(* Proofs about TaskPool, for any workers, tasks and stoppers, however     *)
(* often and however stop is called: no task is lost or run twice, and     *)
(* nobody is told that the threads are finished while they are not.        *)
(***************************************************************************)
EXTENDS TaskPool, FiniteSetTheorems, SequenceTheorems, TLAPS

Accepted(x) == ppc[x] \in {"notify", "pushed"}
Runs(x)     == \E w \in Workers : task[w] = x

(* No task is queued twice. *)
NoRepeats == \A i, j \in DOMAIN m_queue : i # j => m_queue[i] # m_queue[j]

(* An accepted task is at one of its four places only. *)
PlaceInv ==
  /\ NoRepeats
  /\ \A w \in Workers : task[w] # NoTask <=> wpc[w] = "run"
  /\ \A v, w \in Workers : v # w => task[v] = NoTask \/ task[v] # task[w]
  /\ \A x \in Tasks : /\ executed[x] \in {0, 1}
                      /\ Accepted(x) <=> \/ x \in Queued \/ Runs(x)
                                         \/ executed[x] = 1 \/ x \in dropped
                      /\ x \in Queued => ~Runs(x) /\ executed[x] = 0 /\ x \notin dropped
                      /\ Runs(x) => executed[x] = 0 /\ x \notin dropped
                      /\ executed[x] = 1 => x \notin dropped

AllGone    == \A w \in Workers : wpc[w] = "gone"
Joining(s) == spc[s] \in {"join", "joinDtor"}

(* The futures are in m_threads, or with one stopper that waits for all of them, or the
   threads have gone; and the destructor is alone.  After a race nothing is known.     *)
JoinInv == ~Raced =>
  /\ m_threads = {} => AllGone \/ \E u \in Stoppers : Joining(u) /\ joined[u] = Workers
  /\ \A s \in Stoppers : /\ Joining(s) \/ (spc[s] = "returned" /\ sync[s]) => m_threads = {}
                         /\ spc[s] = "move" => sync[s]
                         /\ InDtor(s) \/ spc[s] = "destroyed"
                              => \A u \in Stoppers \ {s} : spc[u] \in {"idle", "returned"}
                         /\ spc[s] = "destroyed" => AllGone

IInv == TypeOK /\ PlaceInv /\ JoinInv
-----------------------------------------------------------------------------
(* A notify wakes workers that sleep and does nothing else. *)
Woken == /\ wpc' \in [Workers -> {"test", "asleep", "run", "gone"}]
         /\ \A w \in Workers : wpc'[w] = wpc[w] \/ (wpc[w] = "asleep" /\ wpc'[w] = "test")

(* notify_one and notify_all. *)
LEMMA NotifyWakes ==
  ASSUME TypeOK, wpc' \in WakeOne \/ wpc' = WakeAll
  PROVE  Woken
<1>1. CASE wpc' \in WakeOne
  BY <1>1 DEF WakeOne, Asleep, Woken, TypeOK
<1>2. CASE wpc' = WakeAll
  BY <1>2 DEF WakeAll, Asleep, Woken, TypeOK
<1>. QED
  BY <1>1, <1>2

(* Where the queue's tasks are. *)
LEMMA QueueType == TypeOK => DOMAIN m_queue = 1 .. Len(m_queue) /\ Len(m_queue) \in Nat /\ Queued \subseteq Tasks
BY DEF TypeOK, Queued

(* The queue is the same. *)
LEMMA SameQueue == UNCHANGED m_queue => Queued' = Queued /\ (NoRepeats' <=> NoRepeats)
BY DEF Queued, NoRepeats

(* m_queue.push_back *)
LEMMA PushedQueue ==
  ASSUME TypeOK, NoRepeats, NEW x \in Tasks, m_queue' = Append(m_queue, x)
  PROVE  /\ m_queue' \in Seq(Tasks)
         /\ Queued' = Queued \cup {x}
         /\ x \notin Queued => NoRepeats'
<1>1. /\ DOMAIN m_queue' = 1 .. Len(m_queue) + 1 /\ m_queue' \in Seq(Tasks)
      /\ m_queue'[Len(m_queue) + 1] = x
      /\ \A i \in 1 .. Len(m_queue) : m_queue'[i] = m_queue[i]
  BY DEF TypeOK
<1>. QED
  BY <1>1, QueueType DEF Queued, NoRepeats

(* m_queue.pop_front *)
LEMMA TakenQueue ==
  ASSUME TypeOK, NoRepeats, m_queue # <<>>, m_queue' = Tail(m_queue)
  PROVE  /\ Head(m_queue) \in Tasks /\ Head(m_queue) \in Queued
         /\ m_queue' \in Seq(Tasks)
         /\ Queued' = Queued \ {Head(m_queue)}
         /\ NoRepeats'
<1>1. /\ Head(m_queue) = m_queue[1] /\ Head(m_queue) \in Tasks
      /\ m_queue' \in Seq(Tasks) /\ Len(m_queue) \in Nat \ {0}
      /\ DOMAIN m_queue' = 1 .. Len(m_queue) - 1
      /\ \A i \in 1 .. Len(m_queue) - 1 : m_queue'[i] = m_queue[i + 1]
  BY HeadTailProperties, EmptySeq DEF TypeOK
<1>2. ASSUME NEW x \in Queued, x # Head(m_queue) PROVE x \in Queued'
  <2>1. PICK i \in 1 .. Len(m_queue) : x = m_queue[i]
    BY QueueType DEF Queued
  <2>2. i - 1 \in DOMAIN m_queue' /\ m_queue'[i - 1] = x
    BY <1>1, <1>2, <2>1
  <2>. QED
    BY <2>2 DEF Queued
<1>3. ASSUME NEW i \in DOMAIN m_queue' PROVE m_queue'[i] \in Queued \ {Head(m_queue)}
  BY <1>1, QueueType DEF Queued, NoRepeats
<1>4. NoRepeats'
  BY <1>1, QueueType DEF NoRepeats
<1>5. Head(m_queue) \in Queued /\ Queued' \subseteq Queued \ {Head(m_queue)}
  BY <1>1, <1>3, QueueType DEF Queued
<1>. QED
  BY <1>1, <1>2, <1>4, <1>5

(* A pool starts with its threads and an empty queue. *)
LEMMA InitInv == Init => IInv
<1> SUFFICES ASSUME Init PROVE IInv
  OBVIOUS
<1>0. <<>> \in Seq(Tasks)
  OBVIOUS
<1>1. TypeOK
  BY <1>0 DEF Init, TypeOK
<1>2. PlaceInv
  BY PoolAssumption DEF Init, PlaceInv, NoRepeats, Queued, Accepted, Runs
<1>3. JoinInv
  BY DEF Init, JoinInv, Raced, AllGone, Joining, InDtor
<1>. QED
  BY <1>1, <1>2, <1>3 DEF IInv
-----------------------------------------------------------------------------
(* A task's own thread. *)
LEMMA PushKeeps ==
  ASSUME IInv, NEW x \in Tasks, Push(x) \/ PushThrows(x) \/ Notify(x)
  PROVE  IInv'
<1> USE DEF IInv
<1>1. TypeOK'
  <2>1. m_queue' \in Seq(Tasks)
    <3>1. CASE Push(x)
      BY <3>1, PushedQueue DEF PlaceInv, Push
    <3>2. CASE PushThrows(x) \/ Notify(x)
      BY <3>2 DEF TypeOK, PushThrows, Notify, poolVars
    <3>. QED
      BY <3>1, <3>2
  <2>2. wpc' \in [Workers -> {"test", "asleep", "run", "gone"}]
    BY NotifyWakes DEF TypeOK, Push, PushThrows, Notify, workVars, Woken
  <2>. QED
    BY <2>1, <2>2 DEF TypeOK, Push, PushThrows, Notify, poolVars, workVars, stopVars
<1>2. /\ UNCHANGED <<task, executed, dropped>>
      /\ \A w \in Workers : wpc'[w] = wpc[w] \/ (wpc[w] = "asleep" /\ wpc'[w] = "test")
  BY NotifyWakes DEF Push, PushThrows, Notify, workVars, Woken
<1>3. PlaceInv'
  <2>1. CASE Push(x)
    <3>1. /\ NoRepeats' /\ Queued' = Queued \cup {x}
          /\ ~Accepted(x) /\ \A y \in Tasks : Accepted(y)' <=> Accepted(y) \/ y = x
      BY <2>1, PushedQueue DEF Push, TypeOK, PlaceInv, Accepted
    <3>. QED
      BY <1>2, <3>1 DEF PlaceInv, Runs
  <2>2. CASE PushThrows(x) \/ Notify(x)
    <3>1. m_queue' = m_queue /\ \A y \in Tasks : Accepted(y)' <=> Accepted(y)
      BY <2>2 DEF PushThrows, Notify, TypeOK, Accepted, poolVars
    <3>. QED
      BY <1>2, <3>1 DEF PlaceInv, Runs, NoRepeats, Queued
  <2>. QED
    BY <2>1, <2>2
<1>4. JoinInv'
  <2>1. UNCHANGED <<m_threads, spc, sync, joined>>
    BY DEF Push, PushThrows, Notify, poolVars, stopVars
  <2>2. AllGone => AllGone'
    BY <1>2 DEF AllGone
  <2>. QED
    BY <2>1, <2>2 DEF JoinInv, Raced, Joining, InDtor
<1>. QED
  BY <1>1, <1>3, <1>4

(* A worker. *)
LEMMA WorkerKeeps ==
  ASSUME IInv, NEW w \in Workers, WorkerStep(w) \/ SpuriousWakeup(w)
  PROVE  IInv'
<1> USE DEF IInv
<1>0. Sleep(w) \/ Take(w) \/ Run(w) \/ Leave(w) \/ SpuriousWakeup(w)
  BY DEF WorkerStep
<1>1. /\ UNCHANGED <<m_stopped, m_threads, ppc, spc, sync, joined, dropped>>
      /\ wpc[w] # "gone"
      /\ \A v \in Workers \ {w} : wpc'[v] = wpc[v]
  BY <1>0 DEF Sleep, Take, Run, Leave, SpuriousWakeup, poolVars, stopVars, TypeOK
<1>2. CASE Sleep(w) \/ Leave(w) \/ SpuriousWakeup(w)
  <2>1. UNCHANGED <<m_queue, task, executed>> /\ wpc[w] # "run" /\ wpc'[w] # "run"
        /\ wpc' \in [Workers -> {"test", "asleep", "run", "gone"}]
    BY <1>2 DEF Sleep, Leave, SpuriousWakeup, poolVars, TypeOK
  <2>2. TypeOK' /\ PlaceInv'
    BY <1>1, <2>1, SameQueue DEF TypeOK, PlaceInv, Accepted, Runs
  <2>. QED
    BY <1>1, <2>2 DEF JoinInv, Raced, AllGone, Joining, InDtor
<1>3. CASE Take(w)
  <2>1. /\ Head(m_queue) \in Queued /\ Head(m_queue) \in Tasks
        /\ m_queue' \in Seq(Tasks) /\ NoRepeats'
        /\ Queued' = Queued \ {Head(m_queue)}
    BY <1>3, TakenQueue DEF Take, PlaceInv
  <2>2. /\ wpc[w] = "test" /\ wpc'[w] = "run" /\ task'[w] = Head(m_queue) /\ executed' = executed
        /\ \A v \in Workers \ {w} : task'[v] = task[v]
        /\ wpc' \in [Workers -> {"test", "asleep", "run", "gone"}]
        /\ task' \in [Workers -> Tasks \cup {NoTask}]
    BY <1>3, <2>1 DEF Take, TypeOK
  <2>3. TypeOK'
    BY <1>1, <2>1, <2>2 DEF TypeOK
  <2>4. \A x \in Tasks : Runs(x)' <=> Runs(x) \/ x = Head(m_queue)
    BY <2>1, <2>2, PoolAssumption DEF Runs, PlaceInv
  <2>5. \A x \in Tasks : Accepted(x)' <=> Accepted(x)
    BY <1>1 DEF Accepted
  <2>6. PlaceInv'
    <3>1. /\ \A v \in Workers : task'[v] # NoTask <=> wpc'[v] = "run"
          /\ \A u, v \in Workers : u # v => task'[u] = NoTask \/ task'[u] # task'[v]
      BY <1>1, <2>1, <2>2, PoolAssumption DEF PlaceInv, Runs
    <3>. QED
      BY <1>1, <2>1, <2>2, <2>4, <2>5, <3>1 DEF PlaceInv
  <2>. QED
    BY <1>1, <2>2, <2>3, <2>6 DEF JoinInv, Raced, AllGone, Joining, InDtor
<1>4. CASE Run(w)
  <2>1. task[w] \in Tasks /\ Runs(task[w])
    BY <1>4 DEF Run, TypeOK, PlaceInv, Runs
  <2>2. /\ wpc[w] = "run" /\ wpc'[w] = "test" /\ task'[w] = NoTask /\ m_queue' = m_queue
        /\ \A v \in Workers \ {w} : task'[v] = task[v]
        /\ executed' = [executed EXCEPT ![task[w]] = executed[task[w]] + 1]
        /\ wpc' \in [Workers -> {"test", "asleep", "run", "gone"}]
        /\ task' \in [Workers -> Tasks \cup {NoTask}]
    BY <1>4 DEF Run, TypeOK, poolVars
  <2>3. /\ executed' \in [Tasks -> Nat] /\ executed'[task[w]] = 1
        /\ \A x \in Tasks \ {task[w]} : executed'[x] = executed[x]
    BY <2>1, <2>2 DEF TypeOK, PlaceInv
  <2>4. TypeOK'
    BY <1>1, <2>2, <2>3 DEF TypeOK
  <2>5. \A x \in Tasks : Runs(x)' <=> Runs(x) /\ x # task[w]
    BY <2>1, <2>2, PoolAssumption DEF Runs, PlaceInv
  <2>6. \A x \in Tasks : Accepted(x)' <=> Accepted(x)
    BY <1>1 DEF Accepted
  <2>7. PlaceInv'
    <3>1. /\ \A v \in Workers : task'[v] # NoTask <=> wpc'[v] = "run"
          /\ \A u, v \in Workers : u # v => task'[u] = NoTask \/ task'[u] # task'[v]
      BY <1>1, <2>2 DEF PlaceInv
    <3>. QED
      BY <1>1, <2>1, <2>2, <2>3, <2>5, <2>6, <3>1, SameQueue DEF PlaceInv
  <2>. QED
    BY <1>1, <2>2, <2>4, <2>7 DEF JoinInv, Raced, AllGone, Joining, InDtor
<1>. QED
  BY <1>0, <1>2, <1>3, <1>4

(* stop and the destructor: what the start of either does to queue and tasks. *)
LEMMA StartKeeps ==
  ASSUME IInv, NEW s \in Stoppers, NEW cancelQueue \in BOOLEAN, NEW wait \in BOOLEAN,
         NEW to \in {"notify", "notifyDtor"}, StartStop(s, cancelQueue, wait, to)
  PROVE  /\ TypeOK' /\ PlaceInv'
         /\ UNCHANGED <<m_threads, wpc, joined>>
         /\ spc' = [spc EXCEPT ![s] = to] /\ sync' = [sync EXCEPT ![s] = wait]
<1> USE DEF IInv
<1>1. /\ UNCHANGED <<m_threads, wpc, task, executed, ppc, joined>> /\ m_stopped' = TRUE
      /\ spc' = [spc EXCEPT ![s] = to] /\ sync' = [sync EXCEPT ![s] = wait]
  BY DEF StartStop, workVars
<1>0. <<>> \in Seq(Tasks)
  OBVIOUS
<1>2. \/ m_queue' = <<>> /\ dropped' = dropped \cup Queued
      \/ UNCHANGED <<m_queue, dropped>>
  BY QueueType DEF StartStop
<1>3. m_queue' \in Seq(Tasks) /\ dropped' \subseteq Tasks
  BY <1>0, <1>2, QueueType DEF TypeOK
<1>4. TypeOK'
  BY <1>1, <1>3 DEF TypeOK
<1>5. \A x \in Tasks : (Accepted(x)' <=> Accepted(x)) /\ (Runs(x)' <=> Runs(x))
  BY <1>1 DEF Accepted, Runs
<1>6. CASE m_queue' = <<>> /\ dropped' = dropped \cup Queued
  <2>1. NoRepeats' /\ Queued' = {}
    BY <1>6 DEF NoRepeats, Queued
  <2>. QED
    BY <1>1, <1>4, <1>5, <1>6, <2>1 DEF PlaceInv
<1>7. CASE UNCHANGED <<m_queue, dropped>>
  BY <1>1, <1>4, <1>5, <1>7, SameQueue DEF PlaceInv
<1>. QED
  BY <1>2, <1>6, <1>7

(* A call of stop, or the destructor, of one stopper. *)
LEMMA StopperKeeps ==
  ASSUME IInv, NEW s \in Stoppers, Stop(s) \/ Destroy(s) \/ StopperStep(s)
  PROVE  IInv'
<1> USE DEF IInv, Raced
<1>1. CASE Stop(s)
  <2>1. PICK cancelQueue, wait \in BOOLEAN : StartStop(s, cancelQueue, wait, "notify")
    BY <1>1 DEF Stop
  <2>2. /\ TypeOK' /\ PlaceInv'
        /\ UNCHANGED <<m_threads, wpc, joined>>
        /\ spc' = [spc EXCEPT ![s] = "notify"] /\ sync' = [sync EXCEPT ![s] = wait]
    BY <2>1, StartKeeps
  <2>3. spc[s] \in {"idle", "returned"} /\ \A u \in Stoppers : ~InDtor(u) /\ spc[u] # "destroyed"
    BY <1>1 DEF Stop, InPool
  <2>. QED
    BY <2>2, <2>3 DEF JoinInv, AllGone, Joining, InDtor, TypeOK
<1>2. CASE Destroy(s)
  <2>1. /\ TypeOK' /\ PlaceInv'
        /\ UNCHANGED <<m_threads, wpc, joined>>
        /\ spc' = [spc EXCEPT ![s] = "notifyDtor"] /\ sync' = [sync EXCEPT ![s] = TRUE]
    BY <1>2, StartKeeps DEF Destroy
  <2>2. \A u \in Stoppers : spc[u] \in {"idle", "returned"}
    BY <1>2 DEF Destroy
  <2>. QED
    BY <2>1, <2>2 DEF JoinInv, AllGone, Joining, InDtor, TypeOK
<1>3. CASE StopNotifies(s)
  <2>1. /\ UNCHANGED <<m_queue, m_stopped, m_threads, task, executed, ppc, sync, joined, dropped>>
        /\ spc[s] \in {"notify", "notifyDtor"}
        /\ Woken
    BY <1>3, NotifyWakes DEF StopNotifies, poolVars
  <2>2. /\ spc' = [spc EXCEPT ![s] = AfterNotify(s)]
        /\ AfterNotify(s) = IF spc[s] = "notifyDtor" THEN "dtor" ELSE IF sync[s] THEN "move" ELSE "returned"
    BY <1>3, <2>1 DEF StopNotifies, AfterNotify
  <2>3. TypeOK'
    BY <2>1, <2>2 DEF TypeOK, Woken
  <2>4. PlaceInv'
    BY <2>1 DEF PlaceInv, Woken, Accepted, Runs, NoRepeats, Queued
  <2>5. AllGone => AllGone'
    BY <2>1 DEF AllGone, Woken
  <2>. QED
    BY <2>1, <2>2, <2>3, <2>4, <2>5 DEF JoinInv, Joining, InDtor, TypeOK
<1>4. CASE Move(s)
  <2>1. /\ UNCHANGED <<m_queue, m_stopped, wpc, task, executed, ppc, sync, dropped>>
        /\ spc[s] \in {"move", "dtor"} /\ m_threads' = {}
        /\ joined' = [joined EXCEPT ![s] = m_threads]
        /\ spc' = [spc EXCEPT ![s] = IF spc[s] = "move" THEN "join" ELSE "joinDtor"]
    BY <1>4 DEF Move, workVars
  <2>2. TypeOK'
    BY <2>1 DEF TypeOK
  <2>3. PlaceInv'
    BY <2>1 DEF PlaceInv, Accepted, Runs, NoRepeats, Queued
  <2>4. ASSUME ~Raced PROVE AllGone' \/ \E u \in Stoppers : (Joining(u) /\ joined[u] = Workers)'
    <3>1. CASE m_threads = Workers
      BY <2>1, <3>1 DEF Joining, TypeOK
    <3>2. CASE m_threads = {}
      BY <2>1, <2>4, <3>2 DEF JoinInv, AllGone, Joining, TypeOK
    <3>. QED
      BY <3>1, <3>2 DEF TypeOK
  <2>5. \A u \in Stoppers : spc'[u] = IF u # s THEN spc[u] ELSE IF spc[s] = "move" THEN "join" ELSE "joinDtor"
    BY <2>1 DEF TypeOK
  <2>. QED
    BY <2>1, <2>2, <2>3, <2>4, <2>5 DEF JoinInv, Raced, AllGone, InDtor
<1>5. CASE Join(s)
  <2>1. /\ UNCHANGED <<m_queue, m_stopped, m_threads, wpc, task, executed, ppc, sync, joined, dropped>>
        /\ spc[s] \in {"join", "joinDtor"} /\ \A w \in joined[s] : wpc[w] = "gone"
        /\ spc' = [spc EXCEPT ![s] = IF spc[s] = "join" THEN "returned" ELSE "destroyed"]
    BY <1>5 DEF Join, poolVars, workVars
  <2>2. TypeOK'
    BY <2>1 DEF TypeOK
  <2>3. PlaceInv'
    BY <2>1 DEF PlaceInv, Accepted, Runs, NoRepeats, Queued
  <2>4. \A u \in Stoppers : spc'[u] = IF u # s THEN spc[u] ELSE IF spc[s] = "join" THEN "returned" ELSE "destroyed"
    BY <2>1 DEF TypeOK
  <2>5. ~Raced => m_threads = {}
    BY <2>1 DEF JoinInv, Joining
  <2>6. Raced \/ AllGone \/ \E u \in Stoppers \ {s} : Joining(u) /\ joined[u] = Workers
    BY <2>1, <2>5 DEF JoinInv, AllGone
  <2>7. ~Raced /\ spc[s] = "joinDtor" => AllGone
    BY <2>6 DEF JoinInv, InDtor, Joining
  <2>8. AllGone' <=> AllGone
    BY <2>1 DEF AllGone
  <2>9. ~Raced /\ m_threads' = {} => AllGone' \/ \E u \in Stoppers : (Joining(u) /\ joined[u] = Workers)'
    BY <2>1, <2>4, <2>6, <2>8 DEF Joining
  <2>. QED
    BY <2>1, <2>2, <2>3, <2>4, <2>5, <2>7, <2>8, <2>9 DEF JoinInv, Raced, Joining, InDtor
<1>. QED
  BY <1>1, <1>2, <1>3, <1>4, <1>5 DEF StopperStep

(* Two stoppers that race. *)
LEMMA RaceKeeps ==
  ASSUME IInv, NEW s \in Stoppers, NEW u \in Stoppers, Race(s, u)
  PROVE  IInv'
<1>1. TypeOK'
  BY DEF IInv, TypeOK, Race, poolVars, workVars
<1>2. PlaceInv'
  BY DEF IInv, PlaceInv, Race, poolVars, workVars, Accepted, Runs, NoRepeats, Queued
<1>3. spc'[s] = "raced"
  BY DEF IInv, TypeOK, Race
<1>. QED
  BY <1>1, <1>2, <1>3 DEF IInv, JoinInv, Raced

(* Every step keeps the invariant. *)
LEMMA NextKeeps == IInv /\ [Next]_vars => IInv'
<1>1. ASSUME IInv, UNCHANGED vars PROVE IInv'
  BY <1>1 DEF IInv, vars, poolVars, workVars, stopVars, TypeOK, PlaceInv, JoinInv, Raced,
              Accepted, Runs, AllGone, Joining, InDtor, NoRepeats, Queued
<1>. QED
  BY <1>1, PushKeeps, WorkerKeeps, StopperKeeps, RaceKeeps DEF Next, Ended

(* The inductive invariant. *)
LEMMA Invariant == Spec => []IInv
BY InitInv, NextKeeps, PTL DEF Spec
-----------------------------------------------------------------------------
(* Type correctness. *)
THEOREM PoolTypeCorrect == Spec => []TypeOK
<1>1. IInv => TypeOK
  BY DEF IInv
<1>. QED
  BY <1>1, Invariant, PTL

(* In a set of which one element is asked for there are one or none. *)
LEMMA CountOne ==
  ASSUME NEW S, \A a, b \in S : a = b
  PROVE  Cardinality(S) = IF S = {} THEN 0 ELSE 1
<1>1. CASE S = {}
  BY <1>1, FS_EmptySet
<1>2. CASE S # {}
  <2>1. PICK a \in S : S = {a}
    BY <1>2
  <2>. QED
    BY <1>2, <2>1, FS_Singleton
<1>. QED
  BY <1>1, <1>2

(* A task that push has accepted is queued, running, done or dropped, and only one of
   these: none is lost between the queue and a worker, and none runs twice
   (TaskPool.cpp:34-122).                                                             *)
THEOREM PoolTasksKept == Spec => []TasksKept
<1>1. IInv => TasksKept
  <2> SUFFICES ASSUME IInv, NEW x \in Tasks
               PROVE  Places(x) = IF Accepted(x) THEN 1 ELSE 0
    BY DEF TasksKept, Accepted
  <2> USE DEF IInv
  <2>1. Cardinality({i \in DOMAIN m_queue : m_queue[i] = x}) = IF x \in Queued THEN 1 ELSE 0
    <3>1. DOMAIN m_queue = 1 .. Len(m_queue)
      BY DEF TypeOK
    <3>2. \A i, j \in {k \in DOMAIN m_queue : m_queue[k] = x} : i = j
      BY <3>1 DEF PlaceInv, NoRepeats
    <3>3. {k \in DOMAIN m_queue : m_queue[k] = x} = {} <=> x \notin Queued
      BY <3>1 DEF Queued
    <3>. QED
      BY <3>2, <3>3, CountOne
  <2>2. Cardinality(Running(x)) = IF Runs(x) THEN 1 ELSE 0
    <3>1. \A v, w \in Running(x) : v = w
      BY PoolAssumption DEF Running, PlaceInv
    <3>2. Running(x) = {} <=> ~Runs(x)
      BY DEF Running, Runs
    <3>. QED
      BY <3>1, <3>2, CountOne
  <2>. QED
    BY <2>1, <2>2 DEF Places, PlaceInv
<1>. QED
  BY <1>1, Invariant, PTL

(* Nobody is told that the threads are finished while they are not, unless another stop
   has taken them and waits or two have raced; and the destructor has waited for all
   (TaskPool.cpp:108-142).                                                             *)
THEOREM PoolThreadsJoined == Spec => []ThreadsJoined
<1>1. IInv => ThreadsJoined
  BY DEF IInv, JoinInv, ThreadsJoined, Raced, AllGone, Joining
<1>. QED
  BY <1>1, Invariant, PTL
=============================================================================
