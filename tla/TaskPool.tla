------------------------------ MODULE TaskPool ------------------------------
(***************************************************************************)
(* TaskPool (utils/TaskPool.cpp): worker threads that take tasks from a    *)
(* queue, and the calls push, stop and the destructor.  One action per     *)
(* critical section of m_mtx; both notifies come after the unlock and are  *)
(* steps of their own.  The program does not use the class.                *)
(***************************************************************************)
EXTENDS Naturals, Sequences, FiniteSets

CONSTANTS Workers,
          Tasks,      (* each is pushed at most once, by a thread of its own *)
          NoTask,
          Stoppers    (* threads that call stop, or the destructor           *)

ASSUME PoolAssumption == /\ IsFiniteSet(Workers)
                         /\ IsFiniteSet(Tasks)
                         /\ NoTask \notin Tasks

VARIABLES
  m_queue,
  m_stopped,
  m_threads,   (* the futures: all of the workers, or moved away             *)
  wpc,         (* each worker: "test" (about to look at the queue), "asleep", *)
               (* "run" (executing a task without the mutex), "gone"         *)
  task,        (* the task each worker is executing                          *)
  ppc,         (* each task: "new", "notify", "pushed" or "rejected"         *)
  spc,         (* each stopper: "idle", "notify", "move", "join", "returned", *)
               (* or the same steps inside the destructor; "raced"           *)
  sync,        (* its argument                                               *)
  joined,      (* the futures it has moved out of m_threads                  *)
  executed,    (* history: how often each task has run                       *)
  dropped      (* history: the tasks that a cancelQueue has cleared          *)

poolVars == <<m_queue, m_stopped, m_threads>>
workVars == <<wpc, task, executed>>
stopVars == <<spc, sync, joined>>
vars == <<poolVars, workVars, ppc, stopVars, dropped>>

-----------------------------------------------------------------------------
(* push *)
InDtor(s) == spc[s] \in {"notifyDtor", "dtor", "joinDtor"}
InPool    == \A s \in Stoppers : ~InDtor(s) /\ spc[s] \notin {"destroyed", "raced"}

Push_Moved(x) == /\ InPool
                 /\ ppc[x] = "new"
                 /\ ~m_stopped
                 /\ m_queue' = Append(m_queue, NoTask)
                 /\ ppc' = [ppc EXCEPT ![x] = "notify"]
                 /\ UNCHANGED <<m_stopped, m_threads, workVars, stopVars, dropped>>
Push(x) == /\ InPool
           /\ ppc[x] = "new"
           /\ ~m_stopped
           /\ m_queue' = Append(m_queue, x)
           /\ ppc' = [ppc EXCEPT ![x] = "notify"]
           /\ UNCHANGED <<m_stopped, m_threads, workVars, stopVars, dropped>>

PushThrows(x) == /\ InPool
                 /\ ppc[x] = "new"
                 /\ m_stopped
                 /\ ppc' = [ppc EXCEPT ![x] = "rejected"]
                 /\ UNCHANGED <<poolVars, workVars, stopVars, dropped>>

Asleep == {w \in Workers : wpc[w] = "asleep"}

(* m_cv.notify_one and m_cv.notify_all *)
WakeOne == IF Asleep = {} THEN {wpc} ELSE {[wpc EXCEPT ![w] = "test"] : w \in Asleep}

WakeAll == [w \in Workers |-> IF w \in Asleep THEN "test" ELSE wpc[w]]

Notify_None(x) == /\ ppc[x] = "notify"
                  /\ ppc' = [ppc EXCEPT ![x] = "pushed"]
                  /\ UNCHANGED <<poolVars, workVars, stopVars, dropped>>
Notify(x) == /\ ppc[x] = "notify"
             /\ ppc' = [ppc EXCEPT ![x] = "pushed"]
             /\ wpc' \in WakeOne
             /\ UNCHANGED <<poolVars, task, executed, stopVars, dropped>>
-----------------------------------------------------------------------------
(* workerThread *)
Sleep(w) == /\ wpc[w] = "test"
            /\ ~m_stopped /\ m_queue = <<>>
            /\ wpc' = [wpc EXCEPT ![w] = "asleep"]
            /\ UNCHANGED <<poolVars, task, executed, ppc, stopVars, dropped>>

SpuriousWakeup(w) == /\ wpc[w] = "asleep"
                     /\ wpc' = [wpc EXCEPT ![w] = "test"]
                     /\ UNCHANGED <<poolVars, task, executed, ppc, stopVars, dropped>>

Take_Copies(w) == /\ wpc[w] = "test"
                  /\ m_queue # <<>>
                  /\ task' = [task EXCEPT ![w] = Head(m_queue)]
                  /\ wpc' = [wpc EXCEPT ![w] = "run"]
                  /\ UNCHANGED <<poolVars, executed, ppc, stopVars, dropped>>
Take(w) == /\ wpc[w] = "test"
           /\ m_queue # <<>>
           /\ task' = [task EXCEPT ![w] = Head(m_queue)]
           /\ m_queue' = Tail(m_queue)
           /\ wpc' = [wpc EXCEPT ![w] = "run"]
           /\ UNCHANGED <<m_stopped, m_threads, executed, ppc, stopVars, dropped>>

Run(w) == /\ wpc[w] = "run"
          /\ executed' = [executed EXCEPT ![task[w]] = @ + 1]
          /\ task' = [task EXCEPT ![w] = NoTask]
          /\ wpc' = [wpc EXCEPT ![w] = "test"]
          /\ UNCHANGED <<poolVars, ppc, stopVars, dropped>>

Leave(w) == /\ wpc[w] = "test"
            /\ m_stopped /\ m_queue = <<>>
            /\ wpc' = [wpc EXCEPT ![w] = "gone"]
            /\ UNCHANGED <<poolVars, task, executed, ppc, stopVars, dropped>>

WorkerStep(w) == Sleep(w) \/ Take(w) \/ Run(w) \/ Leave(w)
-----------------------------------------------------------------------------
(* stopImpl(cancelQueue, sync, ..); the destructor is stopImpl(true, true, ..). *)
Queued == {m_queue[i] : i \in DOMAIN m_queue}

StartStop(s, cancelQueue, wait, to) ==
  /\ m_stopped' = TRUE
  /\ IF cancelQueue THEN m_queue' = <<>> /\ dropped' = dropped \cup Queued
                    ELSE UNCHANGED <<m_queue, dropped>>
  /\ spc' = [spc EXCEPT ![s] = to]
  /\ sync' = [sync EXCEPT ![s] = wait]
  /\ UNCHANGED <<m_threads, workVars, ppc, joined>>

Stop(s) == /\ InPool
           /\ spc[s] \in {"idle", "returned"}
           /\ \E cancelQueue, wait \in BOOLEAN : StartStop(s, cancelQueue, wait, "notify")

(* The owner destroys the pool when nobody else is inside a call of it. *)
Destroy(s) == /\ \A u \in Stoppers : spc[u] \in {"idle", "returned"}
              /\ \A x \in Tasks : ppc[x] # "notify"
              /\ StartStop(s, TRUE, TRUE, "notifyDtor")

AfterNotify(s) == CASE spc[s] = "notifyDtor" -> "dtor"
                    [] spc[s] = "notify" /\ sync[s] -> "move"
                    [] OTHER -> "returned"

StopNotifies_One(s) == /\ spc[s] \in {"notify", "notifyDtor"}
                       /\ wpc' \in WakeOne
                       /\ spc' = [spc EXCEPT ![s] = AfterNotify(s)]
                       /\ UNCHANGED <<poolVars, task, executed, ppc, sync, joined, dropped>>
StopNotifies(s) == /\ spc[s] \in {"notify", "notifyDtor"}
                   /\ wpc' = WakeAll
                   /\ spc' = [spc EXCEPT ![s] = AfterNotify(s)]
                   /\ UNCHANGED <<poolVars, task, executed, ppc, sync, joined, dropped>>

(* auto threads = std::move(m_threads), without the mutex: whoever comes second moves
   nothing, and two at once race for the futures.                                     *)
Move(s) == /\ spc[s] \in {"move", "dtor"}
           /\ joined' = [joined EXCEPT ![s] = m_threads]
           /\ m_threads' = {}
           /\ spc' = [spc EXCEPT ![s] = IF spc[s] = "move" THEN "join" ELSE "joinDtor"]
           /\ UNCHANGED <<m_queue, m_stopped, workVars, ppc, sync, dropped>>

(* What becomes of two stoppers that race, and of the futures, is undefined: neither of
   them goes on in the model, and the pool takes no call.                              *)
Race(s, u) == /\ spc[s] = "move" /\ spc[u] = "move" /\ m_threads # {}
              /\ spc' = [spc EXCEPT ![s] = "raced", ![u] = "raced"]
              /\ UNCHANGED <<poolVars, workVars, ppc, sync, joined, dropped>>

Raced == \E s \in Stoppers : spc[s] = "raced"

(* get(), or the futures' destructors, wait for the threads. *)
Join_First(s) == /\ spc[s] \in {"join", "joinDtor"}
                 /\ joined[s] = {} \/ \E w \in joined[s] : wpc[w] = "gone"
                 /\ spc' = [spc EXCEPT ![s] = IF spc[s] = "join" THEN "returned" ELSE "destroyed"]
                 /\ UNCHANGED <<poolVars, workVars, ppc, sync, joined, dropped>>
Join(s) == /\ spc[s] \in {"join", "joinDtor"}
           /\ \A w \in joined[s] : wpc[w] = "gone"
           /\ spc' = [spc EXCEPT ![s] = IF spc[s] = "join" THEN "returned" ELSE "destroyed"]
           /\ UNCHANGED <<poolVars, workVars, ppc, sync, joined, dropped>>

StopperStep(s) == StopNotifies(s) \/ Move(s) \/ Join(s)

Ended == (\E s \in Stoppers : spc[s] \in {"destroyed", "raced"}) /\ UNCHANGED vars
-----------------------------------------------------------------------------
Init == /\ m_queue = <<>>
        /\ m_stopped = FALSE
        /\ m_threads = Workers
        /\ wpc = [w \in Workers |-> "test"]
        /\ task = [w \in Workers |-> NoTask]
        /\ ppc = [x \in Tasks |-> "new"]
        /\ spc = [s \in Stoppers |-> "idle"]
        /\ sync = [s \in Stoppers |-> FALSE]
        /\ joined = [s \in Stoppers |-> {}]
        /\ executed = [x \in Tasks |-> 0]
        /\ dropped = {}

Next == \/ \E x \in Tasks : Push(x) \/ PushThrows(x) \/ Notify(x)
        \/ \E w \in Workers : WorkerStep(w) \/ SpuriousWakeup(w)
        \/ \E s \in Stoppers : Stop(s) \/ Destroy(s) \/ StopperStep(s)
        \/ \E s, u \in Stoppers : s # u /\ Race(s, u)
        \/ Ended

(* The threads are scheduled, tasks end, and a call that has begun goes on. *)
Fairness == /\ \A w \in Workers : WF_vars(WorkerStep(w))
            /\ \A x \in Tasks : WF_vars(Notify(x))
            /\ \A s \in Stoppers : WF_vars(StopperStep(s))

Spec == Init /\ [][Next]_vars /\ Fairness
-----------------------------------------------------------------------------
(* The type invariant. *)
TypeOK == /\ m_queue \in Seq(Tasks)
          /\ m_stopped \in BOOLEAN
          /\ m_threads \in {Workers, {}}
          /\ wpc \in [Workers -> {"test", "asleep", "run", "gone"}]
          /\ task \in [Workers -> Tasks \cup {NoTask}]
          /\ ppc \in [Tasks -> {"new", "notify", "pushed", "rejected"}]
          /\ spc \in [Stoppers -> {"idle", "notify", "move", "join", "returned",
                                   "notifyDtor", "dtor", "joinDtor", "destroyed", "raced"}]
          /\ sync \in [Stoppers -> BOOLEAN]
          /\ joined \in [Stoppers -> {Workers, {}}]
          /\ executed \in [Tasks -> Nat]
          /\ dropped \subseteq Tasks

(* A task that push has accepted is in the queue, in the hands of one worker, done or
   dropped by a cancelQueue, and in exactly one of these places: none is lost between
   the queue and a worker, and none runs twice.                                       *)
Running(x) == {w \in Workers : task[w] = x}

Places(x) == Cardinality({i \in DOMAIN m_queue : m_queue[i] = x}) + Cardinality(Running(x))
               + executed[x] + (IF x \in dropped THEN 1 ELSE 0)

TasksKept == \A x \in Tasks : Places(x) = IF ppc[x] \in {"notify", "pushed"} THEN 1 ELSE 0

(* Once the destructor has returned no thread uses the pool any more.  "wait until
   threads are finished" (stopImpl): a synchronous stop that has returned has waited
   for the threads, or has left that to another one, which has taken them from
   m_threads before and still waits.  It is promised where no two stops race.          *)
ThreadsJoined == ~Raced => \A s \in Stoppers :
  spc[s] = "destroyed" \/ (spc[s] = "returned" /\ sync[s])
    => \/ \A w \in Workers : wpc[w] = "gone"
       \/ spc[s] = "returned" /\ \E u \in Stoppers \ {s} : spc[u] \in {"join", "joinDtor"}

(* Every accepted task runs in the end, unless a stop cancels the queue: no notify that
   comes after the unlock is lost while a worker sleeps, and the workers of a stopped
   pool do not leave before they have drained the queue.                              *)
TasksRun == \A x \in Tasks : ppc[x] = "notify" ~> executed[x] = 1 \/ x \in dropped

(* stop and the destructor return, unless two stops race. *)
StopsReturn == \A s \in Stoppers : spc[s] \notin {"idle", "returned", "destroyed"}
                 ~> spc[s] \in {"returned", "destroyed", "raced"}
=============================================================================
