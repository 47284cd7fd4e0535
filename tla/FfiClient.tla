------------------------------ MODULE FfiClient ------------------------------
(***************************************************************************)
(* The C ABI client (aurorix-ffi-c, lib.rs) under the managed client that  *)
(* calls it (Interop/AurorixClient.cs): asynchronous operations and event  *)
(* subscriptions, each with a worker thread of its own, the release of     *)
(* their handles, and a disposal that shuts the client down while other    *)
(* threads are in the middle of calls on it.  Every client owns one host,  *)
(* whose steps are those of CoreHost.                                      *)
(*                                                                         *)
(* A job is an operation or a subscription.  What a request asks, what an  *)
(* answer says and the numbers of events are left out: a worker reports    *)
(* once, whatever it reports.                                              *)
(***************************************************************************)
EXTENDS Naturals, FiniteSets

CONSTANTS
  Hosts,           \* a client is named by its host
  Threads,         \* threads that call the managed client
  Operations, Subscriptions,
  NoHost, NoThread, NoJob

Jobs == Operations \cup Subscriptions

ASSUME FfiClientAssumption ==
  /\ Operations \cap Subscriptions = {}
  /\ NoHost \notin Hosts
  /\ NoThread \notin Threads
  /\ NoJob \notin Jobs

VARIABLES
  hostActive, lifecycle, services, lock, accepting, guards, dropped, at, freed,
               \* the hosts, see CoreHost
  shutdown,    \* clients whose native shutdown flag is set
  disposed,    \* clients whose managed Dispose has begun
  closed,      \* clients whose safe handle is closed
  released,    \* clients whose native handle is freed
  owner,       \* the client of each job that was started
  worker,      \* how far the worker thread of each job is
  cancelled,   \* jobs whose worker was told to stop
  taken,       \* jobs whose join handle somebody has taken
  answered,    \* operations whose completion callback has run
  closing,     \* how far the release of each job's handle is
  doing        \* the managed call each thread is in

hostVars   == <<hostActive, lifecycle, services, lock, accepting, guards, dropped, at,
                freed>>
clientVars == <<shutdown, disposed, closed, released>>
jobVars    == <<owner, worker, cancelled, taken, answered, closing>>
vars       == <<hostVars, clientVars, jobVars, doing>>

\* The C ABI does not use the operation registry of the host, and it calls
\* shutdown on a host as often as its caller wishes.
Core == INSTANCE CoreHost WITH
  Callbacks <- Jobs, Operations <- {},
  registered <- [h \in Hosts |-> {}], cancelled <- {}

WorkerStates  == {"none", "spawned", "emitting", "inside", "called", "exited"}
ClosingStates == {"open", "joining", "joined", "freed"}
Places == {"idle", "referenced", "calling", "leaving",
           "admission", "joining", "waiting", "host"}

TypeOK ==
  /\ Core!TypeOK
  /\ shutdown \subseteq disposed
  /\ released \subseteq closed
  /\ closed \subseteq shutdown
  /\ disposed \subseteq Hosts
  /\ owner \in [Jobs -> Hosts \cup {NoHost}]
  /\ worker \in [Jobs -> WorkerStates]
  /\ cancelled \subseteq Jobs
  /\ taken \subseteq Jobs
  /\ answered \subseteq Operations
  /\ closing \in [Jobs -> ClosingStates]
  /\ doing \in [Threads -> [place : Places, client : Hosts \cup {NoHost},
                            job : Jobs \cup {NoJob}, todo : SUBSET Jobs,
                            releasing : BOOLEAN]]

\* Where a thread is in a managed call: the client, the job it starts or waits
\* for, the jobs it has still to join, and whether it releases the handle.
Call(place, h, j, todo, releasing) ==
  [place |-> place, client |-> h, job |-> j, todo |-> todo, releasing |-> releasing]

Idle == Call("idle", NoHost, NoJob, {}, FALSE)

Init ==
  /\ hostActive = FALSE
  /\ lifecycle = [h \in Hosts |-> "None"]
  /\ services = {}
  /\ lock = [h \in Hosts |-> NoThread]
  /\ accepting = {}
  /\ guards = [h \in Hosts |-> {}]
  /\ dropped = {}
  /\ at = [t \in Threads |-> Core!Idle]
  /\ freed = [h \in Hosts |-> "none"]
  /\ shutdown = {}
  /\ disposed = {}
  /\ closed = {}
  /\ released = {}
  /\ owner = [j \in Jobs |-> NoHost]
  /\ worker = [j \in Jobs |-> "none"]
  /\ cancelled = {}
  /\ taken = {}
  /\ answered = {}
  /\ closing = [j \in Jobs |-> "open"]
  /\ doing = [t \in Threads |-> Idle]

IsFree(t)       == doing[t].place = "idle" /\ Core!IsAt(t, "idle")
Is(t, place)    == doing[t].place = place
Client(t)       == doing[t].client
Exists(h)       == lifecycle[h] # "None"
Put(t, call)    == doing' = [doing EXCEPT ![t] = call]
Goto(t, place)  == Put(t, Call(place, doing[t].client, doing[t].job, doing[t].todo,
                               doing[t].releasing))
Return(t)       == Put(t, Idle)
JobsOf(h)       == {j \in Jobs : owner[j] = h}
Work(j, state)  == worker' = [worker EXCEPT ![j] = state]
-----------------------------------------------------------------------------
(* The host. *)

Create(t, h) ==
  /\ IsFree(t)
  /\ Core!Start(t, h)
  /\ UNCHANGED <<clientVars, jobVars, doing>>

CoreStep(t) ==
  /\ \/ Core!StartSucceeds(t)
     \/ Core!StartFails(t)
     \/ Core!CancelAll(t)
     \/ Core!CloseFence(t)
     \/ Core!WaitEnds(t)
     \/ Core!WaitTimesOut(t)
     \/ Core!ReleaseServices(t)
     \/ Core!MarkStopped(t)
     \/ Core!FreeSlot(t)
  /\ UNCHANGED <<clientVars, jobVars, doing>>
-----------------------------------------------------------------------------
(* Starting a job: WithClientHandle around the native call. *)

\* DangerousAddRef throws on a closed handle.
AddRef(t, h, j) ==
  /\ IsFree(t)
  /\ Exists(h)
  /\ h \notin closed
  /\ worker[j] = "none"
  /\ \A u \in Threads : doing[u].job # j
  /\ Put(t, Call("referenced", h, j, {}, FALSE))
  /\ UNCHANGED <<hostVars, clientVars, jobVars>>

CheckDisposed(t) ==
  /\ Is(t, "referenced")
  /\ Goto(t, IF Client(t) \in disposed THEN "leaving" ELSE "calling")
  /\ UNCHANGED <<hostVars, clientVars, jobVars>>

Refuses(h) == h \in shutdown

\* Under the admission lock, which a shutdown takes too.
StartJob(t) ==
  /\ Is(t, "calling")
  /\ Goto(t, "leaving")
  /\ LET j == doing[t].job IN
     IF Refuses(Client(t))
     THEN UNCHANGED jobVars
     ELSE /\ owner' = [owner EXCEPT ![j] = Client(t)]
          /\ Work(j, "spawned")
          /\ UNCHANGED <<cancelled, taken, answered, closing>>
  /\ UNCHANGED <<hostVars, clientVars>>

\* The threads that hold a reference to a client's safe handle.
Referring(h) ==
  {t \in Threads : Client(t) = h /\ doing[t].place \in {"referenced", "calling", "leaving"}}

\* Mutant: closing the handle releases it although calls are in progress.
MutantLast(h, t) == TRUE
Last(h, t) == Referring(h) \subseteq {t}

Release(t) == Put(t, Call("admission", Client(t), NoJob, {}, TRUE))

\* DangerousRelease: the last reference to a closed handle releases the client.
DropRef(t) ==
  /\ Is(t, "leaving")
  /\ IF Client(t) \in closed /\ Last(Client(t), t) THEN Release(t) ELSE Return(t)
  /\ UNCHANGED <<hostVars, clientVars, jobVars>>
-----------------------------------------------------------------------------
(* Disposing a client: a native shutdown, then the release of the handle, *)
(* which shuts down again.                                                *)

Dispose(t, h) ==
  /\ IsFree(t)
  /\ Exists(h)
  /\ h \notin disposed
  /\ disposed' = disposed \cup {h}
  /\ Put(t, Call("admission", h, NoJob, {}, FALSE))
  /\ UNCHANGED <<hostVars, shutdown, closed, released, jobVars>>

Flagged(h) == shutdown \cup {h}

\* The first shutdown of a client takes stock of its jobs; a later one joins
\* nobody.
TakeAdmission(t) ==
  /\ Is(t, "admission")
  /\ shutdown' = Flagged(Client(t))
  /\ Put(t, Call("joining", Client(t), NoJob,
                 IF Client(t) \in shutdown THEN {} ELSE JobsOf(Client(t)),
                 doing[t].releasing))
  /\ UNCHANGED <<hostVars, disposed, closed, released, jobVars>>

\* join_worker takes the handle under its lock; whoever finds none goes on.
Takes(j) == j \notin taken

\* Operations first.
JoinNext(t) ==
  /\ Is(t, "joining")
  /\ \E j \in doing[t].todo :
       /\ j \in Operations \/ doing[t].todo \subseteq Subscriptions
       /\ cancelled' = cancelled \cup {j}
       /\ taken' = taken \cup {j}
       /\ Put(t, Call(IF Takes(j) THEN "waiting" ELSE "joining", Client(t),
                      IF Takes(j) THEN j ELSE NoJob, doing[t].todo \ {j},
                      doing[t].releasing))
  /\ UNCHANGED <<hostVars, clientVars, owner, worker, answered, closing>>

Joined(t) ==
  /\ Is(t, "waiting")
  /\ worker[doing[t].job] = "exited"
  /\ Put(t, Call("joining", Client(t), NoJob, doing[t].todo, doing[t].releasing))
  /\ UNCHANGED <<hostVars, clientVars, jobVars>>

CallHost(t) ==
  /\ Is(t, "joining")
  /\ doing[t].todo = {}
  /\ Core!Shutdown(t, Client(t))
  /\ Goto(t, "host")
  /\ UNCHANGED <<clientVars, jobVars>>

\* Whether or not the shutdown was complete, the handle is closed and, without
\* references, released.
HostReturned(t) ==
  /\ Is(t, "host")
  /\ Core!IsAt(t, "idle")
  /\ IF doing[t].releasing
     THEN /\ released' = released \cup {Client(t)}
          /\ Return(t)
          /\ UNCHANGED closed
     ELSE /\ closed' = closed \cup {Client(t)}
          /\ IF Last(Client(t), t) THEN Release(t) ELSE Return(t)
          /\ UNCHANGED released
  /\ UNCHANGED <<hostVars, shutdown, disposed, jobVars>>

\* The host goes with the last of the client's handle, its workers and the
\* handles of its jobs, on whatever thread that is.
LastReference(t, h) ==
  /\ IsFree(t)
  /\ h \in released
  /\ \A j \in JobsOf(h) : worker[j] = "exited" /\ closing[j] \in {"joined", "freed"}
  /\ Core!Drop(t, h)
  /\ UNCHANGED <<clientVars, jobVars, doing>>
-----------------------------------------------------------------------------
(* Workers. *)

\* An event sink that was cancelled is not called.
Emit(j) ==
  /\ j \in Subscriptions
  /\ worker[j] = "spawned"
  /\ Work(j, IF j \in cancelled THEN "exited" ELSE "emitting")
  /\ UNCHANGED <<hostVars, clientVars, owner, cancelled, taken, answered, closing, doing>>

Refused(j) == Work(j, "exited")

\* An operation completes whether cancelled or not, with one outcome or the
\* other.  A fence that is closed leaves the caller without an answer.
EnterFence(j) ==
  /\ worker[j] = IF j \in Operations THEN "spawned" ELSE "emitting"
  /\ IF owner[j] \in accepting
     THEN Core!TryEnter(j, owner[j]) /\ Work(j, "inside")
     ELSE Refused(j) /\ UNCHANGED hostVars
  /\ UNCHANGED <<clientVars, owner, cancelled, taken, answered, closing, doing>>

\* The managed callback finds its state by the context it was given.
Callback(j) ==
  /\ worker[j] = "inside"
  /\ Work(j, "called")
  /\ answered' = IF j \in Operations THEN answered \cup {j} ELSE answered
  /\ UNCHANGED <<hostVars, clientVars, owner, cancelled, taken, closing, doing>>

Leave(j) ==
  /\ worker[j] = "called"
  /\ Core!Leave(j)
  /\ Work(j, "exited")
  /\ UNCHANGED <<clientVars, owner, cancelled, taken, answered, closing, doing>>
-----------------------------------------------------------------------------
(* Closing a job: an awaited call that has its answer, or the disposal of a *)
(* subscription, on a thread of the pool.                                   *)

\* Mutant: the join handle is dropped, not joined.
MutantMustJoin(j) == FALSE
MustJoin(j) == Takes(j)

Close(j) ==
  /\ worker[j] # "none"
  /\ closing[j] = "open"
  /\ j \in Operations => j \in answered
  /\ cancelled' = cancelled \cup {j}
  /\ taken' = taken \cup {j}
  /\ closing' = [closing EXCEPT ![j] = IF MustJoin(j) THEN "joining" ELSE "joined"]
  /\ UNCHANGED <<hostVars, clientVars, owner, worker, answered, doing>>

\* Mutant: the closer of a handle that is joined waits for an answer, which a
\* subscription does not have.
MutantEnded(j) == worker[j] = "exited" /\ j \in answered
Ended(j) == worker[j] = "exited"

CloserJoined(j) ==
  /\ closing[j] = "joining"
  /\ Ended(j)
  /\ closing' = [closing EXCEPT ![j] = "joined"]
  /\ UNCHANGED <<hostVars, clientVars, owner, worker, cancelled, taken, answered, doing>>

FreeContext(j) ==
  /\ closing[j] = "joined"
  /\ closing' = [closing EXCEPT ![j] = "freed"]
  /\ UNCHANGED <<hostVars, clientVars, owner, worker, cancelled, taken, answered, doing>>
-----------------------------------------------------------------------------
Begins(t) ==
  \E h \in Hosts :
    \/ Create(t, h)
    \/ \E j \in Jobs : AddRef(t, h, j)
    \/ Dispose(t, h)
    \/ LastReference(t, h)

\* The steps of a call that is in progress.
Continues(t) ==
  \/ CheckDisposed(t)
  \/ StartJob(t)
  \/ DropRef(t)
  \/ TakeAdmission(t)
  \/ JoinNext(t)
  \/ Joined(t)
  \/ CallHost(t)
  \/ HostReturned(t)
  \/ CoreStep(t)

Works(j) == Emit(j) \/ EnterFence(j) \/ Callback(j) \/ Leave(j)

Closes(j) == CloserJoined(j) \/ FreeContext(j)

Next ==
  \/ \E t \in Threads : Begins(t) \/ Continues(t)
  \/ \E j \in Jobs : Works(j) \/ Close(j) \/ Closes(j)

Spec == Init /\ [][Next]_vars

\* Threads run on, callbacks return, and an awaited call closes its handle; a
\* subscription need never be disposed, nor a client.
FairSpec ==
  /\ Spec
  /\ \A t \in Threads : WF_vars(Continues(t))
  /\ \A j \in Jobs : WF_vars(Works(j)) /\ WF_vars(Closes(j))
  /\ \A o \in Operations : WF_vars(Close(o))
-----------------------------------------------------------------------------
(* Properties. *)

\* While a native call uses a client, nobody is releasing its handle and nobody
\* has: calls, disposal and the release that the last reference triggers, on
\* any threads (AurorixClient.cs WithClientHandle, Dispose).
InNativeCall(t, h) ==
  Client(t) = h /\ doing[t].place \in {"calling", "admission", "joining", "waiting", "host"}

ClientHandleIsAlive ==
  \A t \in Threads, h \in Hosts : InNativeCall(t, h) =>
    /\ h \notin released
    /\ \A u \in Threads \ {t} : ~(InNativeCall(u, h) /\ doing[u].releasing)

\* A worker has ended once the release of its own handle, or the disposal of
\* its client, is past the join, as long as the other of the two has not begun.
JoinIsAFence ==
  \A j \in Jobs :
    \/ closing[j] \in {"joined", "freed"} /\ owner[j] \notin shutdown
    \/ closing[j] = "open" /\ owner[j] \in closed
    => worker[j] = "exited"

\* What lib.rs promises of a subscription, whatever else goes on: when its
\* cancellation has returned, its sink is not being called.
CancelIsAFence ==
  \A s \in Subscriptions :
    closing[s] \in {"joined", "freed"} => worker[s] \notin {"inside", "called"}

\* One host at a time, by way of the managed client.
OneHostAtATime == Core!OneHostAtATime

\* Nobody waits for ever: calls, disposals and closers return, although they
\* join threads and wait for callbacks, locks and each other; and a call that
\* was accepted is answered, also when the client is disposed at the same time,
\* as the fence closes after the workers that still owe an answer were joined.
JoinsEnd ==
  /\ \A t \in Threads : ~IsFree(t) ~> IsFree(t)
  /\ \A s \in Subscriptions : closing[s] # "open" ~> closing[s] = "freed"
  /\ \A o \in Operations : worker[o] # "none" ~> o \in answered /\ closing[o] = "freed"
=============================================================================
