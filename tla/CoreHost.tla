------------------------------ MODULE CoreHost ------------------------------
(***************************************************************************)
(* The process-scoped host of aurorix-runtime (lib.rs): the flag that lets *)
(* one host live at a time, the services behind their lock, the registry   *)
(* of cancellable operations, the fence that callbacks enter, and the      *)
(* bounded shutdown that takes all of it down while other threads are in   *)
(* the middle of their calls.                                              *)
(*                                                                         *)
(* A thread's call is a sequence of steps; each step is what the code does *)
(* under one lock or with one atomic access.  A host is a value that is    *)
(* started at most once and, at the end, dropped.  It may be shut down any  *)
(* number of times: each shutdown frees the slot, whoever has it by then,  *)
(* and "freed" is the history of that.                                     *)
(***************************************************************************)
EXTENDS Naturals, FiniteSets

CONSTANTS
  Hosts, Threads, Callbacks, Operations,
  NoHost, NoThread

ASSUME CoreHostAssumption ==
  /\ NoHost \notin Hosts
  /\ NoThread \notin Threads

VARIABLES
  hostActive,   \* HOST_ACTIVE
  lifecycle,    \* of each host; "None" before it is started
  services,     \* hosts whose services are not released yet
  lock,         \* the thread that holds a host's services lock
  accepting,    \* hosts whose fence is open
  guards,       \* the callbacks inside each host's fence
  registered,   \* the live operations of each host
  cancelled,    \* operations whose cancellation was requested
  dropped,      \* hosts whose owner has dropped, or is dropping, them
  at,           \* where each thread is, and in which host
  freed         \* history: whose slot the shutdowns of each host have freed

vars == <<hostActive, lifecycle, services, lock, accepting, guards, registered,
          cancelled, dropped, at, freed>>

Lifecycles == {"None", "Running", "ShuttingDown", "Stopped"}
Closing    == {"cancel", "close", "wait", "release", "mark", "free"}
Places     == {"idle", "starting", "checked", "access"} \cup Closing

\* The holder of a services lock is in the part of its call that needs it.
HoldersAreInside ==
  \A h \in Hosts, t \in Threads :
    lock[h] = t => at[t].host = h /\ at[t].place \in {"access", "mark", "free"}

TypeOK ==
  /\ hostActive \in BOOLEAN
  /\ lifecycle \in [Hosts -> Lifecycles]
  /\ services \subseteq Hosts
  /\ lock \in [Hosts -> Threads \cup {NoThread}]
  /\ accepting \subseteq Hosts
  /\ guards \in [Hosts -> SUBSET Callbacks]
  /\ registered \in [Hosts -> SUBSET Operations]
  /\ cancelled \subseteq Operations
  /\ dropped \subseteq Hosts
  /\ at \in [Threads -> [place : Places, host : Hosts \cup {NoHost}]]
  /\ freed \in [Hosts -> {"none", "own", "another's"}]
  /\ HoldersAreInside

Idle == [place |-> "idle", host |-> NoHost]

Init ==
  /\ hostActive = FALSE
  /\ lifecycle = [h \in Hosts |-> "None"]
  /\ services = {}
  /\ lock = [h \in Hosts |-> NoThread]
  /\ accepting = {}
  /\ guards = [h \in Hosts |-> {}]
  /\ registered = [h \in Hosts |-> {}]
  /\ cancelled = {}
  /\ dropped = {}
  /\ at = [t \in Threads |-> Idle]
  /\ freed = [h \in Hosts |-> "none"]

IsAt(t, place) == at[t].place = place
Host(t)        == at[t].host
Goto(t, place, h) == at' = [at EXCEPT ![t] = [place |-> place, host |-> h]]
Return(t)         == at' = [at EXCEPT ![t] = Idle]

\* A call on a host: it has been started and its owner still holds it.
Calls(t, h) ==
  /\ IsAt(t, "idle")
  /\ lifecycle[h] # "None"
  /\ h \notin dropped
-----------------------------------------------------------------------------
(* Starting. *)

\* A host that finds the flag set is refused.
Start(t, h) ==
  /\ IsAt(t, "idle")
  /\ lifecycle[h] = "None"
  /\ \A u \in Threads : Host(u) # h
  /\ hostActive' = TRUE
  /\ IF hostActive THEN UNCHANGED at ELSE Goto(t, "starting", h)
  /\ UNCHANGED <<lifecycle, services, lock, accepting, guards, registered,
                 cancelled, dropped, freed>>

StartSucceeds(t) ==
  /\ IsAt(t, "starting")
  /\ lifecycle' = [lifecycle EXCEPT ![Host(t)] = "Running"]
  /\ services' = services \cup {Host(t)}
  /\ accepting' = accepting \cup {Host(t)}
  /\ Return(t)
  /\ UNCHANGED <<hostActive, lock, guards, registered, cancelled, dropped,
                 freed>>

\* The configuration, the data directory, the database or a migration fails.
StartFails(t) ==
  /\ IsAt(t, "starting")
  /\ hostActive' = FALSE
  /\ Return(t)
  /\ UNCHANGED <<lifecycle, services, lock, accepting, guards, registered,
                 cancelled, dropped, freed>>
-----------------------------------------------------------------------------
(* Operations and callbacks. *)

Admits(h) == lifecycle[h] = "Running"

\* Under the lifecycle lock, which a shutdown takes too.
RegisterOperation(t, h, o) ==
  /\ Calls(t, h)
  /\ Admits(h)
  /\ o \notin cancelled
  /\ \A g \in Hosts : o \notin registered[g]
  /\ registered' = [registered EXCEPT ![h] = @ \cup {o}]
  /\ UNCHANGED <<hostActive, lifecycle, services, lock, accepting, guards,
                 cancelled, dropped, at, freed>>

CancelOperation(o) ==
  /\ \E h \in Hosts : o \in registered[h]
  /\ cancelled' = cancelled \cup {o}
  /\ UNCHANGED <<hostActive, lifecycle, services, lock, accepting, guards,
                 registered, dropped, at, freed>>

\* The registry keeps weak references: an operation whose handles are gone is
\* not seen any more.
OperationEnds(o) ==
  /\ \E h \in Hosts : o \in registered[h]
  /\ registered' = [h \in Hosts |-> registered[h] \ {o}]
  /\ UNCHANGED <<hostActive, lifecycle, services, lock, accepting, guards,
                 cancelled, dropped, at, freed>>

FenceOpen(h) == h \in accepting

\* A fence may be entered by whoever has a clone of it, host dropped or not.
TryEnter(c, h) ==
  /\ lifecycle[h] # "None"
  /\ FenceOpen(h)
  /\ \A g \in Hosts : c \notin guards[g]
  /\ guards' = [guards EXCEPT ![h] = @ \cup {c}]
  /\ UNCHANGED <<hostActive, lifecycle, services, lock, accepting, registered,
                 cancelled, dropped, at, freed>>

Leave(c) ==
  /\ \E h \in Hosts : c \in guards[h]
  /\ guards' = [h \in Hosts |-> guards[h] \ {c}]
  /\ UNCHANGED <<hostActive, lifecycle, services, lock, accepting, registered,
                 cancelled, dropped, at, freed>>
-----------------------------------------------------------------------------
(* Access to the services. *)

\* ensure_running: it lets go of the lifecycle lock before the services are
\* locked.  A host that does not run refuses.
CheckRunning(t, h) ==
  /\ Calls(t, h)
  /\ lifecycle[h] = "Running"
  /\ Goto(t, "checked", h)
  /\ UNCHANGED <<hostActive, lifecycle, services, lock, accepting, guards,
                 registered, cancelled, dropped, freed>>

\* Services that are gone by then are an error.
LockServices(t) ==
  /\ IsAt(t, "checked")
  /\ lock[Host(t)] = NoThread
  /\ IF Host(t) \in services
     THEN /\ lock' = [lock EXCEPT ![Host(t)] = t]
          /\ Goto(t, "access", Host(t))
     ELSE Return(t) /\ UNCHANGED lock
  /\ UNCHANGED <<hostActive, lifecycle, services, accepting, guards,
                 registered, cancelled, dropped, freed>>

EndAccess(t) ==
  /\ IsAt(t, "access")
  /\ lock' = [lock EXCEPT ![Host(t)] = NoThread]
  /\ Return(t)
  /\ UNCHANGED <<hostActive, lifecycle, services, accepting, guards,
                 registered, cancelled, dropped, freed>>
-----------------------------------------------------------------------------
(* Shutting down. *)

RejectNewWork(t, h) ==
  /\ lifecycle' = [lifecycle EXCEPT ![h] = IF @ = "Running" THEN "ShuttingDown"
                                                            ELSE @]
  /\ Goto(t, "cancel", h)
  /\ UNCHANGED <<hostActive, services, lock, accepting, guards, registered,
                 cancelled, freed>>

Shutdown(t, h) ==
  /\ Calls(t, h)
  /\ RejectNewWork(t, h)
  /\ UNCHANGED dropped

\* The owner drops the host when nobody is in a call on it.  A host that is not
\* stopped is shut down, once, whatever comes of it.
Drop(t, h) ==
  /\ Calls(t, h)
  /\ \A u \in Threads : Host(u) # h
  /\ dropped' = dropped \cup {h}
  /\ IF lifecycle[h] = "Stopped"
     THEN UNCHANGED <<hostActive, lifecycle, services, lock, accepting, guards,
                      registered, cancelled, at, freed>>
     ELSE RejectNewWork(t, h)

CancelAll(t) ==
  /\ IsAt(t, "cancel")
  /\ cancelled' = cancelled \cup registered[Host(t)]
  /\ Goto(t, "close", Host(t))
  /\ UNCHANGED <<hostActive, lifecycle, services, lock, accepting, guards,
                 registered, dropped, freed>>

CloseFence(t) ==
  /\ IsAt(t, "close")
  /\ accepting' = accepting \ {Host(t)}
  /\ Goto(t, IF guards[Host(t)] = {} THEN "release" ELSE "wait", Host(t))
  /\ UNCHANGED <<hostActive, lifecycle, services, lock, guards, registered,
                 cancelled, dropped, freed>>

WaitEnds(t) ==
  /\ IsAt(t, "wait")
  /\ guards[Host(t)] = {}
  /\ Goto(t, "release", Host(t))
  /\ UNCHANGED <<hostActive, lifecycle, services, lock, accepting, guards,
                 registered, cancelled, dropped, freed>>

\* Mutant: a wait without a bound.
MutantUnbounded(t) == FALSE

\* Incomplete: the host stays ShuttingDown and the caller may try again.
WaitTimesOut(t) ==
  /\ IsAt(t, "wait")
  /\ guards[Host(t)] # {}
  /\ Return(t)
  /\ UNCHANGED <<hostActive, lifecycle, services, lock, accepting, guards,
                 registered, cancelled, dropped, freed>>

\* Mutant: does not wait for the lock.
MutantReleaseServices(t) ==
  /\ IsAt(t, "release")
  /\ lock' = [lock EXCEPT ![Host(t)] = t]
  /\ services' = services \ {Host(t)}
  /\ Goto(t, "mark", Host(t))
  /\ UNCHANGED <<hostActive, lifecycle, accepting, guards, registered,
                 cancelled, dropped, freed>>

\* The services lock is held to the end of the call.
ReleaseServices(t) ==
  /\ IsAt(t, "release")
  /\ lock[Host(t)] = NoThread
  /\ lock' = [lock EXCEPT ![Host(t)] = t]
  /\ services' = services \ {Host(t)}
  /\ Goto(t, "mark", Host(t))
  /\ UNCHANGED <<hostActive, lifecycle, accepting, guards, registered,
                 cancelled, dropped, freed>>

MarkStopped(t) ==
  /\ IsAt(t, "mark")
  /\ lifecycle' = [lifecycle EXCEPT ![Host(t)] = "Stopped"]
  /\ Goto(t, "free", Host(t))
  /\ UNCHANGED <<hostActive, services, lock, accepting, guards, registered,
                 cancelled, dropped, freed>>

\* Whatever host it is, and whether or not it was stopped before.
FreeSlot(t) ==
  /\ IsAt(t, "free")
  /\ hostActive' = FALSE
  /\ freed' = [freed EXCEPT ![Host(t)] =
       IF @ = "none" THEN "own" ELSE IF hostActive THEN "another's" ELSE @]
  /\ lock' = [lock EXCEPT ![Host(t)] = NoThread]
  /\ Return(t)
  /\ UNCHANGED <<lifecycle, services, accepting, guards, registered, cancelled,
                 dropped>>
-----------------------------------------------------------------------------
Caller(t) ==
  \/ \E h \in Hosts :
       \/ Start(t, h)
       \/ \E o \in Operations : RegisterOperation(t, h, o)
       \/ CheckRunning(t, h)
       \/ Shutdown(t, h)
       \/ Drop(t, h)

\* The steps inside a call.
Continue(t) ==
  \/ StartSucceeds(t)
  \/ StartFails(t)
  \/ LockServices(t)
  \/ EndAccess(t)
  \/ CancelAll(t)
  \/ CloseFence(t)
  \/ WaitEnds(t)
  \/ WaitTimesOut(t)
  \/ ReleaseServices(t)
  \/ MarkStopped(t)
  \/ FreeSlot(t)

Next ==
  \/ \E t \in Threads : Caller(t) \/ Continue(t)
  \/ \E o \in Operations : CancelOperation(o) \/ OperationEnds(o)
  \/ \E c \in Callbacks : Leave(c) \/ \E h \in Hosts : TryEnter(c, h)

Spec == Init /\ [][Next]_vars

\* A thread in a call goes on, as far as its locks let it.
FairSpec == Spec /\ \A t \in Threads : WF_vars(Continue(t))
-----------------------------------------------------------------------------
(* Properties. *)

\* Once a shutdown is past its fence, no callback is inside and none enters,
\* although the callbacks may hold clones of the fence for ever.
Released(h) ==
  \/ lifecycle[h] = "Stopped"
  \/ \E t \in Threads : Host(t) = h /\ at[t].place \in {"release", "mark", "free"}

FenceIsFinal ==
  \A h \in Hosts : Released(h) => guards[h] = {} /\ h \notin accepting

\* Nobody is in the services while they are released, or afterwards.
NoAccessAfterRelease ==
  \A t \in Threads : IsAt(t, "access") => Host(t) \in services

\* Every operation the host admitted has been told to stop before the host is
\* stopped: registration and shutdown cannot miss each other.
OperationsAreCancelled ==
  \A h \in Hosts : lifecycle[h] = "Stopped" => registered[h] \subseteq cancelled

\* A host occupies its slot from its start until it is stopped.
Occupies(h) ==
  \/ lifecycle[h] \in {"Running", "ShuttingDown"}
  \/ \E t \in Threads : Host(t) = h /\ IsAt(t, "starting")

\* One host at a time, and the flag says so.
OneHostAtATime ==
  /\ \A g, h \in Hosts : Occupies(g) /\ Occupies(h) => g = h
  /\ \A h \in Hosts : Occupies(h) => hostActive

\* However often hosts are shut down, and by however many threads at a time, one
\* runs at a time until a host that had freed its slot before frees the one that
\* another has taken since (lib.rs:663).
OneHostUnlessRobbed ==
  (\A h \in Hosts : freed[h] # "another's") => OneHostAtATime

\* What start and shutdown promise together: a stopped host has left no callback,
\* access or operation behind, and its slot was its own (lib.rs:649, 485).
ShutdownIsFinal ==
  FenceIsFinal /\ NoAccessAfterRelease /\ OperationsAreCancelled /\ OneHostUnlessRobbed

\* A shutdown returns within its bound: neither callbacks that stay inside nor
\* accesses in progress hold it for ever, and other shutdowns of its host do so
\* only if threads go on starting them for ever, the lock not being a fair one.
ShutdownReturns ==
  \A t \in Threads :
    \/ []<>(at[t].place \notin Closing)
    \/ []<>(\E u \in Threads \ {t} : IsAt(u, "cancel"))
=============================================================================
