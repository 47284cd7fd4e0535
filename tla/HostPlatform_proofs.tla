--------------------------- MODULE HostPlatform_proofs ---------------------------
(***************************************************************************)
(* What is proved of the runtime host (CoreHost), for any hosts, threads,  *)
(* callbacks and operations, and of the Windows adapter around it          *)
(* (WindowsPlatform), for any extensions, manifests, actions and callers,  *)
(* any tree of files and scans of it, and any snapshots of the Core.       *)
(*                                                                         *)
(* A shutdown tells of its progress by where its thread is, so each        *)
(* invariant needs the same fact earlier in the call: a thread that waits  *)
(* has closed the fence, one that closes it has cancelled the operations,  *)
(* one that marks the host stopped holds the lock the services are behind. *)
(*                                                                         *)
(* A dispatch lets go of its lock and looks again: a route leads to one    *)
(* extension, and the router is given only what was on offer.              *)
(***************************************************************************)
EXTENDS CoreHost, WindowsPlatform, FiniteSetTheorems, TLAPS

-----------------------------------------------------------------------------
(* The runtime host. *)

\* What a thread's place says of its host.
PlacesTell ==
  \A t \in Threads :
    /\ IsAt(t, "idle") <=> Host(t) = NoHost
    /\ IsAt(t, "starting") =>
         /\ lifecycle[Host(t)] = "None"
         /\ \A u \in Threads : IsAt(u, "starting") /\ Host(u) = Host(t) => u = t
    /\ at[t].place \in {"checked", "access"} => lifecycle[Host(t)] # "None"
    /\ at[t].place \in Closing =>
         lifecycle[Host(t)] \in {"ShuttingDown", "Stopped"}
    /\ at[t].place \in {"access", "mark", "free"} => lock[Host(t)] = t
    /\ IsAt(t, "access") => Host(t) \in services

\* What a shutdown has done by the time it is past its fence.
ClosingHasDone ==
  \A t \in Threads :
    /\ at[t].place \in Closing \ {"cancel"} => registered[Host(t)] \subseteq cancelled
    /\ at[t].place \in Closing \ {"cancel", "close"} => Host(t) \notin accepting
    /\ at[t].place \in {"release", "mark", "free"} => guards[Host(t)] = {}

StoppedIsQuiet ==
  \A h \in Hosts : lifecycle[h] = "Stopped" =>
    guards[h] = {} /\ h \notin accepting /\ registered[h] \subseteq cancelled

IInv == TypeOK /\ PlacesTell /\ ClosingHasDone /\ StoppedIsQuiet

USE CoreHostAssumption DEF CoreHostAssumption, Lifecycles, Closing, Places, Idle, IsAt, Host, Goto,
    Return, Calls

LEMMA InitIInv == Init => IInv
  <1> SUFFICES ASSUME Init PROVE IInv
    OBVIOUS
  <1>1. TypeOK
    BY DEF Init, TypeOK, HoldersAreInside
  <1>2. PlacesTell
    BY DEF Init, PlacesTell
  <1>3. ClosingHasDone
    BY DEF Init, ClosingHasDone
  <1>4. StoppedIsQuiet
    BY DEF Init, StoppedIsQuiet
  <1> QED
    BY <1>1, <1>2, <1>3, <1>4 DEF IInv

LEMMA StepType == IInv /\ [Next]_vars => TypeOK'
  <1> SUFFICES ASSUME IInv, [Next]_vars PROVE TypeOK'
    OBVIOUS
  <1> USE DEF IInv, TypeOK, HoldersAreInside, PlacesTell
  <1>1. CASE UNCHANGED vars
    BY <1>1 DEF vars
  <1>2. ASSUME NEW t \in Threads, Continue(t) PROVE TypeOK'
    <2>1. CASE StartSucceeds(t)
      BY <2>1 DEF StartSucceeds
    <2>2. CASE StartFails(t)
      <3>1. \A h \in Hosts : lock[h] # t
        BY <2>2 DEF StartFails
      <3>2. \A u \in Threads : u # t => at'[u] = at[u]
        BY <2>2 DEF StartFails
      <3>3. HoldersAreInside'
        BY <2>2, <3>1, <3>2 DEF StartFails
      <3>4. at' \in [Threads -> [place : Places, host : Hosts \cup {NoHost}]]
        BY <2>2 DEF StartFails
      <3> HIDE DEF HoldersAreInside
      <3> QED
        BY <2>2, <3>3, <3>4 DEF StartFails
    <2>3. CASE LockServices(t)
      <3>1. at[t].host \in Hosts
        BY <2>3 DEF LockServices
      <3>2. \A h \in Hosts : lock[h] # t
        BY <2>3 DEF LockServices
      <3>3. \A u \in Threads : u # t => at'[u] = at[u]
        BY <2>3 DEF LockServices
      <3>4. HoldersAreInside'
        BY <2>3, <3>1, <3>2, <3>3 DEF LockServices
      <3>5. /\ at' \in [Threads -> [place : Places, host : Hosts \cup {NoHost}]]
            /\ lock' \in [Hosts -> Threads \cup {NoThread}]
        BY <2>3, <3>1 DEF LockServices
      <3> HIDE DEF HoldersAreInside
      <3> QED
        BY <2>3, <3>4, <3>5 DEF LockServices
    <2>4. CASE EndAccess(t)
      BY <2>4 DEF EndAccess
    <2>5. CASE CancelAll(t)
      BY <2>5 DEF CancelAll
    <2>6. CASE CloseFence(t)
      BY <2>6 DEF CloseFence
    <2>7. CASE WaitEnds(t)
      BY <2>7 DEF WaitEnds
    <2>8. CASE WaitTimesOut(t)
      BY <2>8 DEF WaitTimesOut
    <2>9. CASE ReleaseServices(t)
      BY <2>9 DEF ReleaseServices
    <2>10. CASE MarkStopped(t)
      BY <2>10 DEF MarkStopped
    <2>11. CASE FreeSlot(t)
      <3>1. at[t].host \in Hosts
        BY <2>11 DEF FreeSlot
      <3>2. \A h \in Hosts : lock'[h] # t
        BY <2>11, <3>1 DEF FreeSlot
      <3>3. /\ at' \in [Threads -> [place : Places, host : Hosts \cup {NoHost}]]
            /\ lock' \in [Hosts -> Threads \cup {NoThread}]
        BY <2>11, <3>1 DEF FreeSlot
      <3>4. \A u \in Threads : u # t => at'[u] = at[u]
        BY <2>11 DEF FreeSlot
      <3>5. \A h \in Hosts, u \in Threads : lock'[h] = u => lock[h] = u
        BY <2>11, <3>1 DEF FreeSlot
      <3>6. HoldersAreInside'
        BY <3>2, <3>4, <3>5
      <3> HIDE DEF HoldersAreInside
      <3> QED
        BY <2>11, <3>3, <3>6 DEF FreeSlot
    <2> QED
      BY <1>2, <2>1, <2>2, <2>3, <2>4, <2>5, <2>6, <2>7, <2>8, <2>9, <2>10, <2>11 DEF Continue
  <1>3. ASSUME NEW t \in Threads, NEW h \in Hosts,
               Start(t, h) \/ (\E o \in Operations : RegisterOperation(t, h, o))
               \/ CheckRunning(t, h) \/ Shutdown(t, h) \/ Drop(t, h)
        PROVE  TypeOK'
    <2>1. CASE Start(t, h)
      BY <2>1 DEF Start
    <2>2. CASE \E o \in Operations : RegisterOperation(t, h, o)
      BY <2>2 DEF RegisterOperation, Admits
    <2>3. CASE CheckRunning(t, h)
      BY <2>3 DEF CheckRunning
    <2>4. CASE Shutdown(t, h)
      BY <2>4 DEF Shutdown, RejectNewWork
    <2>5. CASE Drop(t, h)
      <3>1. CASE lifecycle[h] = "Stopped"
        BY <2>5, <3>1 DEF Drop
      <3>2. CASE RejectNewWork(t, h)
        BY <2>5, <3>2 DEF Drop, RejectNewWork
      <3> QED
        BY <2>5, <3>1, <3>2 DEF Drop
    <2> QED
      BY <1>3, <2>1, <2>2, <2>3, <2>4, <2>5
  <1>4. ASSUME NEW o \in Operations, CancelOperation(o) \/ OperationEnds(o)
        PROVE  TypeOK'
    BY <1>4 DEF CancelOperation, OperationEnds
  <1>5. ASSUME NEW c \in Callbacks, Leave(c) \/ \E h \in Hosts : TryEnter(c, h)
        PROVE  TypeOK'
    BY <1>5 DEF Leave, TryEnter, FenceOpen
  <1> QED
    BY <1>1, <1>2, <1>3, <1>4, <1>5 DEF Next, Caller

LEMMA StepPlaces == IInv /\ [Next]_vars => PlacesTell'
  <1> SUFFICES ASSUME IInv, [Next]_vars PROVE PlacesTell'
    OBVIOUS
  <1> USE DEF IInv, TypeOK, HoldersAreInside, PlacesTell
  <1>1. CASE UNCHANGED vars
    BY <1>1 DEF vars
  <1>2. ASSUME NEW t \in Threads, Continue(t) PROVE PlacesTell'
    <2>1. CASE StartSucceeds(t)
      BY <2>1 DEF StartSucceeds
    <2>2. CASE StartFails(t)
      BY <2>2 DEF StartFails
    <2>3. CASE LockServices(t)
      BY <2>3 DEF LockServices
    <2>4. CASE EndAccess(t)
      BY <2>4 DEF EndAccess
    <2>5. CASE CancelAll(t)
      BY <2>5 DEF CancelAll
    <2>6. CASE CloseFence(t)
      BY <2>6 DEF CloseFence
    <2>7. CASE WaitEnds(t)
      BY <2>7 DEF WaitEnds
    <2>8. CASE WaitTimesOut(t)
      BY <2>8 DEF WaitTimesOut
    <2>9. CASE ReleaseServices(t)
      BY <2>9 DEF ReleaseServices
    <2>10. CASE MarkStopped(t)
      BY <2>10 DEF MarkStopped
    <2>11. CASE FreeSlot(t)
      BY <2>11 DEF FreeSlot
    <2> QED
      BY <1>2, <2>1, <2>2, <2>3, <2>4, <2>5, <2>6, <2>7, <2>8, <2>9, <2>10, <2>11 DEF Continue
  <1>3. ASSUME NEW t \in Threads, NEW h \in Hosts,
               Start(t, h) \/ (\E o \in Operations : RegisterOperation(t, h, o))
               \/ CheckRunning(t, h) \/ Shutdown(t, h) \/ Drop(t, h)
        PROVE  PlacesTell'
    <2>1. CASE Start(t, h)
      BY <2>1 DEF Start
    <2>2. CASE \E o \in Operations : RegisterOperation(t, h, o)
      BY <2>2 DEF RegisterOperation, Admits
    <2>3. CASE CheckRunning(t, h)
      BY <2>3 DEF CheckRunning
    <2>4. CASE Shutdown(t, h)
      BY <2>4 DEF Shutdown, RejectNewWork
    <2>5. CASE Drop(t, h)
      BY <2>5 DEF Drop, RejectNewWork
    <2> QED
      BY <1>3, <2>1, <2>2, <2>3, <2>4, <2>5
  <1>4. ASSUME NEW o \in Operations, CancelOperation(o) \/ OperationEnds(o)
        PROVE  PlacesTell'
    BY <1>4 DEF CancelOperation, OperationEnds
  <1>5. ASSUME NEW c \in Callbacks, Leave(c) \/ \E h \in Hosts : TryEnter(c, h)
        PROVE  PlacesTell'
    BY <1>5 DEF Leave, TryEnter, FenceOpen
  <1> QED
    BY <1>1, <1>2, <1>3, <1>4, <1>5 DEF Next, Caller

LEMMA StepClosing == IInv /\ [Next]_vars => ClosingHasDone'
  <1> SUFFICES ASSUME IInv, [Next]_vars PROVE ClosingHasDone'
    OBVIOUS
  <1> USE DEF IInv, TypeOK, HoldersAreInside, PlacesTell, ClosingHasDone
  <1>1. CASE UNCHANGED vars
    BY <1>1 DEF vars
  <1>2. ASSUME NEW t \in Threads, Continue(t) PROVE ClosingHasDone'
    <2>1. CASE StartSucceeds(t)
      BY <2>1 DEF StartSucceeds
    <2>2. CASE StartFails(t)
      BY <2>2 DEF StartFails
    <2>3. CASE LockServices(t)
      BY <2>3 DEF LockServices
    <2>4. CASE EndAccess(t)
      BY <2>4 DEF EndAccess
    <2>5. CASE CancelAll(t)
      BY <2>5 DEF CancelAll
    <2>6. CASE CloseFence(t)
      BY <2>6 DEF CloseFence
    <2>7. CASE WaitEnds(t)
      BY <2>7 DEF WaitEnds
    <2>8. CASE WaitTimesOut(t)
      BY <2>8 DEF WaitTimesOut
    <2>9. CASE ReleaseServices(t)
      BY <2>9 DEF ReleaseServices
    <2>10. CASE MarkStopped(t)
      BY <2>10 DEF MarkStopped
    <2>11. CASE FreeSlot(t)
      BY <2>11 DEF FreeSlot
    <2> QED
      BY <1>2, <2>1, <2>2, <2>3, <2>4, <2>5, <2>6, <2>7, <2>8, <2>9, <2>10, <2>11 DEF Continue
  <1>3. ASSUME NEW t \in Threads, NEW h \in Hosts,
               Start(t, h) \/ (\E o \in Operations : RegisterOperation(t, h, o))
               \/ CheckRunning(t, h) \/ Shutdown(t, h) \/ Drop(t, h)
        PROVE  ClosingHasDone'
    <2>1. CASE Start(t, h)
      BY <2>1 DEF Start
    <2>2. CASE \E o \in Operations : RegisterOperation(t, h, o)
      BY <2>2 DEF RegisterOperation, Admits
    <2>3. CASE CheckRunning(t, h)
      BY <2>3 DEF CheckRunning
    <2>4. CASE Shutdown(t, h)
      BY <2>4 DEF Shutdown, RejectNewWork
    <2>5. CASE Drop(t, h)
      BY <2>5 DEF Drop, RejectNewWork
    <2> QED
      BY <1>3, <2>1, <2>2, <2>3, <2>4, <2>5
  <1>4. ASSUME NEW o \in Operations, CancelOperation(o) \/ OperationEnds(o)
        PROVE  ClosingHasDone'
    BY <1>4 DEF CancelOperation, OperationEnds
  <1>5. ASSUME NEW c \in Callbacks, Leave(c) \/ \E h \in Hosts : TryEnter(c, h)
        PROVE  ClosingHasDone'
    BY <1>5 DEF Leave, TryEnter, FenceOpen
  <1> QED
    BY <1>1, <1>2, <1>3, <1>4, <1>5 DEF Next, Caller

LEMMA StepStopped == IInv /\ [Next]_vars => StoppedIsQuiet'
  <1> SUFFICES ASSUME IInv, [Next]_vars PROVE StoppedIsQuiet'
    OBVIOUS
  <1> USE DEF IInv, TypeOK, HoldersAreInside, PlacesTell, ClosingHasDone, StoppedIsQuiet
  <1>1. CASE UNCHANGED vars
    BY <1>1 DEF vars
  <1>2. ASSUME NEW t \in Threads, Continue(t) PROVE StoppedIsQuiet'
    <2>1. CASE StartSucceeds(t)
      BY <2>1 DEF StartSucceeds
    <2>2. CASE StartFails(t)
      BY <2>2 DEF StartFails
    <2>3. CASE LockServices(t)
      BY <2>3 DEF LockServices
    <2>4. CASE EndAccess(t)
      BY <2>4 DEF EndAccess
    <2>5. CASE CancelAll(t)
      BY <2>5 DEF CancelAll
    <2>6. CASE CloseFence(t)
      BY <2>6 DEF CloseFence
    <2>7. CASE WaitEnds(t)
      BY <2>7 DEF WaitEnds
    <2>8. CASE WaitTimesOut(t)
      BY <2>8 DEF WaitTimesOut
    <2>9. CASE ReleaseServices(t)
      BY <2>9 DEF ReleaseServices
    <2>10. CASE MarkStopped(t)
      BY <2>10 DEF MarkStopped
    <2>11. CASE FreeSlot(t)
      BY <2>11 DEF FreeSlot
    <2> QED
      BY <1>2, <2>1, <2>2, <2>3, <2>4, <2>5, <2>6, <2>7, <2>8, <2>9, <2>10, <2>11 DEF Continue
  <1>3. ASSUME NEW t \in Threads, NEW h \in Hosts,
               Start(t, h) \/ (\E o \in Operations : RegisterOperation(t, h, o))
               \/ CheckRunning(t, h) \/ Shutdown(t, h) \/ Drop(t, h)
        PROVE  StoppedIsQuiet'
    <2>1. CASE Start(t, h)
      BY <2>1 DEF Start
    <2>2. CASE \E o \in Operations : RegisterOperation(t, h, o)
      BY <2>2 DEF RegisterOperation, Admits
    <2>3. CASE CheckRunning(t, h)
      BY <2>3 DEF CheckRunning
    <2>4. CASE Shutdown(t, h)
      BY <2>4 DEF Shutdown, RejectNewWork
    <2>5. CASE Drop(t, h)
      BY <2>5 DEF Drop, RejectNewWork
    <2> QED
      BY <1>3, <2>1, <2>2, <2>3, <2>4, <2>5
  <1>4. ASSUME NEW o \in Operations, CancelOperation(o) \/ OperationEnds(o)
        PROVE  StoppedIsQuiet'
    BY <1>4 DEF CancelOperation, OperationEnds
  <1>5. ASSUME NEW c \in Callbacks, Leave(c) \/ \E h \in Hosts : TryEnter(c, h)
        PROVE  StoppedIsQuiet'
    BY <1>5 DEF Leave, TryEnter, FenceOpen
  <1> QED
    BY <1>1, <1>2, <1>3, <1>4, <1>5 DEF Next, Caller

LEMMA IInvHolds == Spec => []IInv
  <1>1. IInv /\ [Next]_vars => IInv'
    BY StepType, StepPlaces, StepClosing, StepStopped DEF IInv
  <1> QED
    BY InitIInv, <1>1, PTL DEF Spec

\* Every variable keeps its type, and the holder of a services lock is in the
\* part of a call that may hold it.
THEOREM TypeCorrect == Spec => []TypeOK
  BY IInvHolds, PTL DEF IInv

\* Once a shutdown is past its fence no callback is inside, and none ever enters.
THEOREM FenceStaysFinal == Spec => []FenceIsFinal
  <1>1. IInv => FenceIsFinal
    BY DEF IInv, TypeOK, ClosingHasDone, StoppedIsQuiet, FenceIsFinal, Released
  <1> QED
    BY IInvHolds, <1>1, PTL

\* Services are never used while or after they are released.
THEOREM AccessIsSafe == Spec => []NoAccessAfterRelease
  <1>1. IInv => NoAccessAfterRelease
    BY DEF IInv, PlacesTell, NoAccessAfterRelease
  <1> QED
    BY IInvHolds, <1>1, PTL

\* A stopped host has cancelled every operation it admitted.
THEOREM AdmittedAreCancelled == Spec => []OperationsAreCancelled
  <1>1. IInv => OperationsAreCancelled
    BY DEF IInv, StoppedIsQuiet, OperationsAreCancelled
  <1> QED
    BY IInvHolds, <1>1, PTL
-----------------------------------------------------------------------------
(* One host at a time, until a host that freed its slot before frees the    *)
(* slot of another.                                                         *)

\* A host uses the slot from its start until one of its shutdowns frees it.
Uses(h) ==
  /\ freed[h] = "none"
  /\ \/ lifecycle[h] # "None"
     \/ \E t \in Threads : Host(t) = h /\ IsAt(t, "starting")

SlotIsUsedOnce ==
  /\ \A h \in Hosts : Uses(h) => hostActive
  /\ \A g, h \in Hosts : Uses(g) /\ Uses(h) => g = h

\* The slot of a host is freed when it is stopped, and it stays stopped.
FreedIsStopped ==
  /\ \A t \in Threads : IsAt(t, "free") => lifecycle[Host(t)] = "Stopped"
  /\ \A h \in Hosts : freed[h] # "none" => lifecycle[h] = "Stopped"

NotRobbed == \A h \in Hosts : freed[h] # "another's"

SlotInv == IInv /\ FreedIsStopped /\ (NotRobbed => SlotIsUsedOnce)

LEMMA StepFreed == SlotInv /\ [Next]_vars => FreedIsStopped'
  <1> SUFFICES ASSUME SlotInv, [Next]_vars PROVE FreedIsStopped'
    OBVIOUS
  <1> USE DEF SlotInv, IInv, TypeOK, PlacesTell, FreedIsStopped
  <1>1. CASE UNCHANGED vars
    BY <1>1 DEF vars
  <1>2. ASSUME NEW t \in Threads, Continue(t) PROVE FreedIsStopped'
    <2>1. CASE StartSucceeds(t)
      BY <2>1 DEF StartSucceeds
    <2>2. CASE StartFails(t)
      BY <2>2 DEF StartFails
    <2>3. CASE LockServices(t)
      BY SMTT(30), <2>3 DEF LockServices
    <2>4. CASE EndAccess(t)
      BY <2>4 DEF EndAccess
    <2>5. CASE CancelAll(t)
      BY <2>5 DEF CancelAll
    <2>6. CASE CloseFence(t)
      BY <2>6 DEF CloseFence
    <2>7. CASE WaitEnds(t)
      BY <2>7 DEF WaitEnds
    <2>8. CASE WaitTimesOut(t)
      BY <2>8 DEF WaitTimesOut
    <2>9. CASE ReleaseServices(t)
      BY <2>9 DEF ReleaseServices
    <2>10. CASE MarkStopped(t)
      BY <2>10 DEF MarkStopped
    <2>11. CASE FreeSlot(t)
      BY <2>11 DEF FreeSlot
    <2> QED
      BY <1>2, <2>1, <2>2, <2>3, <2>4, <2>5, <2>6, <2>7, <2>8, <2>9, <2>10, <2>11 DEF Continue
  <1>3. ASSUME NEW t \in Threads, NEW h \in Hosts,
               Start(t, h) \/ (\E o \in Operations : RegisterOperation(t, h, o))
               \/ CheckRunning(t, h) \/ Shutdown(t, h) \/ Drop(t, h)
        PROVE  FreedIsStopped'
    <2>1. CASE Start(t, h)
      BY SMTT(30), <2>1 DEF Start
    <2>2. CASE \E o \in Operations : RegisterOperation(t, h, o)
      BY <2>2 DEF RegisterOperation, Admits
    <2>3. CASE CheckRunning(t, h)
      BY <2>3 DEF CheckRunning
    <2>4. CASE Shutdown(t, h)
      BY <2>4 DEF Shutdown, RejectNewWork
    <2>5. CASE Drop(t, h)
      <3>1. CASE lifecycle[h] = "Stopped"
        BY <2>5, <3>1 DEF Drop
      <3>2. CASE lifecycle[h] # "Stopped"
        <4>1. /\ lifecycle' = [lifecycle EXCEPT ![h] = "ShuttingDown"]
              /\ at' = [at EXCEPT ![t] = [place |-> "cancel", host |-> h]]
              /\ hostActive' = hostActive /\ freed' = freed
          BY <2>5, <3>2 DEF Drop, RejectNewWork
        <4>2. lifecycle[h] \in {"Running", "ShuttingDown"} /\ IsAt(t, "idle")
          BY <2>5, <3>2 DEF Drop
        <4>3. \A u \in Threads : Host(u) # h
          BY <2>5 DEF Drop
        <4> QED
          BY <4>1, <4>2, <4>3
      <3> QED
        BY <3>1, <3>2
    <2> QED
      BY <1>3, <2>1, <2>2, <2>3, <2>4, <2>5
  <1>4. ASSUME NEW o \in Operations, CancelOperation(o) \/ OperationEnds(o)
        PROVE  FreedIsStopped'
    BY <1>4 DEF CancelOperation, OperationEnds
  <1>5. ASSUME NEW c \in Callbacks, Leave(c) \/ \E h \in Hosts : TryEnter(c, h)
        PROVE  FreedIsStopped'
    BY <1>5 DEF Leave, TryEnter, FenceOpen
  <1> QED
    BY <1>1, <1>2, <1>3, <1>4, <1>5 DEF Next, Caller

\* What was another's is not given back.
LEMMA RobbedForGood == SlotInv /\ [Next]_vars /\ NotRobbed' => NotRobbed
  <1> SUFFICES ASSUME SlotInv, [Next]_vars, NotRobbed', NEW h \in Hosts,
                      freed[h] = "another's"
               PROVE  FALSE
    BY DEF NotRobbed
  <1>1. freed'[h] = "another's"
    <2> USE DEF SlotInv, IInv, TypeOK, PlacesTell
    <2>1. CASE \E t \in Threads : FreeSlot(t)
      BY <2>1 DEF FreeSlot
    <2>2. CASE ~\E t \in Threads : FreeSlot(t)
      <3>1. freed' = freed
        BY <2>2, ZenonT(60) DEF Next, Caller, Continue, vars, Start, StartSucceeds, StartFails,
          RegisterOperation, CancelOperation, OperationEnds, TryEnter, Leave,
          CheckRunning, LockServices, EndAccess, Shutdown, RejectNewWork, Drop,
          CancelAll, CloseFence, WaitEnds, WaitTimesOut, ReleaseServices, MarkStopped
      <3> QED
        BY <3>1
    <2> QED
      BY <2>1, <2>2
  <1> QED
    BY <1>1 DEF NotRobbed

LEMMA StepSlot == SlotInv /\ [Next]_vars => (NotRobbed => SlotIsUsedOnce)'
  <1> SUFFICES ASSUME SlotInv, [Next]_vars, NotRobbed, NotRobbed'
               PROVE  SlotIsUsedOnce'
    BY RobbedForGood
  <1> USE DEF SlotInv, IInv, TypeOK, PlacesTell, FreedIsStopped, SlotIsUsedOnce, Uses
  <1>1. CASE UNCHANGED vars
    BY <1>1 DEF vars
  <1>2. ASSUME NEW t \in Threads, Continue(t) PROVE SlotIsUsedOnce'
    <2>1. CASE StartSucceeds(t)
      BY <2>1 DEF StartSucceeds
    <2>2. CASE StartFails(t)
      BY <2>2 DEF StartFails
    <2>3. CASE LockServices(t)
      <3>1. /\ IsAt(t, "checked")
            /\ at'[t].place \in {"access", "idle"}
            /\ \A u \in Threads : u # t => at'[u] = at[u]
            /\ lifecycle' = lifecycle /\ hostActive' = hostActive
            /\ freed' = freed
        BY <2>3 DEF LockServices
      <3>2. \A g \in Hosts : Uses(g)' => Uses(g)
        BY <3>1
      <3> HIDE DEF Uses
      <3> QED
        BY <3>1, <3>2
    <2>4. CASE EndAccess(t)
      BY <2>4 DEF EndAccess
    <2>5. CASE CancelAll(t)
      BY <2>5 DEF CancelAll
    <2>6. CASE CloseFence(t)
      BY <2>6 DEF CloseFence
    <2>7. CASE WaitEnds(t)
      BY <2>7 DEF WaitEnds
    <2>8. CASE WaitTimesOut(t)
      BY <2>8 DEF WaitTimesOut
    <2>9. CASE ReleaseServices(t)
      BY <2>9 DEF ReleaseServices
    <2>10. CASE MarkStopped(t)
      BY <2>10 DEF MarkStopped
    <2>11. CASE FreeSlot(t)
      <3>1. PICK h \in Hosts : h = Host(t)
        BY <2>11 DEF FreeSlot
      <3>2. /\ lifecycle[h] = "Stopped" /\ lifecycle' = lifecycle
            /\ at' = [at EXCEPT ![t] = Idle]
            /\ freed'[h] # "none"
            /\ freed[h] # "none" => ~hostActive
            /\ \A g \in Hosts : g # h => freed'[g] = freed[g]
        BY <2>11, <3>1 DEF FreeSlot, NotRobbed
      <3>3. ~Uses(h)'
        BY <3>2
      <3>4. \A g \in Hosts : g # h /\ Uses(g)' => Uses(g)
        BY <3>2
      <3>5. CASE freed[h] = "none"
        <4>1. Uses(h)
          BY <3>2, <3>5
        <4> HIDE DEF Uses
        <4>2. \A g \in Hosts : ~Uses(g)'
          BY <3>3, <3>4, <4>1
        <4> QED
          BY <4>2
      <3>6. CASE freed[h] # "none"
        <4>1. \A g \in Hosts : ~Uses(g)
          BY <3>2, <3>6
        <4> HIDE DEF Uses
        <4>2. \A g \in Hosts : ~Uses(g)'
          BY <3>3, <3>4, <4>1
        <4> QED
          BY <4>2
      <3> QED
        BY <3>5, <3>6
    <2> QED
      BY <1>2, <2>1, <2>2, <2>3, <2>4, <2>5, <2>6, <2>7, <2>8, <2>9, <2>10, <2>11 DEF Continue
  <1>3. ASSUME NEW t \in Threads, NEW h \in Hosts,
               Start(t, h) \/ (\E o \in Operations : RegisterOperation(t, h, o))
               \/ CheckRunning(t, h) \/ Shutdown(t, h) \/ Drop(t, h)
        PROVE  SlotIsUsedOnce'
    <2>1. CASE Start(t, h)
      <3>1. CASE hostActive
        <4>1. hostActive' /\ lifecycle' = lifecycle /\ at' = at /\ freed' = freed
          BY <2>1, <3>1 DEF Start
        <4>2. \A g \in Hosts : Uses(g)' <=> Uses(g)
          BY <4>1
        <4> HIDE DEF Uses
        <4> QED
          BY <4>1, <4>2
      <3>2. CASE ~hostActive
        <4>1. /\ hostActive' /\ lifecycle' = lifecycle /\ freed' = freed
              /\ at' = [at EXCEPT ![t] = [place |-> "starting", host |-> h]]
          BY <2>1, <3>2 DEF Start
        <4>2. \A g \in Hosts : Uses(g)' => Uses(g) \/ g = h
          BY <4>1
        <4>3. \A g \in Hosts : ~Uses(g)
          BY <3>2
        <4> HIDE DEF Uses
        <4> QED
          BY <4>1, <4>2, <4>3
      <3> QED
        BY <3>1, <3>2
    <2>2. CASE \E o \in Operations : RegisterOperation(t, h, o)
      BY <2>2 DEF RegisterOperation, Admits
    <2>3. CASE CheckRunning(t, h)
      BY <2>3 DEF CheckRunning
    <2>4. CASE Shutdown(t, h)
      BY <2>4 DEF Shutdown, RejectNewWork
    <2>5. CASE Drop(t, h)
      <3>1. CASE lifecycle[h] = "Stopped"
        BY <2>5, <3>1 DEF Drop
      <3>2. CASE lifecycle[h] # "Stopped"
        <4>1. /\ lifecycle' = [lifecycle EXCEPT ![h] = "ShuttingDown"]
              /\ at' = [at EXCEPT ![t] = [place |-> "cancel", host |-> h]]
              /\ hostActive' = hostActive /\ freed' = freed
          BY <2>5, <3>2 DEF Drop, RejectNewWork
        <4>2. lifecycle[h] \in {"Running", "ShuttingDown"} /\ IsAt(t, "idle")
          BY <2>5, <3>2 DEF Drop
        <4>3. \A u \in Threads : Host(u) # h
          BY <2>5 DEF Drop
        <4> QED
          BY <4>1, <4>2, <4>3
      <3> QED
        BY <3>1, <3>2
    <2> QED
      BY <1>3, <2>1, <2>2, <2>3, <2>4, <2>5
  <1>4. ASSUME NEW o \in Operations, CancelOperation(o) \/ OperationEnds(o)
        PROVE  SlotIsUsedOnce'
    BY <1>4 DEF CancelOperation, OperationEnds
  <1>5. ASSUME NEW c \in Callbacks, Leave(c) \/ \E h \in Hosts : TryEnter(c, h)
        PROVE  SlotIsUsedOnce'
    BY <1>5 DEF Leave, TryEnter, FenceOpen
  <1> QED
    BY <1>1, <1>2, <1>3, <1>4, <1>5 DEF Next, Caller

\* Whatever threads start, use, shut down and drop hosts, and however often they
\* shut a host down again, only one host occupies the process slot at a time
\* until a host that had freed its slot before frees the one another has taken
\* since (lib.rs:649, 663).
THEOREM OneHost == Spec => []OneHostUnlessRobbed
  <1>1. Init => SlotInv
    BY InitIInv DEF Init, SlotInv, FreedIsStopped, SlotIsUsedOnce, Uses, IInv, TypeOK
  <1>2. SlotInv /\ [Next]_vars => SlotInv'
    BY StepType, StepPlaces, StepClosing, StepStopped, StepFreed, StepSlot
       DEF SlotInv, IInv
  <1>3. SlotInv => OneHostUnlessRobbed
    <2> SUFFICES ASSUME SlotInv, NotRobbed PROVE OneHostAtATime
      BY DEF OneHostUnlessRobbed, NotRobbed
    <2>1. \A h \in Hosts : Occupies(h) => Uses(h)
      BY DEF SlotInv, IInv, TypeOK, PlacesTell, FreedIsStopped, Occupies, Uses
    <2> QED
      BY <2>1 DEF SlotInv, SlotIsUsedOnce, OneHostAtATime
  <1> QED
    BY <1>1, <1>2, <1>3, PTL DEF Spec

\* What a host promises of its start and its shutdown, repeated or not.
THEOREM ShutdownStaysFinal == Spec => []ShutdownIsFinal
  BY FenceStaysFinal, AccessIsSafe, AdmittedAreCancelled, OneHost, PTL
     DEF ShutdownIsFinal

-----------------------------------------------------------------------------
(* The registry of extension contributions. *)

ManifestFields == {"extension", "valid", "enabled", "actions", "routes"}

RegistryType ==
  /\ DOMAIN manifests = Extensions
  /\ \A x \in Extensions : Registered(x) => DOMAIN manifests[x] = ManifestFields
  /\ DOMAIN call = Callers
  /\ \A c \in Callers : call[c] # NoCall =>
       /\ call[c].found \in BOOLEAN /\ call[c].offered \in BOOLEAN
       /\ call[c] = Call(call[c].extension, call[c].action, call[c].command,
                         call[c].found, call[c].offered)

\* A call has noticed that its action is on offer, and one that was found was
\* so once.
CallsNotice ==
  \A c \in Callers : call[c] # NoCall =>
    LET k == call[c] IN
      (k.found \/ Offers(manifests, k.extension, k.action, k.command)) => k.offered

RegistryInv == RegistryType /\ CallsNotice /\ RoutesAreUnique /\ DispatchedWasOffered

\* The registry starts empty.
LEMMA RegistryInitInv == RegistryInit => RegistryInv
  BY DEF RegistryInit, RegistryInv, RegistryType, CallsNotice, RoutesAreUnique,
     DispatchedWasOffered, Registered

\* What calls make of a change of the manifests.
LEMMA NoticingKeeps ==
  ASSUME RegistryInv, Noticing, UNCHANGED delivered
  PROVE  CallsNotice' /\ DispatchedWasOffered' /\ DOMAIN call' = Callers
         /\ \A c \in Callers : call'[c] # NoCall =>
              /\ call'[c].found \in BOOLEAN /\ call'[c].offered \in BOOLEAN
              /\ call'[c] = Call(call'[c].extension, call'[c].action, call'[c].command,
                                 call'[c].found, call'[c].offered)
  <1>1. DispatchedWasOffered' /\ DOMAIN call' = Callers
    BY DEF RegistryInv, DispatchedWasOffered, Noticing
  <1>2. ASSUME NEW c \in Callers, call'[c] # NoCall
        PROVE  LET k == call[c]
                   o == k.offered \/ Offers(manifests', k.extension, k.action, k.command)
               IN k # NoCall /\ call'[c] = Call(k.extension, k.action, k.command, k.found, o)
    BY <1>2 DEF Noticing
  <1>3. ASSUME NEW c \in Callers, call'[c] # NoCall
        PROVE  LET k == call'[c] IN
                 /\ k.found \in BOOLEAN /\ k.offered \in BOOLEAN
                 /\ k = Call(k.extension, k.action, k.command, k.found, k.offered)
                 /\ (k.found \/ Offers(manifests', k.extension, k.action, k.command))
                      => k.offered
    <2> DEFINE k == call[c]
               o == k.offered \/ Offers(manifests', k.extension, k.action, k.command)
    <2>1. k # NoCall /\ call'[c] = Call(k.extension, k.action, k.command, k.found, o)
      BY <1>2, <1>3
    <2>2. k.found \in BOOLEAN /\ o \in BOOLEAN /\ (k.found => k.offered)
      BY <2>1 DEF RegistryInv, RegistryType, CallsNotice
    <2>3. Offers(manifests', k.extension, k.action, k.command) => o
      OBVIOUS
    <2>4. k.offered => o
      OBVIOUS
    <2> HIDE DEF o
    <2>5. /\ call'[c].extension = k.extension /\ call'[c].action = k.action
          /\ call'[c].command = k.command
          /\ call'[c].found = k.found /\ call'[c].offered = o
      BY <2>1 DEF Call
    <2> QED
      BY <2>1, <2>2, <2>3, <2>4, <2>5
  <1> QED
    BY <1>1, <1>3 DEF CallsNotice

LEMMA TryRegisterKeeps ==
  ASSUME RegistryInv, NEW m \in Manifests, TryRegister(m) PROVE RegistryInv'
  <1>1. /\ manifests' = [manifests EXCEPT ![m.extension] = m]
        /\ m.extension \in Extensions /\ DOMAIN m = ManifestFields
    BY RegistryAssumption DEF TryRegister, ManifestFields
  <1>2. DOMAIN manifests' = Extensions
    BY <1>1 DEF RegistryInv, RegistryType
  <1>3. \A x \in Extensions : Registered(x)' => DOMAIN manifests'[x] = ManifestFields
    BY <1>1 DEF RegistryInv, RegistryType, Registered
  <1>4. RoutesAreUnique'
    BY <1>1 DEF RegistryInv, RegistryType, RoutesAreUnique, Registered, TryRegister,
       RouteTaken
  <1> QED
    BY <1>2, <1>3, <1>4, NoticingKeeps DEF RegistryInv, RegistryType, TryRegister

LEMMA TrySetEnabledKeeps ==
  ASSUME RegistryInv, NEW x \in Extensions, NEW e \in BOOLEAN, TrySetEnabled(x, e)
  PROVE  RegistryInv'
  <1>1. /\ manifests' = [manifests EXCEPT ![x].enabled = e]
        /\ Registered(x) /\ DOMAIN manifests[x] = ManifestFields
    BY DEF RegistryInv, RegistryType, TrySetEnabled
  <1>2. DOMAIN manifests' = Extensions
    BY <1>1 DEF RegistryInv, RegistryType
  <1>3. /\ DOMAIN manifests'[x] = ManifestFields
        /\ manifests'[x].routes = manifests[x].routes
        /\ \A y \in Extensions \ {x} : manifests'[y] = manifests[y]
    BY <1>1 DEF RegistryInv, RegistryType, ManifestFields
  <1>4. \A y \in Extensions : Registered(y)' => DOMAIN manifests'[y] = ManifestFields
    BY <1>3 DEF RegistryInv, RegistryType, Registered
  <1>5. RoutesAreUnique'
    BY <1>1, <1>3 DEF RegistryInv, RoutesAreUnique, Registered
  <1> QED
    BY <1>2, <1>4, <1>5, NoticingKeeps DEF RegistryInv, RegistryType, TrySetEnabled

\* A call of one caller is replaced by one that has noticed what is on offer.
LEMMA CallIsSet ==
  ASSUME RegistryInv, NEW c \in Callers, NEW k, UNCHANGED manifests,
         call' = [call EXCEPT ![c] = k],
         k # NoCall =>
           /\ k.found \in BOOLEAN /\ k.offered \in BOOLEAN
           /\ k = Call(k.extension, k.action, k.command, k.found, k.offered)
           /\ (k.found \/ Offers(manifests, k.extension, k.action, k.command)) => k.offered
  PROVE  RegistryType' /\ CallsNotice' /\ RoutesAreUnique'
  <1>1. /\ DOMAIN call' = Callers /\ call'[c] = k
        /\ \A d \in Callers \ {c} : call'[d] = call[d]
    BY DEF RegistryInv, RegistryType
  <1>2. RegistryType' /\ CallsNotice'
    BY <1>1 DEF RegistryInv, RegistryType, CallsNotice, Registered, Offers
  <1>3. RoutesAreUnique'
    BY DEF RegistryInv, RoutesAreUnique, Registered
  <1> QED
    BY <1>2, <1>3

LEMMA LookKeeps ==
  ASSUME RegistryInv, NEW c \in Callers, NEW x \in Extensions, NEW a \in Actions,
         Look(c, x, a)
  PROVE  RegistryInv'
  <1> DEFINE k == Call(x, a, FindAction(x, a), FALSE, TRUE)
  <1>1. /\ k.found = FALSE /\ k.offered = TRUE
        /\ k = Call(k.extension, k.action, k.command, k.found, k.offered)
    BY DEF Call
  <1>2. call' = [call EXCEPT ![c] = k] /\ UNCHANGED <<manifests, delivered>>
    BY DEF Look
  <1> HIDE DEF k
  <1>3. RegistryType' /\ CallsNotice' /\ RoutesAreUnique'
    BY <1>1, <1>2, CallIsSet
  <1> QED
    BY <1>2, <1>3 DEF RegistryInv, DispatchedWasOffered

LEMMA InvokeKeeps ==
  ASSUME RegistryInv, NEW c \in Callers, NEW x \in Extensions, NEW a \in Actions,
         NEW command, Invoke(c, x, a, command)
  PROVE  RegistryInv'
  <1> DEFINE o == Offers(manifests, x, a, command)
             k == Call(x, a, command, FALSE, o)
  <1>1. o \in BOOLEAN
    BY DEF Offers
  <1>2. call' = [call EXCEPT ![c] = k] /\ UNCHANGED <<manifests, delivered>>
    BY DEF Invoke
  <1>3. /\ k.extension = x /\ k.action = a /\ k.command = command
        /\ k.found = FALSE /\ k.offered = o
        /\ k = Call(k.extension, k.action, k.command, k.found, k.offered)
    BY DEF Call
  <1>4. Offers(manifests, k.extension, k.action, k.command) = o
    BY <1>3
  <1> HIDE DEF k, o
  <1>5. RegistryType' /\ CallsNotice' /\ RoutesAreUnique'
    BY <1>1, <1>2, <1>3, <1>4, CallIsSet
  <1> QED
    BY <1>2, <1>5 DEF RegistryInv, DispatchedWasOffered

LEMMA LookAgainKeeps ==
  ASSUME RegistryInv, NEW c \in Callers, LookAgain(c)
  PROVE  RegistryInv'
  <1> DEFINE k == call[c]
             n == IF Stands(k) THEN Call(k.extension, k.action, k.command, TRUE, k.offered)
                  ELSE NoCall
  <1>1. call' = [call EXCEPT ![c] = n] /\ UNCHANGED <<manifests, delivered>>
    BY DEF LookAgain, RegistryInv, RegistryType
  <1>2. ASSUME n # NoCall
        PROVE  /\ n.found \in BOOLEAN /\ n.offered \in BOOLEAN
               /\ n = Call(n.extension, n.action, n.command, n.found, n.offered)
               /\ (n.found \/ Offers(manifests, n.extension, n.action, n.command))
                    => n.offered
    <2>1. Stands(k) /\ n = Call(k.extension, k.action, k.command, TRUE, k.offered)
      BY <1>2
    <2>2. k # NoCall /\ k.offered \in BOOLEAN
      BY DEF LookAgain, RegistryInv, RegistryType
    <2>3. Offers(manifests, k.extension, k.action, k.command)
      BY <2>1 DEF Stands, IsDisabled, FindAction, Offers, Registered
    <2>4. k.offered
      BY <2>2, <2>3 DEF RegistryInv, CallsNotice
    <2> QED
      BY <2>1, <2>4 DEF Call
  <1> HIDE DEF n
  <1>3. RegistryType' /\ CallsNotice' /\ RoutesAreUnique'
    BY <1>1, <1>2, CallIsSet
  <1> QED
    BY <1>1, <1>3 DEF RegistryInv, DispatchedWasOffered

\* Deliver and CancelCall end the call.
LEMMA CallEnds ==
  ASSUME RegistryInv, NEW c \in Callers, Deliver(c) \/ CancelCall(c)
  PROVE  RegistryInv'
  <1>1. UNCHANGED manifests /\ call' = [call EXCEPT ![c] = NoCall]
    BY DEF Deliver, CancelCall
  <1>2. RegistryType' /\ CallsNotice' /\ RoutesAreUnique'
    BY <1>1, CallIsSet
  <1>3. DispatchedWasOffered'
    BY DEF Deliver, CancelCall, RegistryInv, CallsNotice, DispatchedWasOffered
  <1> QED
    BY <1>2, <1>3 DEF RegistryInv

LEMMA RegistryStutters ==
  RegistryInv /\ UNCHANGED registryVars => RegistryInv'
  BY DEF registryVars, RegistryInv, RegistryType, CallsNotice, RoutesAreUnique,
     DispatchedWasOffered, Registered, Offers

LEMMA RegistryInvHolds == PlatformSpec => []RegistryInv
  <1>1. PlatformInit => RegistryInv
    BY RegistryInitInv DEF PlatformInit
  <1>2. RegistryInv /\ [PlatformNext]_platformVars => RegistryInv'
    <2> SUFFICES ASSUME RegistryInv, [PlatformNext]_platformVars PROVE RegistryInv'
      OBVIOUS
    <2>1. CASE RegistryNext
      BY <2>1, TryRegisterKeeps, TrySetEnabledKeeps, LookKeeps, InvokeKeeps,
         LookAgainKeeps, CallEnds DEF RegistryNext
    <2>2. CASE UNCHANGED registryVars
      BY <2>2, RegistryStutters
    <2> QED
      BY <2>1, <2>2 DEF PlatformNext, platformVars
  <1> QED
    BY <1>1, <1>2, PTL DEF PlatformSpec

\* The router is only given commands that an enabled extension offered for that
\* action at some moment of the call.
THEOREM DispatchedStaysOffered == PlatformSpec => []DispatchedWasOffered
  <1>1. RegistryInv => DispatchedWasOffered
    BY DEF RegistryInv
  <1> QED
    BY <1>1, RegistryInvHolds, PTL

\* A route leads to one extension, those that are disabled included.
THEOREM RoutesStayUnique == PlatformSpec => []RoutesAreUnique
  <1>1. RegistryInv => RoutesAreUnique
    BY DEF RegistryInv
  <1> QED
    BY <1>1, RegistryInvHolds, PTL

-----------------------------------------------------------------------------
(* The scans: what is told was visited first, and what is not told yet is   *)
(* visited or still on the stack. *)

\* The children of a folder are put on the stack each once.
LEMMA ChildrenOnTheStack ==
  ASSUME NEW p \in Paths
  PROVE  /\ SetToSeq(Children[p]) \in Seq(Paths)
         /\ ToSet(SetToSeq(Children[p])) = Children[p]
  <1> DEFINE C == Children[p]
             n == Cardinality(C)
             f == SetToSeq(C)
  <1>1. C \subseteq Paths /\ IsFiniteSet(C)
    BY TreeAssumption, FS_Subset
  <1>2. n \in Nat /\ ExistsBijection(1 .. n, C)
    BY <1>1, FS_CardinalityType
  <1>3. PICK b \in [1 .. n -> C] : IsInjective(b)
    BY <1>2 DEF ExistsBijection, Bijection, Injection, IsInjective
  <1>4. f \in [1 .. n -> C] /\ IsInjective(f)
    BY <1>3 DEF SetToSeq
  <1> HIDE DEF f
  <1>5. f \in Injection(1 .. n, C)
    BY <1>4 DEF Injection, IsInjective
  <1>6. Cardinality(1 .. n) = n /\ IsFiniteSet(1 .. n)
    BY <1>2, FS_Interval
  <1>7. f \in Surjection(1 .. n, C)
    BY <1>1, <1>5, <1>6, FS_Injection
  <1>8. ToSet(f) = C
    BY <1>4, <1>7 DEF ToSet, Surjection
  <1>9. f \in Seq(Paths)
    BY <1>1, <1>2, <1>4
  <1> QED
    BY <1>8, <1>9 DEF f

\* What is added to a sequence is added to its elements.
LEMMA AppendedSet ==
  ASSUME NEW s \in Seq(Paths), NEW p \in Paths
  PROVE  /\ Append(s, p) \in Seq(Paths)
         /\ ToSet(Append(s, p)) = ToSet(s) \cup {p}
         /\ IsInjective(s) /\ p \notin ToSet(s) => IsInjective(Append(s, p))
  <1> DEFINE t == Append(s, p)
  <1>1. /\ t \in Seq(Paths) /\ Len(s) \in Nat
        /\ DOMAIN s = 1 .. Len(s) /\ DOMAIN t = 1 .. Len(s) + 1
        /\ \A i \in 1 .. Len(s) : t[i] = s[i]
        /\ t[Len(s) + 1] = p
    OBVIOUS
  <1> HIDE DEF t
  <1>2. \A i \in DOMAIN t : i \in DOMAIN s \/ i = Len(s) + 1
    BY <1>1
  <1>3. ToSet(t) = ToSet(s) \cup {p}
    <2>1. ToSet(t) \subseteq ToSet(s) \cup {p}
      BY <1>1, <1>2 DEF ToSet
    <2>2. ToSet(s) \subseteq ToSet(t) /\ p \in ToSet(t)
      <3>1. DOMAIN s \subseteq DOMAIN t /\ Len(s) + 1 \in DOMAIN t
        BY <1>1
      <3> QED
        BY <1>1, <3>1 DEF ToSet
    <2> QED
      BY <2>1, <2>2
  <1>4. IsInjective(s) /\ p \notin ToSet(s) => IsInjective(t)
    BY <1>1, <1>2 DEF ToSet, IsInjective
  <1> QED
    BY <1>1, <1>3, <1>4 DEF t

LEMMA TakenSet ==
  ASSUME NEW s \in Seq(Paths), s # <<>>
  PROVE  /\ Tail(s) \in Seq(Paths) /\ Head(s) \in Paths
         /\ ToSet(s) = ToSet(Tail(s)) \cup {Head(s)}
  <1>1. /\ Tail(s) \in Seq(Paths) /\ Head(s) \in Paths /\ Head(s) = s[1]
        /\ DOMAIN s = 1 .. Len(s) /\ Len(s) \in Nat \ {0}
        /\ DOMAIN Tail(s) = 1 .. Len(s) - 1
        /\ \A i \in 1 .. Len(s) - 1 : Tail(s)[i] = s[i + 1]
    OBVIOUS
  <1>2. ASSUME NEW x \in ToSet(s) PROVE x \in ToSet(Tail(s)) \cup {Head(s)}
    <2>1. PICK i \in 1 .. Len(s) : x = s[i]
      BY <1>1, <1>2 DEF ToSet
    <2>2. CASE i = 1
      BY <2>1, <2>2, <1>1
    <2>3. CASE i # 1
      <3>1. i - 1 \in 1 .. Len(s) - 1 /\ (i - 1) + 1 = i
        BY <2>3, <1>1
      <3>2. Tail(s)[i - 1] = s[i]
        BY <3>1, <1>1
      <3> QED
        BY <2>1, <3>1, <3>2, <1>1 DEF ToSet
    <2> QED
      BY <2>2, <2>3
  <1>3. ASSUME NEW x \in ToSet(Tail(s)) \cup {Head(s)} PROVE x \in ToSet(s)
    <2>1. \A i \in 1 .. Len(s) - 1 : i + 1 \in 1 .. Len(s) /\ Tail(s)[i] = s[i + 1]
      BY <1>1
    <2> QED
      BY <1>1, <1>3, <2>1 DEF ToSet
  <1> QED
    BY <1>1, <1>2, <1>3

LEMMA JoinedSet ==
  ASSUME NEW s \in Seq(Paths), NEW t \in Seq(Paths)
  PROVE  /\ s \o t \in Seq(Paths)
         /\ ToSet(s \o t) = ToSet(s) \cup ToSet(t)
         /\ IsInjective(s) /\ IsInjective(t) /\ ToSet(s) \cap ToSet(t) = {}
              => IsInjective(s \o t)
  <1> DEFINE u == s \o t
  <1>1. /\ u \in Seq(Paths) /\ Len(s) \in Nat /\ Len(t) \in Nat
        /\ DOMAIN u = 1 .. Len(s) + Len(t)
        /\ DOMAIN s = 1 .. Len(s) /\ DOMAIN t = 1 .. Len(t)
        /\ \A i \in 1 .. Len(s) : u[i] = s[i]
        /\ \A i \in 1 .. Len(t) : u[Len(s) + i] = t[i]
    OBVIOUS
  <1> HIDE DEF u
  <1>2. \A i \in DOMAIN u :
          \/ i \in DOMAIN s /\ u[i] = s[i] 
          \/ i - Len(s) \in DOMAIN t /\ u[i] = t[i - Len(s)]
    <2> SUFFICES ASSUME NEW i \in DOMAIN u, i \notin DOMAIN s
                 PROVE  i - Len(s) \in DOMAIN t /\ u[i] = t[i - Len(s)]
      BY <1>1
    <2>1. i - Len(s) \in 1 .. Len(t) /\ Len(s) + (i - Len(s)) = i
      BY <1>1
    <2> QED
      BY <2>1, <1>1
  <1>3. ToSet(u) = ToSet(s) \cup ToSet(t)
    <2>1. ToSet(u) \subseteq ToSet(s) \cup ToSet(t)
      BY <1>2 DEF ToSet
    <2>2. ToSet(s) \subseteq ToSet(u)
      BY <1>1 DEF ToSet
    <2>3. ToSet(t) \subseteq ToSet(u)
      <3>1. \A i \in 1 .. Len(t) : Len(s) + i \in DOMAIN u
        BY <1>1
      <3> QED
        BY <3>1, <1>1 DEF ToSet
    <2> QED
      BY <2>1, <2>2, <2>3
  <1>4. ASSUME IsInjective(s), IsInjective(t), ToSet(s) \cap ToSet(t) = {}
        PROVE  IsInjective(u)
    <2> SUFFICES ASSUME NEW i \in DOMAIN u, NEW j \in DOMAIN u, u[i] = u[j]
                 PROVE  i = j
      BY DEF IsInjective
    <2>1. i \in Int /\ j \in Int /\ Len(s) \in Int
      BY <1>1
    <2>2. CASE i \in DOMAIN s /\ u[i] = s[i]
      <3>1. j \in DOMAIN s /\ u[j] = s[j]
        <4>1. u[j] \in ToSet(s)
          BY <2>2 DEF ToSet
        <4>2. j - Len(s) \in DOMAIN t => t[j - Len(s)] \in ToSet(t)
          BY DEF ToSet
        <4> QED
          BY <4>1, <4>2, <1>2, <1>4
      <3> QED
        BY <2>2, <3>1, <1>4 DEF IsInjective
    <2>3. CASE i - Len(s) \in DOMAIN t /\ u[i] = t[i - Len(s)]
      <3>1. j - Len(s) \in DOMAIN t /\ u[j] = t[j - Len(s)]
        <4>1. u[j] \in ToSet(t)
          BY <2>3 DEF ToSet
        <4>2. j \in DOMAIN s => s[j] \in ToSet(s)
          BY DEF ToSet
        <4> QED
          BY <4>1, <4>2, <1>2, <1>4
      <3>2. i - Len(s) = j - Len(s)
        BY <2>3, <3>1, <1>4 DEF IsInjective
      <3> QED
        BY <2>1, <3>2
    <2> QED
      BY <1>2, <2>2, <2>3
  <1> QED
    BY <1>1, <1>3, <1>4 DEF u

ScanType ==
  /\ stage \in [ScanIds -> {"none", "added", "running", "over", "removed"}]
  /\ outcome \in [ScanIds -> {"none", "Completed", "Cancelled", "Failed"}]
  /\ roots \in [ScanIds -> Seq(Paths)] /\ pending \in [ScanIds -> Seq(Paths)]
  /\ found \in [ScanIds -> Seq(Paths)] /\ issues \in [ScanIds -> Seq(Paths)]
  /\ visited \in [ScanIds -> SUBSET Paths]

Told(s)  == ToSet(found[s]) \cup ToSet(issues[s])
Known(s) == visited[s] \cup ToSet(pending[s])

\* What is told was visited first, so it is not told again.
ToldOnce(s) ==
  /\ IsInjective(found[s]) /\ IsInjective(issues[s])
  /\ ToSet(found[s]) \cap ToSet(issues[s]) = {}
  /\ Told(s) \subseteq visited[s]

\* What is not told is visited or still on the stack.
NothingDropped(s) ==
  /\ ToSet(roots[s]) \subseteq Known(s)
  /\ \A p \in visited[s] \ Told(s) :
       Children[p] # {} /\ Children[p] \subseteq Known(s)

WalkInv(s) ==
  /\ ToldOnce(s) /\ NothingDropped(s)
  /\ stage[s] \in {"none", "added"} => visited[s] = {}
  /\ stage[s] \in {"none", "added", "running"} => outcome[s] = "none"
  /\ outcome[s] = "Completed" => pending[s] = <<>>

ScanInv == ScanType /\ \A s \in ScanIds : WalkInv(s)

LEMMA EmptyTells == ToSet(<<>>) = {} /\ IsInjective(<<>>) /\ <<>> \in Seq(Paths)
  BY DEF ToSet, IsInjective

LEMMA ScanStarts == ScanInit => ScanInv
  BY EmptyTells DEF ScanInit, ScanInv, ScanType, WalkInv, ToldOnce, NothingDropped,
     Told, Known

\* A scan whose walk has not moved.
LEMMA WalkStands ==
  ASSUME NEW s \in ScanIds, WalkInv(s),
         UNCHANGED <<roots[s], pending[s], visited[s], found[s], issues[s]>>,
         UNCHANGED <<stage[s], outcome[s]>>
  PROVE  WalkInv(s)'
  BY DEF WalkInv, ToldOnce, NothingDropped, Told, Known

\* What the other threads do, and the start and the end of a walk.
LEMMA StagesKeep ==
  ASSUME ScanInv, NEW s \in ScanIds,
         \/ AddSession(s) \/ Attach(s) \/ RemoveSession(s) \/ Cancel(s) \/ DisposeOne(s)
         \/ EndWalk(s) \/ EndCancelled(s) \/ EndFailed(s)
  PROVE  ScanInv'
  <1>1. /\ UNCHANGED <<roots, pending, visited, found, issues>>
        /\ \A t \in ScanIds : t # s => UNCHANGED <<stage[t], outcome[t]>>
        /\ stage'[s] \in {"none", "added"} => stage[s] \in {"none", "added"}
        /\ stage'[s] \in {"none", "added", "running"} =>
             UNCHANGED outcome[s] /\ stage[s] \in {"none", "added", "running"}
        /\ outcome'[s] = "Completed" => outcome[s] = "Completed" \/ pending[s] = <<>>
        /\ ScanType'
    BY DEF ScanInv, ScanType, AddSession, Attach, RemoveSession, Cancel, DisposeOne,
           Request, EndWalk, EndCancelled, EndFailed, Cancelled, Walking, Finish, MoveTo,
           InScans, engineVars, gatewayVars
  <1>2. ASSUME NEW t \in ScanIds PROVE WalkInv(t)'
    <2>1. CASE t # s
      BY <2>1, <1>1, WalkStands DEF ScanInv
    <2>2. CASE t = s
      BY <2>2, <1>1 DEF ScanInv, WalkInv, ToldOnce, NothingDropped, Told, Known
    <2> QED
      BY <2>1, <2>2
  <1> QED
    BY <1>1, <1>2 DEF ScanInv

LEMMA RunTaskKeeps ==
  ASSUME ScanInv, NEW s \in ScanIds, NEW rs \in Roots, RunTask(s, rs)
  PROVE  ScanInv'
  <1>1. /\ rs \in Seq(Paths) /\ stage[s] = "added" /\ visited[s] = {}
        /\ outcome[s] = "none"
        /\ stage' = [stage EXCEPT ![s] = "running"]
        /\ roots' = [roots EXCEPT ![s] = rs] /\ pending' = [pending EXCEPT ![s] = rs]
        /\ UNCHANGED <<visited, found, issues, outcome>>
    BY TreeAssumption DEF RunTask, MoveTo, ScanInv, WalkInv
  <1>2. ScanType' /\ \A t \in ScanIds : t # s =>
          UNCHANGED <<stage[t], roots[t], pending[t]>>
    BY <1>1 DEF ScanInv, ScanType
  <1>3. stage'[s] = "running" /\ roots'[s] = rs /\ pending'[s] = rs
    BY <1>1 DEF ScanInv, ScanType
  <1>4. ASSUME NEW t \in ScanIds PROVE WalkInv(t)'
    <2>1. CASE t # s
      BY <2>1, <1>1, <1>2, WalkStands DEF ScanInv
    <2>2. CASE t = s
      BY <2>2, <1>1, <1>3 DEF ScanInv, WalkInv, ToldOnce, NothingDropped, Told, Known
    <2> QED
      BY <2>1, <2>2
  <1> QED
    BY <1>2, <1>4 DEF ScanInv

\* The walk takes one path off its stack.
LEMMA WalkKeeps ==
  ASSUME ScanInv, NEW s \in ScanIds, SkipPath(s) \/ MeetIssue(s) \/ VisitPath(s)
  PROVE  ScanInv'
  <1> DEFINE p == Head(pending[s])
             rest == Tail(pending[s])
  <1>1. /\ pending[s] \in Seq(Paths) /\ pending[s] # <<>> /\ stage[s] = "running"
        /\ found[s] \in Seq(Paths) /\ issues[s] \in Seq(Paths)
        /\ visited[s] \subseteq Paths /\ outcome[s] = "none"
        /\ UNCHANGED <<stage, roots, outcome>>
    BY DEF ScanInv, ScanType, WalkInv, SkipPath, MeetIssue, VisitPath, Walking
  <1>2. /\ p \in Paths /\ rest \in Seq(Paths)
        /\ ToSet(pending[s]) = ToSet(rest) \cup {p}
    BY <1>1, TakenSet
  <1>3. WalkInv(s)
    BY DEF ScanInv
  <1> SUFFICES /\ ScanType'
               /\ \A t \in ScanIds : t # s =>
                    UNCHANGED <<pending[t], visited[t], found[t], issues[t]>>
               /\ WalkInv(s)'
    <2> SUFFICES ASSUME NEW t \in ScanIds, t # s,
                        UNCHANGED <<pending[t], visited[t], found[t], issues[t]>>
                 PROVE  WalkInv(t)'
      BY DEF ScanInv
    <2> QED
      BY <1>1, WalkStands DEF ScanInv
  <1>4. CASE SkipPath(s)
    <2>1. /\ pending' = [pending EXCEPT ![s] = rest] /\ p \in visited[s]
          /\ UNCHANGED <<visited, found, issues>>
      BY <1>4 DEF SkipPath, Skip, Next1
    <2> HIDE DEF p, rest
    <2>2. ScanType' /\ pending'[s] = rest /\ \A t \in ScanIds : t # s => UNCHANGED pending[t]
      BY <1>1, <1>2, <2>1 DEF ScanInv, ScanType
    <2> QED
      BY <1>1, <1>2, <1>3, <2>1, <2>2 DEF WalkInv, ToldOnce, NothingDropped, Told, Known
  <1>5. CASE MeetIssue(s)
    <2> DEFINE told == Append(issues[s], p)
               seen == visited[s] \cup {p}
    <2>1. /\ pending' = [pending EXCEPT ![s] = rest] /\ p \notin visited[s]
          /\ issues' = [issues EXCEPT ![s] = told]
          /\ visited' = [visited EXCEPT ![s] = seen]
          /\ UNCHANGED found
      BY <1>5, <1>1 DEF MeetIssue, Skip, Next1, Now, ScanInv, ScanType
    <2>2. /\ told \in Seq(Paths) /\ ToSet(told) = ToSet(issues[s]) \cup {p}
          /\ IsInjective(issues[s]) /\ p \notin ToSet(issues[s]) => IsInjective(told)
      BY <1>1, <1>2, AppendedSet
    <2>3. seen \subseteq Paths
      BY <1>1, <1>2
    <2> HIDE DEF p, rest, told
    <2>4. /\ ScanType' /\ pending'[s] = rest /\ issues'[s] = told /\ visited'[s] = seen
          /\ \A t \in ScanIds : t # s => UNCHANGED <<pending[t], issues[t], visited[t]>>
      BY <1>1, <1>2, <2>1, <2>2, <2>3 DEF ScanInv, ScanType
    <2>5. ToldOnce(s)'
      BY <1>3, <2>1, <2>2, <2>4 DEF WalkInv, ToldOnce, Told
    <2>6. NothingDropped(s)'
      BY <1>1, <1>2, <1>3, <2>1, <2>2, <2>4 DEF WalkInv, NothingDropped, Told, Known
    <2> QED
      BY <1>1, <2>1, <2>4, <2>5, <2>6 DEF WalkInv
  <1>6. CASE VisitPath(s) /\ Children[p] = {}
    <2> DEFINE told == Append(found[s], p)
               seen == visited[s] \cup {p}
    <2>1. /\ pending' = [pending EXCEPT ![s] = rest] /\ p \notin visited[s]
          /\ found' = [found EXCEPT ![s] = told]
          /\ visited' = [visited EXCEPT ![s] = seen]
          /\ UNCHANGED issues
      BY <1>6, <1>1 DEF VisitPath, Skip, Next1, Now, ScanInv, ScanType
    <2>2. /\ told \in Seq(Paths) /\ ToSet(told) = ToSet(found[s]) \cup {p}
          /\ IsInjective(found[s]) /\ p \notin ToSet(found[s]) => IsInjective(told)
      BY <1>1, <1>2, AppendedSet
    <2>3. seen \subseteq Paths
      BY <1>1, <1>2
    <2> HIDE DEF p, rest, told
    <2>4. /\ ScanType' /\ pending'[s] = rest /\ found'[s] = told /\ visited'[s] = seen
          /\ \A t \in ScanIds : t # s => UNCHANGED <<pending[t], found[t], visited[t]>>
      BY <1>1, <1>2, <2>1, <2>2, <2>3 DEF ScanInv, ScanType
    <2>5. ToldOnce(s)'
      BY <1>3, <2>1, <2>2, <2>4 DEF WalkInv, ToldOnce, Told
    <2>6. NothingDropped(s)'
      BY <1>1, <1>2, <1>3, <2>1, <2>2, <2>4 DEF WalkInv, NothingDropped, Told, Known
    <2> QED
      BY <1>1, <2>1, <2>4, <2>5, <2>6 DEF WalkInv
  <1>7. CASE VisitPath(s) /\ Children[p] # {}
    <2> DEFINE stack == SetToSeq(Children[p]) \o rest
               seen == visited[s] \cup {p}
    <2>1. /\ pending' = [pending EXCEPT ![s] = stack] /\ p \notin visited[s]
          /\ visited' = [visited EXCEPT ![s] = seen]
          /\ UNCHANGED <<found, issues>>
      BY <1>7, <1>1 DEF VisitPath, Skip, Next1, Now, ScanInv, ScanType
    <2>2. stack \in Seq(Paths) /\ ToSet(stack) = Children[p] \cup ToSet(rest)
      <3> HIDE DEF p, rest
      <3> QED
        BY <1>2, ChildrenOnTheStack, JoinedSet
    <2>3. seen \subseteq Paths
      BY <1>1, <1>2
    <2> HIDE DEF p, rest, stack
    <2>4. /\ ScanType' /\ pending'[s] = stack /\ visited'[s] = seen
          /\ \A t \in ScanIds : t # s => UNCHANGED <<pending[t], visited[t]>>
      BY <1>1, <1>2, <2>1, <2>2, <2>3 DEF ScanInv, ScanType
    <2>5. ToldOnce(s)'
      BY <1>3, <2>1, <2>4 DEF WalkInv, ToldOnce, Told
    <2>6. NothingDropped(s)'
      BY <1>1, <1>2, <1>3, <1>7, <2>1, <2>2, <2>4 DEF WalkInv, NothingDropped, Told, Known
    <2> QED
      BY <1>1, <2>1, <2>4, <2>5, <2>6 DEF WalkInv
  <1> QED
    BY <1>4, <1>5, <1>6, <1>7

LEMMA ScanInvHolds == PlatformSpec => []ScanInv
  <1>1. PlatformInit => ScanInv
    BY ScanStarts DEF PlatformInit
  <1>2. ScanInv /\ [PlatformNext]_platformVars => ScanInv'
    <2> SUFFICES ASSUME ScanInv, [PlatformNext]_platformVars PROVE ScanInv'
      OBVIOUS
    <2>1. CASE BeginDispose \/ UNCHANGED scanVars
      <3>1. ScanType'
        BY <2>1 DEF BeginDispose, scanVars, gatewayVars, engineVars, ScanInv, ScanType
      <3>2. \A s \in ScanIds : WalkInv(s)'
        BY <2>1, WalkStands DEF BeginDispose, scanVars, gatewayVars, engineVars, ScanInv
      <3> QED
        BY <3>1, <3>2 DEF ScanInv
    <2>2. CASE ScanNext
      BY <2>1, <2>2, StagesKeep, RunTaskKeeps, WalkKeeps DEF ScanNext, Work
    <2> QED
      BY <2>1, <2>2 DEF PlatformNext, platformVars
  <1> QED
    BY <1>1, <1>2, PTL DEF PlatformSpec

\* A scan tells each path at most once, and one that completes has told
\* everything below its roots, for any tree, roots and number of scans, and
\* wherever other threads cancel or dispose (WindowsScanEngine.Scan).
THEOREM EachPathIsToldOnce == PlatformSpec => []ScansTellEachPathOnce
  <1>1. ScanInv => ScansTellEachPathOnce
    <2> SUFFICES ASSUME ScanInv, NEW s \in ScanIds
                 PROVE  /\ IsInjective(found[s] \o issues[s])
                        /\ outcome[s] = "Completed" =>
                             /\ ToSet(roots[s]) \subseteq visited[s]
                             /\ \A p \in visited[s] \ ToSet(found[s] \o issues[s]) :
                                  Children[p] # {} /\ Children[p] \subseteq visited[s]
      BY DEF ScansTellEachPathOnce
    <2>1. WalkInv(s) /\ found[s] \in Seq(Paths) /\ issues[s] \in Seq(Paths)
      BY DEF ScanInv, ScanType
    <2>2. /\ IsInjective(found[s] \o issues[s])
          /\ ToSet(found[s] \o issues[s]) = Told(s)
      BY <2>1, JoinedSet DEF WalkInv, ToldOnce, Told
    <2>3. outcome[s] = "Completed" => Known(s) = visited[s]
      BY <2>1, EmptyTells DEF WalkInv, Known
    <2> QED
      BY <2>1, <2>2, <2>3 DEF WalkInv, NothingDropped
  <1> QED
    BY <1>1, ScanInvHolds, PTL

-----------------------------------------------------------------------------
(* The media controls: what the sink shows is never ahead of what the        *)
(* gateway has merged, and what is merged only goes forward. *)

MediaType ==
  /\ core \in Snapshots /\ sent \subseteq Snapshots
  /\ \A m \in samples : m.clock \in Clocks
  /\ latest \in Snapshots \cup {NoSnapshot}

\* One projection is of the same change of the Core, and its item.
SameChange(p, q) == p.version = q.version => p.item = q.item

ShownInv ==
  shown # NoProjection =>
    /\ latest # NoSnapshot
    /\ shown.version \in Nat /\ shown.epoch \in Nat /\ shown.position \in Nat
    /\ NotOlder(Map(latest), shown) /\ SameChange(Map(latest), shown)

MediaInv == MediaType /\ ShownInv

\* What the gateway has merged goes forward.
GoesOn(s) ==
  latest # NoSnapshot =>
    \/ s.version > latest.version
    \/ /\ s.version = latest.version /\ s.item = latest.item
       /\ IsAtLeast(s.clock, latest.clock)

ShowsForward == shown # NoProjection => NotOlder(shown', shown)

LEMMA MapParts ==
  ASSUME NEW s \in Snapshots
  PROVE  /\ Map(s).item = s.item /\ Map(s).version = s.version
         /\ Map(s).epoch = s.clock.epoch
         /\ Map(s).position = IF s.item = NoItem THEN 0 ELSE s.clock.frames
         /\ Map(s).version \in Nat /\ Map(s).epoch \in Nat /\ Map(s).position \in Nat
         /\ Map(s).item \in Items \cup {NoItem}
  BY DEF Map, Snapshots, Clocks

LEMMA MapGoesOn ==
  ASSUME MediaInv, NEW s \in Snapshots, GoesOn(s), shown # NoProjection
  PROVE  NotOlder(Map(s), shown) /\ SameChange(Map(s), shown)
  <1>1. /\ latest \in Snapshots /\ latest # NoSnapshot
        /\ NotOlder(Map(latest), shown) /\ SameChange(Map(latest), shown)
    BY DEF MediaInv, MediaType, ShownInv
  <1>2. /\ shown.version \in Nat /\ shown.epoch \in Nat /\ shown.position \in Nat
        /\ GoesOn(s)
    BY DEF MediaInv, ShownInv
  <1> DEFINE p == Map(s)
             q == Map(latest)
  <1>3. /\ p.item = s.item /\ p.version = s.version /\ p.epoch = s.clock.epoch
        /\ p.position = IF s.item = NoItem THEN 0 ELSE s.clock.frames
        /\ p.version \in Nat /\ p.epoch \in Nat /\ p.position \in Nat
    BY MapParts
  <1>4. /\ q.item = latest.item /\ q.version = latest.version
        /\ q.epoch = latest.clock.epoch
        /\ q.position = IF latest.item = NoItem THEN 0 ELSE latest.clock.frames
        /\ q.version \in Nat /\ q.epoch \in Nat /\ q.position \in Nat
    BY <1>1, MapParts
  <1> HIDE DEF p, q
  <1>5. /\ p.version >= q.version
        /\ p.version = q.version => p.item = q.item /\ NotOlder(p, q)
    <2>1. s.clock.frames \in Nat /\ latest.clock.frames \in Nat
      BY <1>1 DEF Snapshots, Clocks
    <2> QED
      BY <1>1, <1>2, <1>3, <1>4, <2>1 DEF GoesOn, IsAtLeast, NotOlder
  <1>6. NotOlder(q, shown) /\ SameChange(q, shown)
    BY <1>1 DEF q
  <1>7. NotOlder(p, shown) /\ SameChange(p, shown)
    BY <1>2, <1>3, <1>4, <1>5, <1>6 DEF NotOlder, SameChange
  <1> QED
    BY <1>7 DEF p

\* The sink is shown the projection of a snapshot that goes on from the last.
LEMMA MergeKeeps ==
  ASSUME MediaInv, NEW s \in Snapshots, GoesOn(s), latest' = s,
         shown' \in {shown, Map(s)}, UNCHANGED <<core, sent, samples>>
  PROVE  MediaInv' /\ ShowsForward
  <1>1. MediaType' /\ latest' # NoSnapshot
    BY MediaAssumption DEF MediaInv, MediaType
  <1>2. /\ NotOlder(Map(s), Map(s)) /\ SameChange(Map(s), Map(s))
        /\ Map(s).version \in Nat /\ Map(s).epoch \in Nat /\ Map(s).position \in Nat
    BY MapParts DEF NotOlder, SameChange
  <1>3. /\ shown # NoProjection => NotOlder(Map(s), shown) /\ SameChange(Map(s), shown)
    BY MapGoesOn
  <1>4. Map(latest)' = Map(s)
    BY DEF Map, Status, EnabledActions
  <1>5. ShownInv'
    BY <1>1, <1>2, <1>3, <1>4 DEF MediaInv, ShownInv
  <1>6. shown # NoProjection => NotOlder(shown, shown)
    BY DEF MediaInv, ShownInv, NotOlder
  <1> QED
    BY <1>1, <1>3, <1>5, <1>6 DEF MediaInv, ShowsForward

LEMMA ShowsOnly ==
  ASSUME NEW p, ApplyLocked(p)
  PROVE  shown' \in {shown, p}
  BY DEF ApplyLocked, Shows

LEMMA AcceptKeeps ==
  ASSUME MediaInv, NEW s \in sent, AcceptSnapshot(s)
  PROVE  MediaInv' /\ ShowsForward
  <1> DEFINE m == Merged(s)
  <1>1. /\ s \in Snapshots /\ latest \in Snapshots \cup {NoSnapshot}
        /\ s.version \in Nat /\ s.clock \in Clocks
    BY DEF MediaInv, MediaType, Snapshots
  <1>2. latest # NoSnapshot =>
          /\ latest \in Snapshots /\ latest.clock \in Clocks /\ latest.version \in Nat
          /\ WithClock(s, latest.clock) \in Snapshots
          /\ WithClock(s, latest.clock).clock = latest.clock
          /\ WithClock(s, latest.clock).version = s.version
          /\ WithClock(s, latest.clock).item = s.item
    BY <1>1 DEF Snapshots, WithClock, Snapshot
  <1>3. m \in Snapshots
    BY <1>1, <1>2 DEF Merged
  <1>4. GoesOn(m)
    <2> SUFFICES ASSUME latest # NoSnapshot PROVE GoesOn(m)
      BY DEF GoesOn
    <2>1. CASE s.version > latest.version
      BY <2>1, <1>1, <1>2 DEF Merged, GoesOn
    <2>2. CASE s.version = latest.version /\ s = WithClock(latest, s.clock)
      <3>1. s.item = latest.item
        BY <2>2 DEF WithClock, Snapshot
      <3>2. IsAtLeast(latest.clock, latest.clock)
        BY <1>2 DEF IsAtLeast, Clocks
      <3> QED
        BY <2>2, <3>1, <3>2, <1>2 DEF Merged, GoesOn
    <2> QED
      BY <2>1, <2>2 DEF AcceptSnapshot
  <1>5. latest' = m /\ shown' \in {shown, Map(m)} /\ UNCHANGED <<core, sent, samples>>
    BY ShowsOnly DEF AcceptSnapshot, Merge
  <1> HIDE DEF m
  <1> QED
    BY <1>3, <1>4, <1>5, MergeKeeps

LEMMA StaysKeeps ==
  ASSUME MediaInv, UNCHANGED <<latest, shown>>, MediaType'
  PROVE  MediaInv' /\ ShowsForward
  <1>1. Map(latest)' = Map(latest)
    BY DEF Map, Status, EnabledActions
  <1>2. shown # NoProjection => NotOlder(shown, shown)
    BY DEF MediaInv, ShownInv, NotOlder
  <1> QED
    BY <1>1, <1>2 DEF MediaInv, ShownInv, ShowsForward

LEMMA SampleKeeps ==
  ASSUME MediaInv, NEW m \in samples, SampleProgress(m)
  PROVE  MediaInv' /\ ShowsForward
  <1>1. CASE UNCHANGED <<latest, applied, shown>>
    <2>1. MediaType'
      BY <1>1 DEF SampleProgress, MediaInv, MediaType
    <2> QED
      BY <1>1, <2>1, StaysKeeps
  <1>2. CASE /\ m.version = latest.version /\ m.item = latest.item
             /\ IsAtLeast(m.clock, latest.clock)
             /\ Merge(WithClock(latest, m.clock))
    <2> DEFINE s == WithClock(latest, m.clock)
    <2>1. latest \in Snapshots /\ m.clock \in Clocks
      BY DEF SampleProgress, MediaInv, MediaType
    <2>2. s \in Snapshots /\ GoesOn(s)
      BY <1>2, <2>1 DEF Snapshots, WithClock, Snapshot, GoesOn
    <2>3. latest' = s /\ shown' \in {shown, Map(s)} /\ UNCHANGED <<core, sent, samples>>
      BY <1>2, ShowsOnly DEF SampleProgress, Merge
    <2> HIDE DEF s
    <2> QED
      BY <2>2, <2>3, MergeKeeps
  <1> QED
    BY <1>1, <1>2 DEF SampleProgress

LEMMA FlushKeeps == MediaInv /\ FlushProgress => MediaInv' /\ ShowsForward
  <1> SUFFICES ASSUME MediaInv, FlushProgress PROVE MediaInv' /\ ShowsForward
    OBVIOUS
  <1>1. latest \in Snapshots /\ latest # NoSnapshot
    BY DEF FlushProgress, MediaInv, MediaType
  <1>2. GoesOn(latest)
    BY <1>1 DEF GoesOn, IsAtLeast, Snapshots, Clocks
  <1>3. /\ latest' = latest /\ shown' \in {shown, Map(latest)}
        /\ UNCHANGED <<core, sent, samples>>
    BY ShowsOnly DEF FlushProgress
  <1> QED
    BY <1>1, <1>2, <1>3, MergeKeeps

LEMMA CoreKeeps == MediaInv /\ (CoreStep \/ Sample) => MediaInv' /\ ShowsForward
  <1> SUFFICES ASSUME MediaInv, CoreStep \/ Sample PROVE MediaInv' /\ ShowsForward
    OBVIOUS
  <1>1. core \in Snapshots /\ core.version \in Nat /\ core.clock \in Clocks
        /\ core.item \in Items \cup {NoItem}
    BY DEF MediaInv, MediaType, Snapshots
  <1>2. CASE CoreStep
    <2>1. ASSUME NEW i \in Items \cup {NoItem}, NEW t \in CoreStates, NEW n \in Nat,
                 NEW c \in Clocks
          PROVE  Snapshot(i, t, n, c) \in Snapshots
      BY DEF Snapshot, Snapshots
    <2>2. ASSUME NEW i \in Items \cup {NoItem}, NEW t \in CoreStates,
                 NEW jump \in BOOLEAN, CoreChanges(i, t, jump)
          PROVE  core' \in Snapshots /\ sent' = sent \cup {core'}
      <3> DEFINE n == core.version + 1
                 c == IF jump THEN Clock(core.clock.epoch + 1, 0, TRUE) ELSE core.clock
      <3>1. c \in Clocks
        BY <1>1 DEF Clock, Clocks
      <3>2. n \in Nat /\ core' = Snapshot(i, t, n, c) /\ sent' = sent \cup {core'}
        BY <1>1, <2>2 DEF CoreChanges, Report
      <3> HIDE DEF c, n
      <3> QED
        BY <1>1, <2>1, <3>1, <3>2
    <2>3. ASSUME CorePlays
          PROVE  core' \in Snapshots /\ sent' = sent \cup {core'}
      <3> DEFINE c == Clock(core.clock.epoch, core.clock.frames + 1, FALSE)
      <3>1. c \in Clocks /\ core.state \in CoreStates
        BY <1>1 DEF Clock, Clocks, Snapshots
      <3>2. core' = Snapshot(core.item, core.state, core.version, c)
            /\ sent' = sent \cup {core'}
        BY <2>3 DEF CorePlays, Report, WithClock
      <3> HIDE DEF c
      <3> QED
        BY <1>1, <2>1, <3>1, <3>2
    <2>4. core' \in Snapshots /\ sent' = sent \cup {core'}
      BY <1>2, <2>2, <2>3 DEF CoreStep
    <2> QED
      BY <1>2, <2>4, StaysKeeps DEF CoreStep, MediaInv, MediaType
  <1>3. CASE Sample
    BY <1>1, <1>3, StaysKeeps DEF Sample, MediaInv, MediaType
  <1> QED
    BY <1>2, <1>3

LEMMA MediaStarts == MediaInit => MediaInv
  BY MediaAssumption
     DEF MediaInit, MediaInv, MediaType, ShownInv, Snapshot, Snapshots, Clock, Clocks

LEMMA MediaKeeps ==
  ASSUME MediaInv, [PlatformNext]_platformVars
  PROVE  MediaInv' /\ ShowsForward
  <1>1. CASE MediaNext
    BY <1>1, AcceptKeeps, SampleKeeps, FlushKeeps, CoreKeeps DEF MediaNext
  <1>2. CASE UNCHANGED mediaVars
    BY <1>2, StaysKeeps DEF mediaVars, MediaInv, MediaType
  <1> QED
    BY <1>1, <1>2 DEF PlatformNext, platformVars

\* The system's media controls never go back to an older state or position, for
\* any snapshots and samples in any order and whenever the sink throws
\* (AcceptSnapshot, SampleProgress).
THEOREM ProjectionGoesOn == PlatformSpec => ProjectionFollowsCore
  <1>1. PlatformInit => MediaInv
    BY MediaStarts DEF PlatformInit
  <1>2. MediaInv /\ [PlatformNext]_platformVars => MediaInv'
    BY MediaKeeps
  <1>3. MediaInv /\ [PlatformNext]_platformVars =>
          [shown # NoProjection => NotOlder(shown', shown)]_platformVars
    BY MediaKeeps DEF ShowsForward
  <1> QED
    BY <1>1, <1>2, <1>3, PTL DEF PlatformSpec, ProjectionFollowsCore
==============================================================================
