--------------------------- MODULE FfiClient_proofs ---------------------------
(***************************************************************************)
(* Proofs about FfiClient, for any number of clients, threads and jobs:    *)
(* no native call meets a client that is being released, and joining a     *)
(* worker is a fence for whoever joins it alone.                           *)
(*                                                                         *)
(* The steps of the hosts leave everything these invariants speak of as it *)
(* is, so nothing about CoreHost is needed.                                *)
(***************************************************************************)
EXTENDS FfiClient, TLAPS

Shutting == {"admission", "joining", "waiting", "host"}
Starting == {"referenced", "calling"}

InShutdown(t, h) == Client(t) = h /\ doing[t].place \in Shutting
Refers(t, h)     == Client(t) = h /\ doing[t].place \in {"referenced", "calling", "leaving"}

Calls == [place : Places, client : Hosts \cup {NoHost}, job : Jobs \cup {NoJob},
          todo : SUBSET Jobs, releasing : BOOLEAN]

Types ==
  /\ shutdown \subseteq Hosts
  /\ disposed \subseteq Hosts
  /\ closed \subseteq Hosts
  /\ released \subseteq Hosts
  /\ owner \in [Jobs -> Hosts \cup {NoHost}]
  /\ worker \in [Jobs -> WorkerStates]
  /\ taken \subseteq Jobs
  /\ closing \in [Jobs -> ClosingStates]
  /\ doing \in [Threads -> Calls]
  /\ \A t \in Threads : doing[t].place # "idle" => Client(t) \in Hosts

\* One thread at a time shuts a client down; it releases only a closed handle
\* to which nobody refers any more.
HandleInv ==
  /\ closed \subseteq disposed
  /\ \A h \in Hosts, t, u \in Threads : InShutdown(t, h) /\ InShutdown(u, h) => t = u
  /\ \A h \in Hosts, t \in Threads : InShutdown(t, h) =>
       h \in disposed /\ h \notin released /\ (doing[t].releasing <=> h \in closed)
  /\ \A h \in Hosts, t, u \in Threads :
       InShutdown(t, h) /\ doing[t].releasing => ~Refers(u, h)
  /\ \A h \in released, t \in Threads : h \in closed /\ ~Refers(t, h)
  /\ \A t \in Threads : doing[t].releasing => doing[t].place \in Shutting

\* A job is started once, and its handle is closed after that.
JobInv ==
  /\ \A t \in Threads : doing[t].place \in Starting =>
       doing[t].job \in Jobs /\ worker[doing[t].job] = "none"
  /\ \A t, u \in Threads :
       doing[t].place \in Starting /\ doing[u].place \in Starting
         /\ doing[t].job = doing[u].job => t = u
  /\ \A j \in Jobs : worker[j] = "none" <=> owner[j] = NoHost
  /\ \A j \in Jobs : worker[j] = "none" => closing[j] = "open" /\ j \notin taken

\* What the first shutdown of a client has still to join.
TodoInv ==
  /\ closed \subseteq shutdown
  /\ \A t \in Threads : doing[t].place \in Shutting \ {"admission"} => Client(t) \in shutdown
  /\ \A t \in Threads : \A j \in doing[t].todo :
       /\ doing[t].place \in {"joining", "waiting"}
       /\ owner[j] = Client(t)
       /\ closing[j] = "open" => j \notin taken

\* A job whose handle nobody closes and whose client is shut down has ended, or
\* that shutdown has it on its list or waits for it.
JoinInv ==
  /\ \A j \in Jobs : closing[j] = "open" /\ j \in taken => owner[j] \in shutdown
  /\ \A j \in Jobs : closing[j] \in {"joined", "freed"} /\ owner[j] \notin shutdown
       => worker[j] = "exited"
  /\ \A j \in Jobs : closing[j] = "open" /\ owner[j] \in shutdown /\ worker[j] # "exited" =>
       \E t \in Threads :
         /\ InShutdown(t, owner[j])
         /\ ~doing[t].releasing
         /\ j \in doing[t].todo \/ (doing[t].place = "waiting" /\ doing[t].job = j)

IInv == Types /\ HandleInv /\ JobInv /\ TodoInv /\ JoinInv

ownVars == <<clientVars, jobVars, doing>>
-----------------------------------------------------------------------------
\* The steps, those of the hosts put together as one that changes nothing here.
LEMMA Steps ==
  ASSUME [Next]_vars
  PROVE  \/ UNCHANGED ownVars
         \/ \E t \in Threads :
              \/ \E h \in Hosts : Dispose(t, h) \/ \E j \in Jobs : AddRef(t, h, j)
              \/ CheckDisposed(t) \/ StartJob(t) \/ DropRef(t) \/ TakeAdmission(t)
              \/ JoinNext(t) \/ Joined(t) \/ CallHost(t) \/ HostReturned(t)
         \/ \E j \in Jobs : Emit(j) \/ EnterFence(j) \/ Callback(j) \/ Leave(j)
                            \/ Close(j) \/ CloserJoined(j) \/ FreeContext(j)
  <1>1. CASE UNCHANGED vars
    BY <1>1 DEF vars, ownVars
  <1>2. ASSUME NEW t \in Threads, CoreStep(t) PROVE UNCHANGED ownVars
    BY <1>2 DEF CoreStep, ownVars
  <1>3. ASSUME NEW t \in Threads, NEW h \in Hosts, Create(t, h) \/ LastReference(t, h)
        PROVE  UNCHANGED ownVars
    BY <1>3 DEF Create, LastReference, ownVars
  <1> QED
    BY <1>1, <1>2, <1>3 DEF Next, Begins, Continues, Works, Closes

LEMMA InitIInv == Init => IInv
  BY FfiClientAssumption
     DEF Init, Idle, Call, IInv, Types, HandleInv, JobInv, TodoInv, JoinInv, InShutdown, Refers,
         Client, Calls, Places, Shutting, Starting, WorkerStates, ClosingStates

LEMMA StepTypes == IInv /\ [Next]_vars => Types'
  <1> SUFFICES ASSUME IInv, [Next]_vars PROVE Types'
    OBVIOUS
  <1> USE FfiClientAssumption DEF IInv, Types, Calls, Places, WorkerStates, ClosingStates, Client
  <1>1. CASE UNCHANGED ownVars
    BY <1>1 DEF ownVars, clientVars, jobVars
  <1>2. ASSUME NEW t \in Threads, NEW h \in Hosts, Dispose(t, h)
        PROVE  Types'
    BY <1>2 DEF Dispose, IsFree, Put, Call, Idle, hostVars, clientVars, jobVars
  <1>3. ASSUME NEW t \in Threads, NEW h \in Hosts, NEW j \in Jobs, AddRef(t, h, j)
        PROVE  Types'
    BY <1>3 DEF AddRef, IsFree, Put, Call, Idle, hostVars, clientVars, jobVars
  <1>4. ASSUME NEW t \in Threads, CheckDisposed(t)
        PROVE  Types'
    BY <1>4 DEF CheckDisposed, Is, Goto, Put, Call, hostVars, clientVars, jobVars
  <1>5. ASSUME NEW t \in Threads, StartJob(t)
        PROVE  Types'
    BY <1>5 DEF StartJob, Is, Goto, Put, Call, Refuses, Work, hostVars, clientVars, jobVars
  <1>6. ASSUME NEW t \in Threads, DropRef(t)
        PROVE  Types'
    <2> USE <1>6 DEF DropRef, Is, Release, Return, Put, Call, Idle, hostVars, clientVars, jobVars
    <2>1. CASE Client(t) \in closed /\ Last(Client(t), t)
      <3>1. doing' = [doing EXCEPT ![t] = Call("admission", Client(t), NoJob, {}, TRUE)]
        BY <2>1
      <3>2. doing[t].client \in Hosts
        OBVIOUS
      <3> QED
        BY <3>1, <3>2
    <2>2. CASE ~(Client(t) \in closed /\ Last(Client(t), t))
      <3>1. doing' = [doing EXCEPT ![t] = Idle]
        BY <2>2
      <3> QED
        BY <3>1
    <2> QED
      BY <2>1, <2>2
  <1>7. ASSUME NEW t \in Threads, TakeAdmission(t)
        PROVE  Types'
    BY <1>7 DEF TakeAdmission, Is, Put, Call, Flagged, JobsOf, hostVars, clientVars, jobVars
  <1>8. ASSUME NEW t \in Threads, JoinNext(t)
        PROVE  Types'
    BY <1>8 DEF JoinNext, Is, Put, Call, Takes, hostVars, clientVars, jobVars
  <1>9. ASSUME NEW t \in Threads, Joined(t)
        PROVE  Types'
    BY <1>9 DEF Joined, Is, Put, Call, hostVars, clientVars, jobVars
  <1>10. ASSUME NEW t \in Threads, CallHost(t)
        PROVE  Types'
    BY <1>10 DEF CallHost, Is, Goto, Put, Call, hostVars, clientVars, jobVars
  <1>11. ASSUME NEW t \in Threads, HostReturned(t)
        PROVE  Types'
    <2> USE <1>11 DEF HostReturned, Is, Release, Return, Put, Call, Idle, hostVars, clientVars, jobVars
    <2>1. doing[t].client \in Hosts
      OBVIOUS
    <2>2. \/ doing' = [doing EXCEPT ![t] = Idle]
          \/ doing' = [doing EXCEPT ![t] = Call("admission", Client(t), NoJob, {}, TRUE)]
      <3>1. CASE doing[t].releasing
        BY <3>1
      <3>2. CASE ~doing[t].releasing /\ Last(Client(t), t)
        BY <3>2
      <3>3. CASE ~doing[t].releasing /\ ~Last(Client(t), t)
        BY <3>3
      <3> QED
        BY <3>1, <3>2, <3>3
    <2>3. closed' \subseteq Hosts /\ released' \subseteq Hosts
      BY <2>1
    <2>4. UNCHANGED <<shutdown, disposed, jobVars>>
      OBVIOUS
    <2> HIDE <1>11 DEF HostReturned
    <2>5. CASE doing' = [doing EXCEPT ![t] = Idle]
      BY <2>3, <2>4, <2>5
    <2>6. CASE doing' = [doing EXCEPT ![t] = Call("admission", Client(t), NoJob, {}, TRUE)]
      BY <2>1, <2>3, <2>4, <2>6
    <2> QED
      BY <2>2, <2>5, <2>6
  <1>12. ASSUME NEW j \in Jobs, Emit(j)
        PROVE  Types'
    BY <1>12 DEF Emit, Work, hostVars, clientVars, jobVars
  <1>13. ASSUME NEW j \in Jobs, EnterFence(j)
        PROVE  Types'
    BY <1>13 DEF EnterFence, Refused, Work, hostVars, clientVars, jobVars
  <1>14. ASSUME NEW j \in Jobs, Callback(j)
        PROVE  Types'
    BY <1>14 DEF Callback, Work, hostVars, clientVars, jobVars
  <1>15. ASSUME NEW j \in Jobs, Leave(j)
        PROVE  Types'
    BY <1>15 DEF Leave, Work, hostVars, clientVars, jobVars
  <1>16. ASSUME NEW j \in Jobs, Close(j)
        PROVE  Types'
    BY <1>16 DEF Close, MustJoin, Takes, hostVars, clientVars, jobVars
  <1>17. ASSUME NEW j \in Jobs, CloserJoined(j)
        PROVE  Types'
    BY <1>17 DEF CloserJoined, Ended, hostVars, clientVars, jobVars
  <1>18. ASSUME NEW j \in Jobs, FreeContext(j)
        PROVE  Types'
    BY <1>18 DEF FreeContext, hostVars, clientVars, jobVars
  <1> QED
    BY <1>1, <1>2, <1>3, <1>4, <1>5, <1>6, <1>7, <1>8, <1>9, <1>10, <1>11, <1>12, <1>13, <1>14, <1>15, <1>16, <1>17, <1>18, Steps

LEMMA StepHandle == IInv /\ [Next]_vars => HandleInv'
  <1> SUFFICES ASSUME IInv, [Next]_vars PROVE HandleInv'
    OBVIOUS
  <1> USE DEF IInv, HandleInv, Client, InShutdown, Refers, Shutting
  <1>1. CASE UNCHANGED ownVars
    BY <1>1 DEF ownVars, clientVars, jobVars
  <1>2. ASSUME NEW t \in Threads, NEW h \in Hosts, Dispose(t, h)
        PROVE  HandleInv'
    BY <1>2 DEF Dispose, IsFree, Put, Call, Idle, hostVars, clientVars, jobVars
  <1>3. ASSUME NEW t \in Threads, NEW h \in Hosts, NEW j \in Jobs, AddRef(t, h, j)
        PROVE  HandleInv'
    BY <1>3 DEF AddRef, IsFree, Put, Call, Idle, hostVars, clientVars, jobVars
  <1>4. ASSUME NEW t \in Threads, CheckDisposed(t)
        PROVE  HandleInv'
    BY <1>4 DEF CheckDisposed, Is, Goto, Put, Call, hostVars, clientVars, jobVars
  <1>5. ASSUME NEW t \in Threads, StartJob(t)
        PROVE  HandleInv'
    BY <1>5 DEF StartJob, Is, Goto, Put, Call, Refuses, Work, hostVars, clientVars, jobVars
  <1>6. ASSUME NEW t \in Threads, DropRef(t)
        PROVE  HandleInv'
    <2> USE <1>6 DEF DropRef, Is, Put, Call, hostVars, clientVars, jobVars
    <2>1. CASE Client(t) \in closed /\ Last(Client(t), t)
      <3>1. doing' = [doing EXCEPT ![t] = Call("admission", Client(t), NoJob, {}, TRUE)]
        BY <2>1 DEF Release
      <3>2. \A u \in Threads : Refers(u, Client(t)) => u = t
        BY <2>1 DEF Last, Referring
      <3>3. Refers(t, Client(t)) /\ Client(t) \in Hosts
        BY DEF Types
      <3>4. \A u \in Threads : ~InShutdown(u, Client(t))
        BY <2>1, <3>3
      <3> QED
        BY <2>1, <3>1, <3>2, <3>3, <3>4 DEF Types
    <2>2. CASE ~(Client(t) \in closed /\ Last(Client(t), t))
      <3>1. doing' = [doing EXCEPT ![t] = Idle]
        BY <2>2 DEF Return
      <3> QED
        BY <3>1 DEF Types, Idle
    <2> QED
      BY <2>1, <2>2
  <1>7. ASSUME NEW t \in Threads, TakeAdmission(t)
        PROVE  HandleInv'
    BY <1>7 DEF TakeAdmission, Is, Put, Call, Flagged, JobsOf, hostVars, clientVars, jobVars
  <1>8. ASSUME NEW t \in Threads, JoinNext(t)
        PROVE  HandleInv'
    BY <1>8 DEF JoinNext, Is, Put, Call, Takes, hostVars, clientVars, jobVars
  <1>9. ASSUME NEW t \in Threads, Joined(t)
        PROVE  HandleInv'
    BY <1>9 DEF Joined, Is, Put, Call, hostVars, clientVars, jobVars
  <1>10. ASSUME NEW t \in Threads, CallHost(t)
        PROVE  HandleInv'
    BY <1>10 DEF CallHost, Is, Goto, Put, Call, hostVars, clientVars, jobVars
  <1>11. ASSUME NEW t \in Threads, HostReturned(t)
        PROVE  HandleInv'
    <2> USE <1>11 DEF HostReturned, Is, Put, Call, hostVars, clientVars, jobVars
    <2>1. Client(t) \in Hosts /\ InShutdown(t, Client(t))
      BY DEF Types
    <2>2. \A u \in Threads : InShutdown(u, Client(t)) => u = t
      BY <2>1
    <2>3. CASE doing[t].releasing
      <3>1. /\ released' = released \cup {Client(t)} /\ closed' = closed
            /\ doing' = [doing EXCEPT ![t] = Idle]
        BY <2>3 DEF Return
      <3>2. Client(t) \in closed /\ \A u \in Threads : ~Refers(u, Client(t))
        BY <2>1, <2>3
      <3> QED
        BY <2>1, <2>2, <3>1, <3>2 DEF Types, Idle
    <2>4. CASE ~doing[t].releasing /\ Last(Client(t), t)
      <3>1. /\ released' = released /\ closed' = closed \cup {Client(t)}
            /\ doing' = [doing EXCEPT ![t] = Call("admission", Client(t), NoJob, {}, TRUE)]
        BY <2>4 DEF Release
      <3>2. \A u \in Threads : ~Refers(u, Client(t))
        BY <2>4, <2>1 DEF Last, Referring
      <3> QED
        BY <2>1, <2>2, <3>1, <3>2 DEF Types
    <2>5. CASE ~doing[t].releasing /\ ~Last(Client(t), t)
      <3>1. /\ released' = released /\ closed' = closed \cup {Client(t)}
            /\ doing' = [doing EXCEPT ![t] = Idle]
        BY <2>5 DEF Return
      <3> QED
        BY <2>1, <2>2, <3>1 DEF Types, Idle
    <2> QED
      BY <2>3, <2>4, <2>5
  <1>12. ASSUME NEW j \in Jobs, Emit(j)
        PROVE  HandleInv'
    BY <1>12 DEF Emit, Work, hostVars, clientVars, jobVars
  <1>13. ASSUME NEW j \in Jobs, EnterFence(j)
        PROVE  HandleInv'
    BY <1>13 DEF EnterFence, Refused, Work, hostVars, clientVars, jobVars
  <1>14. ASSUME NEW j \in Jobs, Callback(j)
        PROVE  HandleInv'
    BY <1>14 DEF Callback, Work, hostVars, clientVars, jobVars
  <1>15. ASSUME NEW j \in Jobs, Leave(j)
        PROVE  HandleInv'
    BY <1>15 DEF Leave, Work, hostVars, clientVars, jobVars
  <1>16. ASSUME NEW j \in Jobs, Close(j)
        PROVE  HandleInv'
    BY <1>16 DEF Close, MustJoin, Takes, hostVars, clientVars, jobVars
  <1>17. ASSUME NEW j \in Jobs, CloserJoined(j)
        PROVE  HandleInv'
    BY <1>17 DEF CloserJoined, Ended, hostVars, clientVars, jobVars
  <1>18. ASSUME NEW j \in Jobs, FreeContext(j)
        PROVE  HandleInv'
    BY <1>18 DEF FreeContext, hostVars, clientVars, jobVars
  <1> QED
    BY <1>1, <1>2, <1>3, <1>4, <1>5, <1>6, <1>7, <1>8, <1>9, <1>10, <1>11, <1>12, <1>13, <1>14, <1>15, <1>16, <1>17, <1>18, Steps

LEMMA StepJob == IInv /\ [Next]_vars => JobInv'
  <1> SUFFICES ASSUME IInv, [Next]_vars PROVE JobInv'
    OBVIOUS
  <1> USE DEF IInv, JobInv, Types, Calls, Client, Starting
  <1>1. CASE UNCHANGED ownVars
    BY <1>1 DEF ownVars, clientVars, jobVars
  <1>2. ASSUME NEW t \in Threads, NEW h \in Hosts, Dispose(t, h)
        PROVE  JobInv'
    BY <1>2 DEF Dispose, IsFree, Put, Call, Idle, hostVars, clientVars, jobVars
  <1>3. ASSUME NEW t \in Threads, NEW h \in Hosts, NEW j \in Jobs, AddRef(t, h, j)
        PROVE  JobInv'
    BY <1>3 DEF AddRef, IsFree, Put, Call, Idle, hostVars, clientVars, jobVars
  <1>4. ASSUME NEW t \in Threads, CheckDisposed(t)
        PROVE  JobInv'
    BY <1>4 DEF CheckDisposed, Is, Goto, Put, Call, hostVars, clientVars, jobVars
  <1>5. ASSUME NEW t \in Threads, StartJob(t)
        PROVE  JobInv'
    <2> DEFINE k == doing[t].job
    <2> USE <1>5 DEF StartJob, Is, Goto, Put, Call, Refuses, Work, hostVars, clientVars, jobVars
    <2>1. /\ k \in Jobs /\ worker[k] = "none" /\ owner[k] = NoHost
          /\ closing[k] = "open" /\ k \notin taken
      BY DEF JobInv, Starting
    <2>2. doing' = [doing EXCEPT ![t] =
                      Call("leaving", Client(t), k, doing[t].todo, doing[t].releasing)]
      OBVIOUS
    <2>3. CASE Refuses(Client(t))
      BY <2>2, <2>3
    <2>4. CASE ~Refuses(Client(t))
      <3>1. /\ owner' = [owner EXCEPT ![k] = Client(t)]
            /\ worker' = [worker EXCEPT ![k] = "spawned"]
            /\ UNCHANGED <<taken, closing>> /\ Client(t) \in Hosts
        BY <2>4
      <3> HIDE DEF k
      <3> QED
        BY <2>1, <2>2, <2>4, <3>1, FfiClientAssumption
    <2> QED
      BY <2>3, <2>4
  <1>6. ASSUME NEW t \in Threads, DropRef(t)
        PROVE  JobInv'
    BY <1>6 DEF DropRef, Is, Last, Referring, Release, Return, Put, Call, Idle, hostVars, clientVars, jobVars
  <1>7. ASSUME NEW t \in Threads, TakeAdmission(t)
        PROVE  JobInv'
    BY <1>7 DEF TakeAdmission, Is, Put, Call, Flagged, JobsOf, hostVars, clientVars, jobVars
  <1>8. ASSUME NEW t \in Threads, JoinNext(t)
        PROVE  JobInv'
    <2> USE <1>8 DEF JoinNext, Is, Put, Call, hostVars, clientVars, jobVars
    <2>1. PICK k \in doing[t].todo :
            /\ taken' = taken \cup {k}
            /\ doing' = [doing EXCEPT ![t] =
                           Call(IF Takes(k) THEN "waiting" ELSE "joining", Client(t),
                                IF Takes(k) THEN k ELSE NoJob, doing[t].todo \ {k},
                                doing[t].releasing)]
      OBVIOUS
    <2>2. k \in Jobs /\ owner[k] # NoHost
      BY <2>1, FfiClientAssumption DEF TodoInv
    <2>3. \A u \in Threads : doing'[u].place \in Starting => u # t /\ doing'[u] = doing[u]
      BY <2>1
    <2>4. UNCHANGED <<owner, worker, closing>>
      OBVIOUS
    <2> HIDE <1>8
    <2> QED
      BY <2>1, <2>2, <2>3, <2>4
  <1>9. ASSUME NEW t \in Threads, Joined(t)
        PROVE  JobInv'
    BY <1>9 DEF Joined, Is, Put, Call, hostVars, clientVars, jobVars
  <1>10. ASSUME NEW t \in Threads, CallHost(t)
        PROVE  JobInv'
    BY <1>10 DEF CallHost, Is, Goto, Put, Call, hostVars, clientVars, jobVars
  <1>11. ASSUME NEW t \in Threads, HostReturned(t)
        PROVE  JobInv'
    BY <1>11 DEF HostReturned, Is, Last, Referring, Release, Return, Put, Call, Idle, hostVars, clientVars, jobVars
  <1>12. ASSUME NEW j \in Jobs, Emit(j)
        PROVE  JobInv'
    BY <1>12 DEF Emit, Work, hostVars, clientVars, jobVars
  <1>13. ASSUME NEW j \in Jobs, EnterFence(j)
        PROVE  JobInv'
    BY <1>13 DEF EnterFence, Refused, Work, hostVars, clientVars, jobVars
  <1>14. ASSUME NEW j \in Jobs, Callback(j)
        PROVE  JobInv'
    BY <1>14 DEF Callback, Work, hostVars, clientVars, jobVars
  <1>15. ASSUME NEW j \in Jobs, Leave(j)
        PROVE  JobInv'
    BY <1>15 DEF Leave, Work, hostVars, clientVars, jobVars
  <1>16. ASSUME NEW j \in Jobs, Close(j)
        PROVE  JobInv'
    BY <1>16 DEF Close, MustJoin, Takes, hostVars, clientVars, jobVars
  <1>17. ASSUME NEW j \in Jobs, CloserJoined(j)
        PROVE  JobInv'
    BY <1>17 DEF CloserJoined, Ended, hostVars, clientVars, jobVars
  <1>18. ASSUME NEW j \in Jobs, FreeContext(j)
        PROVE  JobInv'
    BY <1>18 DEF FreeContext, hostVars, clientVars, jobVars
  <1> QED
    BY <1>1, <1>2, <1>3, <1>4, <1>5, <1>6, <1>7, <1>8, <1>9, <1>10, <1>11, <1>12, <1>13, <1>14, <1>15, <1>16, <1>17, <1>18, Steps

LEMMA StepTodo == IInv /\ [Next]_vars => TodoInv'
  <1> SUFFICES ASSUME IInv, [Next]_vars PROVE TodoInv'
    OBVIOUS
  <1> USE DEF IInv, TodoInv, HandleInv, JobInv, Types, Client, Shutting, InShutdown
  <1>1. CASE UNCHANGED ownVars
    BY <1>1 DEF ownVars, clientVars, jobVars
  <1>2. ASSUME NEW t \in Threads, NEW h \in Hosts, Dispose(t, h)
        PROVE  TodoInv'
    BY <1>2 DEF Dispose, IsFree, Put, Call, Idle, hostVars, clientVars, jobVars
  <1>3. ASSUME NEW t \in Threads, NEW h \in Hosts, NEW j \in Jobs, AddRef(t, h, j)
        PROVE  TodoInv'
    BY <1>3 DEF AddRef, IsFree, Put, Call, Idle, hostVars, clientVars, jobVars
  <1>4. ASSUME NEW t \in Threads, CheckDisposed(t)
        PROVE  TodoInv'
    BY <1>4 DEF CheckDisposed, Is, Goto, Put, Call, hostVars, clientVars, jobVars
  <1>5. ASSUME NEW t \in Threads, StartJob(t)
        PROVE  TodoInv'
    <2> DEFINE k == doing[t].job
    <2> USE <1>5 DEF StartJob, Is, Goto, Put, Call, Refuses, Work, hostVars, clientVars, jobVars
    <2>1. /\ k \in Jobs /\ worker[k] = "none" /\ owner[k] = NoHost
          /\ closing[k] = "open" /\ k \notin taken
      BY DEF JobInv, Starting
    <2>2. doing' = [doing EXCEPT ![t] =
                      Call("leaving", Client(t), k, doing[t].todo, doing[t].releasing)]
      OBVIOUS
    <2>3. CASE Refuses(Client(t))
      BY <2>2, <2>3
    <2>4. CASE ~Refuses(Client(t))
      <3>1. /\ owner' = [owner EXCEPT ![k] = Client(t)]
            /\ worker' = [worker EXCEPT ![k] = "spawned"]
            /\ UNCHANGED <<taken, closing>> /\ Client(t) \in Hosts
        BY <2>4
      <3> HIDE DEF k
      <3> QED
        BY <2>1, <2>2, <2>4, <3>1, FfiClientAssumption
    <2> QED
      BY <2>3, <2>4
  <1>6. ASSUME NEW t \in Threads, DropRef(t)
        PROVE  TodoInv'
    BY <1>6 DEF DropRef, Is, Last, Referring, Release, Return, Put, Call, Idle, hostVars, clientVars, jobVars
  <1>7. ASSUME NEW t \in Threads, TakeAdmission(t)
        PROVE  TodoInv'
    <2> USE <1>7 DEF TakeAdmission, Is, Put, Call, Flagged, JobsOf, hostVars, clientVars, jobVars
    <2>1. PICK todo \in SUBSET Jobs :
            /\ todo = IF Client(t) \in shutdown THEN {} ELSE JobsOf(Client(t))
            /\ doing' = [doing EXCEPT ![t] =
                            Call("joining", Client(t), NoJob, todo, doing[t].releasing)]
      OBVIOUS
    <2>2. \A j \in todo : owner[j] = Client(t) /\ Client(t) \notin shutdown
      BY <2>1
    <2>3. \A j \in todo : closing[j] = "open" => j \notin taken
      BY <2>2 DEF JoinInv
    <2> HIDE DEF TakeAdmission
    <2>4. shutdown' = shutdown \cup {Client(t)}
          /\ UNCHANGED <<closed, owner, closing, taken>>
      BY DEF TakeAdmission
    <2> QED
      BY <2>1, <2>2, <2>3, <2>4
  <1>8. ASSUME NEW t \in Threads, JoinNext(t)
        PROVE  TodoInv'
    BY <1>8 DEF JoinNext, Is, Put, Call, Takes, hostVars, clientVars, jobVars
  <1>9. ASSUME NEW t \in Threads, Joined(t)
        PROVE  TodoInv'
    BY <1>9 DEF Joined, Is, Put, Call, hostVars, clientVars, jobVars
  <1>10. ASSUME NEW t \in Threads, CallHost(t)
        PROVE  TodoInv'
    BY <1>10 DEF CallHost, Is, Goto, Put, Call, hostVars, clientVars, jobVars
  <1>11. ASSUME NEW t \in Threads, HostReturned(t)
        PROVE  TodoInv'
    BY <1>11 DEF HostReturned, Is, Last, Referring, Release, Return, Put, Call, Idle, hostVars, clientVars, jobVars
  <1>12. ASSUME NEW j \in Jobs, Emit(j)
        PROVE  TodoInv'
    BY <1>12 DEF Emit, Work, hostVars, clientVars, jobVars
  <1>13. ASSUME NEW j \in Jobs, EnterFence(j)
        PROVE  TodoInv'
    BY <1>13 DEF EnterFence, Refused, Work, hostVars, clientVars, jobVars
  <1>14. ASSUME NEW j \in Jobs, Callback(j)
        PROVE  TodoInv'
    BY <1>14 DEF Callback, Work, hostVars, clientVars, jobVars
  <1>15. ASSUME NEW j \in Jobs, Leave(j)
        PROVE  TodoInv'
    BY <1>15 DEF Leave, Work, hostVars, clientVars, jobVars
  <1>16. ASSUME NEW j \in Jobs, Close(j)
        PROVE  TodoInv'
    BY <1>16 DEF Close, MustJoin, Takes, hostVars, clientVars, jobVars
  <1>17. ASSUME NEW j \in Jobs, CloserJoined(j)
        PROVE  TodoInv'
    BY <1>17 DEF CloserJoined, Ended, hostVars, clientVars, jobVars
  <1>18. ASSUME NEW j \in Jobs, FreeContext(j)
        PROVE  TodoInv'
    BY <1>18 DEF FreeContext, hostVars, clientVars, jobVars
  <1> QED
    BY <1>1, <1>2, <1>3, <1>4, <1>5, <1>6, <1>7, <1>8, <1>9, <1>10, <1>11, <1>12, <1>13, <1>14, <1>15, <1>16, <1>17, <1>18, Steps

LEMMA StepJoin == IInv /\ [Next]_vars => JoinInv'
  <1> SUFFICES ASSUME IInv, [Next]_vars PROVE JoinInv'
    OBVIOUS
  <1> USE DEF IInv, JoinInv, TodoInv, HandleInv, JobInv, Types, Client, Shutting, InShutdown
  <1>1. CASE UNCHANGED ownVars
    BY <1>1 DEF ownVars, clientVars, jobVars
  <1>2. ASSUME NEW t \in Threads, NEW h \in Hosts, Dispose(t, h)
        PROVE  JoinInv'
    BY <1>2 DEF Dispose, IsFree, Put, Call, Idle, hostVars, clientVars, jobVars
  <1>3. ASSUME NEW t \in Threads, NEW h \in Hosts, NEW j \in Jobs, AddRef(t, h, j)
        PROVE  JoinInv'
    BY <1>3 DEF AddRef, IsFree, Put, Call, Idle, hostVars, clientVars, jobVars
  <1>4. ASSUME NEW t \in Threads, CheckDisposed(t)
        PROVE  JoinInv'
    BY <1>4 DEF CheckDisposed, Is, Goto, Put, Call, hostVars, clientVars, jobVars
  <1>5. ASSUME NEW t \in Threads, StartJob(t)
        PROVE  JoinInv'
    <2> DEFINE k == doing[t].job
    <2> USE <1>5 DEF StartJob, Is, Goto, Put, Call, Refuses, Work, hostVars, clientVars, jobVars
    <2>1. /\ k \in Jobs /\ worker[k] = "none" /\ owner[k] = NoHost
          /\ closing[k] = "open" /\ k \notin taken
      BY DEF JobInv, Starting
    <2>2. doing' = [doing EXCEPT ![t] =
                      Call("leaving", Client(t), k, doing[t].todo, doing[t].releasing)]
      OBVIOUS
    <2>3. CASE Refuses(Client(t))
      BY <2>2, <2>3
    <2>4. CASE ~Refuses(Client(t))
      <3>1. /\ owner' = [owner EXCEPT ![k] = Client(t)]
            /\ worker' = [worker EXCEPT ![k] = "spawned"]
            /\ UNCHANGED <<taken, closing>> /\ Client(t) \in Hosts
        BY <2>4
      <3> HIDE DEF k
      <3> QED
        BY <2>1, <2>2, <2>4, <3>1, FfiClientAssumption
    <2> QED
      BY <2>3, <2>4
  <1>6. ASSUME NEW t \in Threads, DropRef(t)
        PROVE  JoinInv'
    BY <1>6 DEF DropRef, Is, Last, Referring, Release, Return, Put, Call, Idle, hostVars, clientVars, jobVars
  <1>7. ASSUME NEW t \in Threads, TakeAdmission(t)
        PROVE  JoinInv'
    BY <1>7 DEF TakeAdmission, Is, Put, Call, Flagged, JobsOf, hostVars, clientVars, jobVars
  <1>8. ASSUME NEW t \in Threads, JoinNext(t)
        PROVE  JoinInv'
    BY <1>8 DEF JoinNext, Is, Put, Call, Takes, hostVars, clientVars, jobVars
  <1>9. ASSUME NEW t \in Threads, Joined(t)
        PROVE  JoinInv'
    BY <1>9 DEF Joined, Is, Put, Call, hostVars, clientVars, jobVars
  <1>10. ASSUME NEW t \in Threads, CallHost(t)
        PROVE  JoinInv'
    BY <1>10 DEF CallHost, Is, Goto, Put, Call, hostVars, clientVars, jobVars
  <1>11. ASSUME NEW t \in Threads, HostReturned(t)
        PROVE  JoinInv'
    BY <1>11 DEF HostReturned, Is, Last, Referring, Release, Return, Put, Call, Idle, hostVars, clientVars, jobVars
  <1>12. ASSUME NEW j \in Jobs, Emit(j)
        PROVE  JoinInv'
    BY <1>12 DEF Emit, Work, hostVars, clientVars, jobVars
  <1>13. ASSUME NEW j \in Jobs, EnterFence(j)
        PROVE  JoinInv'
    BY <1>13 DEF EnterFence, Refused, Work, hostVars, clientVars, jobVars
  <1>14. ASSUME NEW j \in Jobs, Callback(j)
        PROVE  JoinInv'
    BY <1>14 DEF Callback, Work, hostVars, clientVars, jobVars
  <1>15. ASSUME NEW j \in Jobs, Leave(j)
        PROVE  JoinInv'
    BY <1>15 DEF Leave, Work, hostVars, clientVars, jobVars
  <1>16. ASSUME NEW j \in Jobs, Close(j)
        PROVE  JoinInv'
    BY <1>16 DEF Close, MustJoin, Takes, hostVars, clientVars, jobVars
  <1>17. ASSUME NEW j \in Jobs, CloserJoined(j)
        PROVE  JoinInv'
    BY <1>17 DEF CloserJoined, Ended, hostVars, clientVars, jobVars
  <1>18. ASSUME NEW j \in Jobs, FreeContext(j)
        PROVE  JoinInv'
    BY <1>18 DEF FreeContext, hostVars, clientVars, jobVars
  <1> QED
    BY <1>1, <1>2, <1>3, <1>4, <1>5, <1>6, <1>7, <1>8, <1>9, <1>10, <1>11, <1>12, <1>13, <1>14, <1>15, <1>16, <1>17, <1>18, Steps
-----------------------------------------------------------------------------
LEMMA Invariant == Spec => []IInv
  <1>1. IInv /\ [Next]_vars => IInv'
    <2> SUFFICES ASSUME IInv, [Next]_vars PROVE IInv'
      OBVIOUS
    <2>1. Types' /\ HandleInv' /\ JobInv' /\ TodoInv' /\ JoinInv'
      BY StepTypes, StepHandle, StepJob, StepTodo, StepJoin
    <2> QED
      BY <2>1 DEF IInv
  <1> QED
    BY InitIInv, <1>1, PTL DEF Spec

LEMMA AliveFromIInv == IInv => ClientHandleIsAlive
  <1> SUFFICES ASSUME IInv, NEW t \in Threads, NEW h \in Hosts, InNativeCall(t, h)
               PROVE  /\ h \notin released
                      /\ \A u \in Threads \ {t} : ~(InNativeCall(u, h) /\ doing[u].releasing)
    BY DEF ClientHandleIsAlive
  <1>1. Refers(t, h) \/ InShutdown(t, h)
    BY DEF InNativeCall, Refers, InShutdown, Shutting
  <1>2. h \notin released
    BY <1>1 DEF IInv, HandleInv
  <1>3. ASSUME NEW u \in Threads \ {t}, InNativeCall(u, h), doing[u].releasing
        PROVE  FALSE
    <2>1. InShutdown(u, h)
      BY <1>3 DEF IInv, HandleInv, InNativeCall, InShutdown
    <2> QED
      BY <1>1, <1>3, <2>1 DEF IInv, HandleInv
  <1> QED
    BY <1>2, <1>3

\* While a native call uses a client, its handle is neither released nor being
\* released by somebody else, however many threads call, dispose and drop the
\* last reference (AurorixClient.cs WithClientHandle, Dispose).
THEOREM HandleIsAlive == Spec => []ClientHandleIsAlive
  BY Invariant, AliveFromIInv, PTL

LEMMA FenceFromIInv == IInv => JoinIsAFence
  <1> SUFFICES ASSUME IInv, NEW j \in Jobs, closing[j] = "open", owner[j] \in closed,
                      worker[j] # "exited"
               PROVE  FALSE
    BY DEF JoinIsAFence, IInv, JoinInv
  <1>1. owner[j] \in Hosts /\ owner[j] \in shutdown
    BY DEF IInv, Types, TodoInv
  <1>2. PICK t \in Threads : InShutdown(t, owner[j]) /\ ~doing[t].releasing
    BY <1>1 DEF IInv, JoinInv
  <1> QED
    BY <1>1, <1>2 DEF IInv, HandleInv

\* Whoever alone joins a worker, the release of the job's handle or the disposal
\* of its client, finds it ended when the join is past (lib.rs join_worker,
\* ClientInner::shutdown).
THEOREM JoinFences == Spec => []JoinIsAFence
  BY Invariant, FenceFromIInv, PTL
=============================================================================
