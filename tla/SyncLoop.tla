------------------------------ MODULE SyncLoop ------------------------------
(* Devices that synchronize: the store of each of them (SyncStore), the     *)
(* reducer that orders their operations (SyncReducer), and a network that   *)
(* loses, repeats, delays and reorders what they send. The transport is not *)
(* written yet; what is modelled of it is what the two ends are documented  *)
(* to stand: retries of pending operations, and results that come late,     *)
(* twice or never. A server that loses its history starts another epoch.    *)
EXTENDS Naturals, Sequences, FiniteSets, Functions

CONSTANTS
  Devices,         \* the devices of one account
  Operations,      \* operation ids, the idempotency keys
  Ids,             \* the ids each device draws for its operations
  Entities,        \* playlists and other replicated entities
  Items,           \* playlist items
  NoItem,          \* no item
  NoList,          \* no playlist under this id
  NoResult,        \* no result retained under this id
  Unset,           \* no value written under this id
  NoRow,           \* the operation is not in the outbox
  NoEntry,         \* the operation is not in the archive
  NoCursor,        \* no result was applied yet
  Issued,          \* the bodies the commands of this model may have
  MaxEpoch,        \* bound on the histories a server may have
  MaxRevision      \* bound on the revisions of all histories together

Reducer == INSTANCE SyncReducer

ASSUME SyncAssumption ==
  /\ MaxEpoch \in Nat \ {0}
  /\ MaxRevision \in Nat
  /\ Ids \in [Devices -> SUBSET Operations]
  /\ Issued \subseteq Reducer!Bodies
  /\ NoRow \notin [body : Issued, state : {"Pending", "Acknowledged", "Archived"},
                   revision : Nat]
  /\ NoRow \notin [body : Issued, state : {"Pending", "Acknowledged", "Archived"}]
  /\ NoEntry \notin [body : Issued, outcome : {"Accepted", "Duplicate", "Rejected"},
                     revision : Nat]
  /\ NoCursor \notin [epoch : 1 .. MaxEpoch, revision : Nat]
  /\ NoResult \notin Reducer!Results

Epochs == 1 .. MaxEpoch

Store == INSTANCE SyncStore WITH Bodies <- Issued

VARIABLES
  epoch,           \* the history the server is in
  histories,       \* the reducer of each epoch, kept when the epoch is over
  stores,          \* the durable state of each device
  sent,            \* the operations a device has sent, ever
  replies          \* the results the server has sent, ever

vars == <<epoch, histories, stores, sent, replies>>

Statuses == {"Accepted", "Duplicate", "Rejected"}

Requests == [from : Devices, op : Operations, body : Issued]

Replies ==
  [to : Devices, op : Operations, epoch : Epochs, status : Statuses, revision : Nat]

Init ==
  /\ epoch = 1
  /\ histories = [e \in Epochs |-> Reducer!NewReducer]
  /\ stores = [d \in Devices |-> Store!NewStore]
  /\ sent = {}
  /\ replies = {}

Revisions == SumFunction([e \in Epochs |-> histories[e].revision])

-----------------------------------------------------------------------------
\* A command queues its operation, once more perhaps, or with other bytes.
Enqueue(d, op, body) ==
  /\ op \in Ids[d]
  /\ stores' = [stores EXCEPT ![d] = Store!EnqueueOutbox(@, op, body)]
  /\ UNCHANGED <<epoch, histories, sent, replies>>

\* The device sends what is pending, the same operation as often as it likes.
Send(d, op) ==
  /\ stores[d].rows[op] # NoRow
  /\ stores[d].rows[op].state = "Pending"
  /\ sent' = sent \cup {[from |-> d, op |-> op, body |-> stores[d].rows[op].body]}
  /\ UNCHANGED <<epoch, histories, stores, replies>>

\* A copy of a request arrives: the first, or any later one.
Reduce(request) ==
  LET r      == histories[epoch]
      answer == Reducer!Answered(r, request.op, request.body)
  IN /\ request \in sent
     /\ histories' = [histories EXCEPT ![epoch] =
                        Reducer!Applied(r, request.op, request.body)]
     /\ Revisions' <= MaxRevision
     /\ replies' = replies \cup
          {[to |-> request.from, op |-> request.op, epoch |-> epoch,
            status |-> answer.status, revision |-> answer.revision]}
     /\ UNCHANGED <<epoch, stores, sent>>

\* A copy of a result arrives, from whatever history, and is applied or not.
Deliver(reply) ==
  /\ reply \in replies
  /\ stores' = [stores EXCEPT ![reply.to] =
                  Store!ApplyCanonicalResult(@, reply.op, reply.epoch,
                    [status |-> reply.status, revision |-> reply.revision])]
  /\ UNCHANGED <<epoch, histories, sent, replies>>

\* The server loses its history and announces another one.
NewHistory ==
  /\ epoch < MaxEpoch
  /\ epoch' = epoch + 1
  /\ UNCHANGED <<histories, stores, sent, replies>>

Next ==
  \/ \E d \in Devices, op \in Operations, body \in Issued : Enqueue(d, op, body)
  \/ \E d \in Devices, op \in Operations : Send(d, op)
  \/ \E request \in sent : Reduce(request)
  \/ \E reply \in replies : Deliver(reply)
  \/ NewHistory

Spec == Init /\ [][Next]_vars

-----------------------------------------------------------------------------
Acknowledged(d, op) ==
  stores[d].rows[op] # NoRow /\ stores[d].rows[op].state = "Acknowledged"

Committed(e, op, body) ==
  histories[e].kept[op] # NoResult /\ histories[e].kept[op].body = body

(* Every variable keeps its type.                                           *)
TypeOK ==
  /\ epoch \in Epochs
  /\ histories \in [Epochs -> Reducer!Reducers]
  /\ stores \in [Devices -> Store!Stores]
  /\ sent \subseteq Requests
  /\ replies \subseteq Replies
  /\ Revisions <= MaxRevision

(* What a device holds as acknowledged was accepted, with these very bytes  *)
(* and under this revision, in the history its cursor belongs to, and not   *)
(* after its cursor: whatever apply_canonical_result is given, it takes no  *)
(* result of another history and none that is out of order.                 *)
AcknowledgedIsCommitted ==
  \A d \in Devices, op \in Operations :
    Acknowledged(d, op) =>
      LET row == stores[d].rows[op]
      IN /\ stores[d].cursor # NoCursor
         /\ Committed(stores[d].cursor.epoch, op, row.body)
         /\ histories[stores[d].cursor.epoch].kept[op].revision = row.revision
         /\ row.revision <= stores[d].cursor.revision

NewState == [lists |-> Reducer!NewReducer.lists, values |-> Reducer!NewReducer.values]

Mutated(state, body) ==
  [lists  |-> Reducer!MutatedLists(state.lists, body),
   values |-> Reducer!MutatedValues(state.values, body)]

\* The operations accepted under a revision: at most one.
AcceptedAs(r, n) == {o \in Operations : r.kept[o] # NoResult /\ r.kept[o].revision = n}

\* The accepted operations, replayed up to the last revision.
Replayed(r) ==
  LET state[n \in 0 .. r.revision] ==
        IF n = 0 THEN NewState
        ELSE IF AcceptedAs(r, n) = {} THEN state[n - 1]
        ELSE Mutated(state[n - 1], r.kept[CHOOSE o \in AcceptedAs(r, n) : TRUE].body)
  IN  state[r.revision]

(* The materialized state is what the accepted operations give when they    *)
(* are replayed in the order of their revisions, each of which is one       *)
(* operation's: rejected ones, repeated ones and ones whose mutation failed *)
(* half-way have left no trace in it.                                       *)
StateIsReplay ==
  \A e \in Epochs :
    LET r == histories[e]
    IN /\ [lists |-> r.lists, values |-> r.values] = Replayed(r)
       /\ \A o, p \in Operations :
            (r.kept[o] # NoResult /\ r.kept[p] # NoResult /\ o # p) =>
              r.kept[o].revision # r.kept[p].revision

(* What was archived about an operation is final, and an operation that was *)
(* settled is never sent work again.                                        *)
OutcomeIsFinal ==
  [][\A d \in Devices, op \in Operations :
       /\ stores[d].archive[op] # NoEntry =>
            stores'[d].archive[op] = stores[d].archive[op]
       /\ (stores[d].rows[op] # NoRow /\ stores[d].rows[op].state # "Pending") =>
            stores'[d].rows[op] = stores[d].rows[op]]_vars

(* The outbox says of a settled operation what the archive says of it.      *)
OutboxAgreesWithArchive ==
  \A d \in Devices, op \in Operations :
    LET entry == stores[d].archive[op]
        row   == stores[d].rows[op]
    IN /\ entry = NoEntry <=> (row = NoRow \/ row.state = "Pending")
       /\ entry # NoEntry =>
            /\ entry.body = row.body
            /\ entry.revision = row.revision
            /\ entry.outcome = "Rejected" <=> row.state = "Archived"

(* The stores of all devices together are one Outbox, whose keys are the    *)
(* device and the operation: whatever results come, and however often a     *)
(* command is repeated, a key keeps the bytes it was first used for and its  *)
(* lifecycle never goes back.                                               *)
Box == INSTANCE Outbox
         WITH Keys <- Devices \X Operations, Bodies <- Issued,
              entries <- [k \in Devices \X Operations |->
                            IF stores[k[1]].rows[k[2]] = NoRow THEN NoRow
                            ELSE [body  |-> stores[k[1]].rows[k[2]].body,
                                  state |-> stores[k[1]].rows[k[2]].state]]

StoresAreOutboxes == Box!Spec
=============================================================================
