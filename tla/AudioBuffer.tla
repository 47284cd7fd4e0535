------------------------------ MODULE AudioBuffer ------------------------------
(***************************************************************************)
(* The lock-free hand-off of prepared PCM from a decoder worker to the     *)
(* output callback: a ring of slots (buffer.rs), the callback's consumer   *)
(* (realtime.rs) and the coordinators that retire the blocks of an old     *)
(* generation.  Each atomic load, store or read-modify-write that another  *)
(* thread can tell apart is a step of its own.  The build is for x64 only, *)
(* where the acquire, release and read-modify-write accesses used here     *)
(* leave no weaker order between them than that of the steps.              *)
(*                                                                         *)
(* A block's samples are abstracted to its serial number, the order in     *)
(* which the worker published it; a frame is a serial and an offset.       *)
(***************************************************************************)
EXTENDS Integers, FiniteSets

CONSTANTS
  SlotCount,      \* slots of the ring
  BlockFrames,    \* frames a block can hold
  MaxRequest,     \* most frames one callback asks for
  Coordinators,   \* control threads that may retire a generation
  NoBlock,        \* the consumer holds no block
  MaxBlocks,      \* bound: blocks the worker publishes
  MaxGeneration,  \* bound: generations
  MaxAttempts     \* bound: calls of try_advance_generation

Slots == 0 .. SlotCount - 1
Generations == 0 .. MaxGeneration
ActiveBlock == [slot: Slots, valid: 0 .. BlockFrames, generation: Generations,
                consumed: 0 .. BlockFrames]

ASSUME RingAssumption ==
  /\ SlotCount \in Nat /\ SlotCount >= 2          \* MIN_BUFFER_SLOTS
  /\ BlockFrames \in Nat /\ BlockFrames > 0       \* PcmError::ZeroCapacity
  /\ MaxRequest \in Nat /\ MaxBlocks \in Nat
  /\ MaxGeneration \in Nat /\ MaxAttempts \in Nat
  /\ NoBlock \notin ActiveBlock

VARIABLES
  state,        \* BufferSlot.state of each slot
  block,        \* BufferSlot.block: its generation, length and serial
  generation,   \* AudioBuffer.generation
  resetting,    \* AudioBuffer.resetting
  entries,      \* AudioBuffer.endpoint_entries
  at,           \* where each endpoint is in its call
  next,         \* next_slot of the producer and of the consumer
  tag,          \* the generation an endpoint last read
  aborts,       \* abort_write calls the producer has still to make
  active,       \* RealtimeConsumer.active
  wanted,       \* frames the callback has still to fill
  control,      \* where each coordinator is in try_advance_generation
  requested,    \* the generation it asks for
  index,        \* the slot it looks at
  attempts,     \* calls of try_advance_generation so far
  published,    \* history: blocks published
  heard,        \* history: the last frames copied to the output
  retired,      \* history: blocks published when the last advance ended
  discarded     \* history: an advance has thrown ready blocks away

ring == <<state, block, generation, resetting, entries>>
slots == <<state, block>>
endpoints == <<at, next, tag, aborts, active, wanted>>
history == <<published, heard, retired, discarded>>
coordinators == <<control, requested, index, attempts>>
vars == <<ring, endpoints, coordinators, history>>

Endpoints == {"producer", "consumer"}
After(s) == (s + 1) % SlotCount

\* The transition each endpoint makes at the head of its work.
Before == [producer |-> "Vacant", consumer |-> "Ready"]
Owned == [producer |-> "Writing", consumer |-> "Reading"]

FencePlaces == {"Seen", "Announced", "Withdrawing", "Admitted", "Claimed", "Missed"}
RecyclePlaces == {"Recycling", "Resetting", "Vacating"}
Places == {"Idle", "Owner", "Tagged", "Holding", "Filled", "Publishable",
           "Render", "Checking", "Copying"} \cup FencePlaces \cup RecyclePlaces

ControlPlaces == {"Idle", "Locking", "Counting", "Scanning", "Clearing",
                  "Storing", "Unlocking"}

TypeOK ==
  /\ state \in [Slots -> {"Vacant", "Writing", "Ready", "Reading"}]
  /\ block \in [Slots -> [generation: Generations, valid: 0 .. BlockFrames,
                          serial: 0 .. MaxBlocks]]
  /\ generation \in Generations
  /\ resetting \in BOOLEAN
  /\ entries \in 0 .. 2
  /\ at \in [Endpoints -> Places]
  /\ next \in [Endpoints -> Slots]
  /\ tag \in [Endpoints -> Generations]
  /\ aborts \in 0 .. 2
  /\ active \in ActiveBlock \cup {NoBlock}
  /\ wanted \in 0 .. MaxRequest
  /\ control \in [Coordinators -> ControlPlaces]
  /\ requested \in [Coordinators -> Generations]
  /\ index \in [Coordinators -> Slots]
  /\ attempts \in 0 .. MaxAttempts
  /\ published \in 0 .. MaxBlocks
  /\ heard \in [serial: 0 .. MaxBlocks, upto: 0 .. BlockFrames, ended: BOOLEAN]
  /\ retired \in 0 .. MaxBlocks
  /\ discarded \in BOOLEAN

\* AudioBuffer::new, producer and RealtimeConsumer::new.
Init ==
  /\ state = [s \in Slots |-> "Vacant"]
  /\ block = [s \in Slots |-> [generation |-> 0, valid |-> 0, serial |-> 0]]
  /\ generation = 0
  /\ resetting = FALSE
  /\ entries = 0
  /\ at = [e \in Endpoints |-> "Idle"]
  /\ next = [e \in Endpoints |-> 0]
  /\ tag = [e \in Endpoints |-> 0]
  /\ aborts = 0
  /\ active = NoBlock
  /\ wanted = 0
  /\ control = [c \in Coordinators |-> "Idle"]
  /\ requested = [c \in Coordinators |-> 0]
  /\ index = [c \in Coordinators |-> 0]
  /\ attempts = 0
  /\ published = 0
  /\ heard = [serial |-> 0, upto |-> 0, ended |-> TRUE]
  /\ retired = 0
  /\ discarded = FALSE

\* AudioBlock::reset: no valid frames, a new generation; the samples stay.
Emptied(s, g) == [generation |-> g, valid |-> 0, serial |-> block[s].serial]

Go(e, place) == at' = [at EXCEPT ![e] = place]

(***************************************************************************)
(* try_enter_endpoint_transition, the claim and                            *)
(* leave_endpoint_transition, for both endpoints.                          *)
(***************************************************************************)

\* The first look at resetting, made by try_acquire or by render.
LooksOpen(e) == ~resetting /\ Go(e, "Seen")

Announce(e) ==
  /\ at[e] = "Seen"
  /\ entries' = entries + 1
  /\ Go(e, "Announced")
  /\ UNCHANGED <<slots, generation, resetting, next, tag, aborts, active, wanted,
                 coordinators, history>>

\* The second look, after the entry was announced.
Recheck(e) ==
  /\ at[e] = "Announced"
  /\ Go(e, IF resetting THEN "Withdrawing" ELSE "Admitted")
  /\ UNCHANGED <<ring, next, tag, aborts, active, wanted, coordinators, history>>

Claim(e) ==
  LET s == next[e] IN
  /\ at[e] = "Admitted"
  /\ \/ /\ state[s] = Before[e]
        /\ state' = [state EXCEPT ![s] = Owned[e]]
        /\ Go(e, "Claimed")
     \/ /\ state[s] # Before[e]
        /\ Go(e, "Missed")
        /\ UNCHANGED state
  /\ UNCHANGED <<block, generation, resetting, entries, next, tag, aborts, active, wanted,
                 coordinators, history>>

\* Without a slot the producer's call and the callback both end: the worker
\* waits, the callback plays silence.
LeaveFence(e) ==
  /\ at[e] \in {"Withdrawing", "Claimed", "Missed"}
  /\ entries' = entries - 1
  /\ Go(e, IF at[e] = "Claimed" THEN "Owner" ELSE "Idle")
  /\ wanted' = IF e = "consumer" /\ at[e] # "Claimed" THEN 0 ELSE wanted
  /\ UNCHANGED <<slots, generation, resetting, next, tag, aborts, active,
                 coordinators, history>>

(***************************************************************************)
(* abort_write and finish_render: read the generation, reset the block,    *)
(* make the slot vacant.                                                   *)
(***************************************************************************)

\* The slot an endpoint recycles; the consumer's next has moved past it.
Recycled(e) == IF e = "consumer" /\ active # NoBlock THEN active.slot ELSE next[e]

ReadGeneration(e) ==
  /\ at[e] = "Recycling"
  /\ tag' = [tag EXCEPT ![e] = generation]
  /\ Go(e, "Resetting")
  /\ UNCHANGED <<ring, next, aborts, active, wanted, coordinators, history>>

ResetBlock(e) ==
  LET s == Recycled(e) IN
  /\ at[e] = "Resetting"
  /\ block' = [block EXCEPT ![s] = Emptied(s, tag[e])]
  /\ Go(e, "Vacating")
  /\ UNCHANGED <<state, generation, resetting, entries, next, tag, aborts, active, wanted,
                 coordinators, history>>

\* A failed publish has aborted the write, and the dropped lease aborts it again.
\* The callback goes on with its loop; reset_timeline has no frames to fill.
Vacate(e) ==
  /\ at[e] = "Vacating"
  /\ state' = [state EXCEPT ![Recycled(e)] = "Vacant"]
  /\ IF e = "producer"
       THEN /\ aborts' = aborts - 1
            /\ Go(e, IF aborts > 1 THEN "Recycling" ELSE "Idle")
            /\ UNCHANGED active
       ELSE /\ active' = NoBlock
            /\ Go(e, IF wanted > 0 THEN "Render" ELSE "Idle")
            /\ UNCHANGED aborts
  /\ UNCHANGED <<block, generation, resetting, entries, next, tag, wanted,
                 coordinators, history>>

EndpointSteps(e) ==
  \/ Announce(e) \/ Recheck(e) \/ Claim(e) \/ LeaveFence(e)
  \/ ReadGeneration(e) \/ ResetBlock(e) \/ Vacate(e)

(***************************************************************************)
(* The worker: try_acquire, fill, publish or drop.                         *)
(***************************************************************************)

\* Otherwise the call returns None and changes nothing.
TryAcquire ==
  /\ at["producer"] = "Idle"
  /\ published < MaxBlocks
  /\ LooksOpen("producer")
  /\ UNCHANGED <<ring, next, tag, aborts, active, wanted, coordinators, history>>

LeaseGeneration ==
  /\ at["producer"] = "Owner"
  /\ tag' = [tag EXCEPT !["producer"] = generation]
  /\ Go("producer", "Tagged")
  /\ UNCHANGED <<ring, next, aborts, active, wanted, coordinators, history>>

TagBlock ==
  LET s == next["producer"] IN
  /\ at["producer"] = "Tagged"
  /\ block' = [block EXCEPT ![s] = Emptied(s, tag["producer"])]
  /\ Go("producer", "Holding")
  /\ UNCHANGED <<state, generation, resetting, entries, next, tag, aborts, active, wanted,
                 coordinators, history>>

\* write_interleaved or set_valid_frames; no frames at all is allowed.
Fill(n) ==
  LET s == next["producer"] IN
  /\ at["producer"] = "Holding"
  /\ block' = [block EXCEPT ![s] = [generation |-> @.generation, valid |-> n,
                                     serial |-> published + 1]]
  /\ Go("producer", "Filled")
  /\ UNCHANGED <<state, generation, resetting, entries, next, tag, aborts, active, wanted,
                 coordinators, history>>

\* publish looks at the generations and the length first.
CheckPublish ==
  LET b == block[next["producer"]] IN
  /\ at["producer"] = "Filled"
  /\ \/ /\ generation = tag["producer"]
        /\ b.generation = tag["producer"]
        /\ b.valid > 0
        /\ Go("producer", "Publishable")
        /\ UNCHANGED aborts
     \/ /\ \/ generation # tag["producer"]
           \/ b.generation # tag["producer"]
           \/ b.valid = 0
        /\ Go("producer", "Recycling")
        /\ aborts' = 2
  /\ UNCHANGED <<ring, next, tag, active, wanted, coordinators, history>>

\* Bug for the mutants: the next slot is left where it is.
StoreReadyInPlace ==
  LET s == next["producer"] IN
  /\ at["producer"] = "Publishable"
  /\ state' = [state EXCEPT ![s] = "Ready"]
  /\ published' = published + 1
  /\ Go("producer", "Idle")
  /\ UNCHANGED <<block, generation, resetting, entries, next, tag, aborts, active, wanted,
                 coordinators, heard, retired, discarded>>

StoreReady ==
  LET s == next["producer"] IN
  /\ at["producer"] = "Publishable"
  /\ state' = [state EXCEPT ![s] = "Ready"]
  /\ next' = [next EXCEPT !["producer"] = After(s)]
  /\ published' = published + 1
  /\ Go("producer", "Idle")
  /\ UNCHANGED <<block, generation, resetting, entries, tag, aborts, active, wanted,
                 coordinators, heard, retired, discarded>>

\* The lease goes out of scope without publish.
DropLease ==
  /\ at["producer"] \in {"Holding", "Filled"}
  /\ Go("producer", "Recycling")
  /\ aborts' = 1
  /\ UNCHANGED <<ring, next, tag, active, wanted, coordinators, history>>

Producer ==
  \/ EndpointSteps("producer")
  \/ TryAcquire \/ LeaseGeneration \/ TagBlock \/ CheckPublish \/ StoreReady
  \/ DropLease \/ \E n \in 0 .. BlockFrames : Fill(n)

(***************************************************************************)
(* The callback: render, and reset_timeline between two renders.           *)
(***************************************************************************)

StartRender(n) ==
  /\ at["consumer"] = "Idle"
  /\ wanted' = n
  /\ Go("consumer", "Render")
  /\ UNCHANGED <<ring, next, tag, aborts, active, coordinators, history>>

\* try_acquire_active_block: silence for the rest when a reset is under way.
SeekBlock ==
  /\ at["consumer"] = "Render"
  /\ active = NoBlock
  /\ \/ LooksOpen("consumer") /\ UNCHANGED wanted
     \/ resetting /\ Go("consumer", "Idle") /\ wanted' = 0
  /\ UNCHANGED <<ring, next, tag, aborts, active, coordinators, history>>

\* Bug for the mutants: the consumer stays at the slot it takes.
TakeBlockInPlace ==
  LET s == next["consumer"] IN
  /\ at["consumer"] = "Owner"
  /\ active' = [slot |-> s, valid |-> block[s].valid,
                generation |-> block[s].generation, consumed |-> 0]
  /\ Go("consumer", "Checking")
  /\ UNCHANGED <<ring, next, tag, aborts, wanted, coordinators, history>>

\* try_begin_render notes the block's length and generation, and the consumer
\* moves past the slot before it looks whether the block is current.
TakeBlock ==
  LET s == next["consumer"] IN
  /\ at["consumer"] = "Owner"
  /\ active' = [slot |-> s, valid |-> block[s].valid,
                generation |-> block[s].generation, consumed |-> 0]
  /\ next' = [next EXCEPT !["consumer"] = After(s)]
  /\ Go("consumer", "Checking")
  /\ UNCHANGED <<ring, tag, aborts, wanted, coordinators, history>>

\* A block of an old generation is given back unheard, when it is taken and each
\* time the loop comes to it.
CheckBlock ==
  /\ \/ at["consumer"] = "Checking"
     \/ at["consumer"] = "Render" /\ active # NoBlock
  /\ Go("consumer", IF active.generation # generation THEN "Recycling"
                    ELSE IF at["consumer"] = "Checking" THEN "Render" ELSE "Copying")
  /\ UNCHANGED <<ring, next, tag, aborts, active, wanted, coordinators, history>>

\* copy_frames_to, and what render makes of the number it returns.
CopyFrames ==
  LET b == block[active.slot]
      left == IF b.valid > active.consumed THEN b.valid - active.consumed ELSE 0
      copied == IF left < wanted THEN left ELSE wanted
      consumed == active.consumed + copied IN
  /\ at["consumer"] = "Copying"
  /\ wanted' = wanted - copied
  /\ IF copied = 0 \/ consumed >= active.valid
       THEN Go("consumer", "Recycling")
       ELSE Go("consumer", IF copied = wanted THEN "Idle" ELSE "Render")
  /\ active' = [slot |-> active.slot, valid |-> active.valid,
                generation |-> active.generation, consumed |-> consumed]
  /\ heard' = IF copied = 0 THEN heard
              ELSE [serial |-> b.serial, upto |-> consumed,
                    ended |-> consumed >= active.valid]
  /\ UNCHANGED <<ring, next, tag, aborts, coordinators, published, retired, discarded>>

\* The caller has fenced the callback; a block held is given back.
ResetTimeline ==
  /\ at["consumer"] = "Idle"
  /\ active # NoBlock
  /\ Go("consumer", "Recycling")
  /\ heard' = [serial |-> heard.serial, upto |-> heard.upto, ended |-> TRUE]
  /\ UNCHANGED <<ring, next, tag, aborts, active, wanted, coordinators,
                 published, retired, discarded>>

Render ==
  \/ EndpointSteps("consumer")
  \/ SeekBlock \/ TakeBlock \/ CheckBlock \/ CopyFrames
  \/ \E n \in 1 .. MaxRequest : StartRender(n)

Consumer == Render \/ ResetTimeline

(***************************************************************************)
(* A coordinator: try_advance_generation.                                  *)
(***************************************************************************)

Proceed(c, place) == control' = [control EXCEPT ![c] = place]
NextSlot(c) == index' = [index EXCEPT ![c] = After(@)]
LastSlot(c) == index[c] + 1 = SlotCount

\* A generation that does not advance is refused, and nothing changes.
RequestAdvance(c, g) ==
  /\ control[c] = "Idle"
  /\ attempts < MaxAttempts
  /\ g > generation
  /\ attempts' = attempts + 1
  /\ requested' = [requested EXCEPT ![c] = g]
  /\ index' = [index EXCEPT ![c] = 0]
  /\ Proceed(c, "Locking")
  /\ UNCHANGED <<ring, endpoints, history>>

\* The compare-exchange on resetting; the loser returns ResetInProgress.
LockReset(c) ==
  /\ control[c] = "Locking"
  /\ resetting' = TRUE
  /\ Proceed(c, IF resetting THEN "Idle" ELSE "Counting")
  /\ UNCHANGED <<slots, generation, entries, endpoints, requested, index, attempts, history>>

\* Bug for the mutants: nobody asks whether an endpoint is in its transition.
CountNobody(c) ==
  /\ control[c] = "Counting"
  /\ Proceed(c, "Scanning")
  /\ UNCHANGED <<ring, endpoints, requested, index, attempts, history>>

\* EndpointTransitionInProgress when somebody is in the fence.
CountEntries(c) ==
  /\ control[c] = "Counting"
  /\ Proceed(c, IF entries # 0 THEN "Unlocking" ELSE "Scanning")
  /\ UNCHANGED <<ring, endpoints, requested, index, attempts, history>>

\* SlotInUse for the first slot that somebody writes or reads.
ScanSlot(c) ==
  /\ control[c] = "Scanning"
  /\ \/ /\ state[index[c]] \in {"Vacant", "Ready"}
        /\ Proceed(c, IF LastSlot(c) THEN "Clearing" ELSE "Scanning")
        /\ NextSlot(c)
     \/ /\ state[index[c]] \in {"Writing", "Reading"}
        /\ Proceed(c, "Unlocking")
        /\ UNCHANGED index
  /\ UNCHANGED <<ring, endpoints, requested, attempts, history>>

\* Bug for the mutants: the blocks are given the new generation and nothing else.
RetagSlot(c) ==
  /\ control[c] = "Clearing"
  /\ block' = [block EXCEPT ![index[c]] = [generation |-> requested[c], valid |-> @.valid,
                                           serial |-> @.serial]]
  /\ Proceed(c, IF LastSlot(c) THEN "Storing" ELSE "Clearing")
  /\ NextSlot(c)
  /\ UNCHANGED <<state, generation, resetting, entries, endpoints, requested, attempts, history>>

\* Nobody can tell the reset of the block from the store of its state.
ClearSlot(c) ==
  /\ control[c] = "Clearing"
  /\ block' = [block EXCEPT ![index[c]] = Emptied(index[c], requested[c])]
  /\ state' = [state EXCEPT ![index[c]] = "Vacant"]
  /\ discarded' = (discarded \/ state[index[c]] = "Ready")
  /\ Proceed(c, IF LastSlot(c) THEN "Storing" ELSE "Clearing")
  /\ NextSlot(c)
  /\ UNCHANGED <<generation, resetting, entries, endpoints, requested, attempts,
                 published, heard, retired>>

StoreGeneration(c) ==
  /\ control[c] = "Storing"
  /\ generation' = requested[c]
  /\ retired' = published
  /\ Proceed(c, "Unlocking")
  /\ UNCHANGED <<slots, resetting, entries, endpoints, requested, index, attempts,
                 published, heard, discarded>>

UnlockReset(c) ==
  /\ control[c] = "Unlocking"
  /\ resetting' = FALSE
  /\ Proceed(c, "Idle")
  /\ UNCHANGED <<slots, generation, entries, endpoints, requested, index, attempts, history>>

Advance(c) ==
  \/ LockReset(c) \/ CountEntries(c) \/ ScanSlot(c) \/ ClearSlot(c)
  \/ StoreGeneration(c) \/ UnlockReset(c)

Next ==
  \/ Producer
  \/ Consumer
  \/ \E c \in Coordinators : Advance(c) \/ \E g \in Generations : RequestAdvance(c, g)

Spec == Init /\ [][Next]_vars

(***************************************************************************)
(* The worker runs, the device calls back again and again, and a           *)
(* coordinator that has started its call ends it.  Nobody has to start a   *)
(* block, to drop a lease or to ask for an advance.                        *)
(***************************************************************************)
FairSpec ==
  /\ Spec
  /\ WF_vars(Render)
  /\ \A c \in Coordinators : WF_vars(Advance(c))

(***************************************************************************)
(* Properties.                                                             *)
(***************************************************************************)

\* An advance clears slots only while nobody writes or reads one, however the
\* claims of the two endpoints fall around the fence (buffer.rs:175-217).
ResetIsExclusive ==
  (\E c \in Coordinators : control[c] \in {"Clearing", "Storing"})
    => \A s \in Slots : state[s] \in {"Vacant", "Ready"}

\* What the callback copies belongs to the current generation and was published
\* after the advance that began it: no frame of a retired timeline is heard.
HeardIsCurrent ==
  [][heard'.serial # heard.serial =>
       /\ block[active.slot].generation = generation
       /\ heard'.serial > retired]_vars

\* Where the next frames come from: the block being heard goes on, or it has ended
\* and the next one the worker published (since the last advance) begins.
NextBlock == (IF heard.serial > retired THEN heard.serial ELSE retired) + 1
Follows ==
  \/ /\ heard'.serial = heard.serial
     /\ ~heard.ended
     /\ active.consumed = heard.upto
  \/ /\ heard'.serial = NextBlock
     /\ heard.ended \/ heard.serial <= retired
     /\ active.consumed = 0

\* Frames are heard in the order of publication, without a gap and none twice, as
\* long as no advance has thrown ready blocks away.
FramesFollow ==
  [][heard'.upto # heard.upto \/ heard'.serial # heard.serial => discarded \/ Follows]_vars

\* A ready block is heard if the device keeps calling back, unless an advance
\* throws ready blocks away.
BlocksAreHeard ==
  \A n \in 1 .. MaxBlocks :
    published >= n ~> (heard.serial >= n \/ retired >= n \/ discarded)
================================================================================
