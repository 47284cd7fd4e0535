-------------------------- MODULE AudioBuffer_proofs --------------------------
(***************************************************************************)
(* The fence of the ring, for any number of slots, blocks, generations and *)
(* coordinators: the variables keep their types, at most one coordinator   *)
(* resets at a time, none clears a slot that an endpoint works on, what is *)
(* heard is of the current generation, and it is heard in the order in     *)
(* which it was published.                                                 *)
(***************************************************************************)
EXTENDS AudioBuffer, TLAPS

\* The places inside the fence: entries counts the endpoints that are there.
Inside == {"Announced", "Withdrawing", "Admitted", "Claimed", "Missed"}
EntriesCount ==
  entries = (IF at["producer"] \in Inside THEN 1 ELSE 0)
            + (IF at["consumer"] \in Inside THEN 1 ELSE 0)

\* What the places of the two endpoints tell of the rest of the state.
ProducerBusy ==
  /\ at["producer"] # "Idle" => published < MaxBlocks
  /\ at["producer"] \in RecyclePlaces => aborts > 0
ConsumerHolds ==
  /\ at["consumer"] \in {"Checking", "Copying"} \cup RecyclePlaces => active # NoBlock
  /\ at["producer"] \notin {"Render", "Checking", "Copying"}
  /\ at["consumer"] \notin {"Tagged", "Holding", "Filled", "Publishable"}

\* A coordinator holds the flag from its compare-exchange to its release.
Holders == {"Counting", "Scanning", "Clearing", "Storing", "Unlocking"}
OneReset ==
  /\ \A c, d \in Coordinators :
       control[c] \in Holders /\ control[d] \in Holders => c = d
  /\ \A c \in Coordinators : control[c] \in Holders => resetting

\* Once a coordinator has counted nobody in the fence, nobody gets past it.
FenceHolds ==
  \A c \in Coordinators :
    control[c] \in {"Scanning", "Clearing", "Storing"} =>
      \A e \in Endpoints : at[e] \notin {"Admitted", "Claimed", "Missed"}

\* A coordinator looks at the slots from the first one on.
StartsAtZero ==
  \A c \in Coordinators : control[c] \in {"Locking", "Counting"} => index[c] = 0

\* The slots a coordinator has looked at are free, and stay free.
ScannedFree ==
  \A c \in Coordinators :
    /\ control[c] = "Scanning" =>
         \A s \in Slots : s < index[c] => state[s] \in {"Vacant", "Ready"}
    /\ control[c] \in {"Clearing", "Storing"} =>
         \A s \in Slots : state[s] \in {"Vacant", "Ready"}

Control == OneReset /\ FenceHolds /\ StartsAtZero /\ ScannedFree
IInv == TypeOK /\ EntriesCount /\ ProducerBusy /\ ConsumerHolds /\ Control

--------------------------------------------------------------------------------

LEMMA AfterIsSlot == ASSUME NEW s \in Slots PROVE After(s) \in Slots
<1>1. SlotCount \in Nat /\ SlotCount >= 2 BY RingAssumption
<1>2. s \in Int /\ s >= 0 /\ s < SlotCount BY <1>1 DEF Slots
<1>3. (s + 1) % SlotCount \in 0 .. SlotCount - 1 BY <1>1, <1>2
<1> QED BY <1>3 DEF After, Slots

LEMMA ZeroIsSlot == 0 \in Slots
BY RingAssumption DEF Slots

LEMMA InitIInv == Init => IInv
<1> SUFFICES ASSUME Init PROVE IInv OBVIOUS
<1>0. 0 \in Generations /\ 0 \in 0 .. BlockFrames /\ 0 \in 0 .. MaxBlocks
      /\ 0 \in 0 .. MaxRequest /\ 0 \in 0 .. MaxAttempts
  BY RingAssumption DEF Generations
<1>1. TypeOK
  <2>1. state \in [Slots -> {"Vacant", "Writing", "Ready", "Reading"}]
    BY DEF Init
  <2>2. block \in [Slots -> [generation: Generations, valid: 0 .. BlockFrames,
                            serial: 0 .. MaxBlocks]]
    BY <1>0 DEF Init
  <2>3. at \in [Endpoints -> Places] /\ next \in [Endpoints -> Slots]
        /\ tag \in [Endpoints -> Generations]
    BY <1>0, ZeroIsSlot DEF Init, Places
  <2>4. control \in [Coordinators -> ControlPlaces]
        /\ requested \in [Coordinators -> Generations] /\ index \in [Coordinators -> Slots]
    BY <1>0, ZeroIsSlot DEF Init, ControlPlaces
  <2>5. heard \in [serial: 0 .. MaxBlocks, upto: 0 .. BlockFrames, ended: BOOLEAN]
    BY <1>0 DEF Init
  <2>6. /\ generation \in Generations /\ entries \in 0 .. 2
        /\ aborts \in 0 .. 2 /\ active = NoBlock /\ wanted \in 0 .. MaxRequest
        /\ attempts \in 0 .. MaxAttempts /\ published \in 0 .. MaxBlocks
        /\ retired \in 0 .. MaxBlocks
    BY <1>0 DEF Init
  <2>7. resetting \in BOOLEAN /\ discarded \in BOOLEAN
    BY DEF Init
  <2> QED BY <2>1, <2>2, <2>3, <2>4, <2>5, <2>6, <2>7 DEF TypeOK
<1>2. EntriesCount /\ ProducerBusy /\ ConsumerHolds
  BY DEF Init, EntriesCount, ProducerBusy, ConsumerHolds, Endpoints, Inside, RecyclePlaces
<1>3. Control
  BY DEF Init, Control, OneReset, FenceHolds, StartsAtZero, ScannedFree, Holders
<1> QED BY <1>1, <1>2, <1>3 DEF IInv

\* A block taken by the consumer is some block.
LEMMA TakenBlock == IInv /\ TakeBlock => active' \in ActiveBlock
<1> SUFFICES ASSUME IInv, TakeBlock PROVE active' \in ActiveBlock OBVIOUS
<1> QED BY RingAssumption DEF IInv, TakeBlock, TypeOK, ActiveBlock, Endpoints

\* copy_frames_to stays within the block and within what the callback wants.
LEMMA CopiedFrames ==
  IInv /\ CopyFrames =>
    /\ active' \in ActiveBlock
    /\ wanted' \in 0 .. MaxRequest
    /\ heard' \in [serial: 0 .. MaxBlocks, upto: 0 .. BlockFrames, ended: BOOLEAN]
<1> SUFFICES ASSUME IInv, CopyFrames
             PROVE /\ active' \in ActiveBlock
                   /\ wanted' \in 0 .. MaxRequest
                   /\ heard' \in [serial: 0 .. MaxBlocks, upto: 0 .. BlockFrames,
                                  ended: BOOLEAN]
  OBVIOUS
<1> USE RingAssumption DEF IInv
<1>1. active \in ActiveBlock
  BY DEF CopyFrames, TypeOK, ConsumerHolds
<1> DEFINE b == block[active.slot]
           left == IF b.valid > active.consumed THEN b.valid - active.consumed ELSE 0
           copied == IF left < wanted THEN left ELSE wanted
           consumed == active.consumed + copied
<1>2. /\ b.valid \in 0 .. BlockFrames /\ b.serial \in 0 .. MaxBlocks
      /\ active.consumed \in 0 .. BlockFrames /\ wanted \in 0 .. MaxRequest
  BY <1>1 DEF TypeOK, ActiveBlock
<1>3. /\ left \in 0 .. BlockFrames
      /\ active.consumed + left \in 0 .. BlockFrames
  BY <1>2
<1>4. copied \in 0 .. wanted /\ consumed \in 0 .. BlockFrames
  BY <1>2, <1>3
<1>5. wanted' \in 0 .. MaxRequest
  BY <1>2, <1>4 DEF CopyFrames
<1>6. active' \in ActiveBlock
  BY <1>1, <1>4 DEF CopyFrames, ActiveBlock
<1>7. heard' \in [serial: 0 .. MaxBlocks, upto: 0 .. BlockFrames, ended: BOOLEAN]
  <2>1. CASE copied = 0
    BY <2>1 DEF CopyFrames, TypeOK
  <2>2. CASE copied # 0
    <3>1. heard' = [serial |-> b.serial, upto |-> consumed, ended |-> consumed >= active.valid]
      BY <2>2 DEF CopyFrames
    <3> QED BY <3>1, <1>2, <1>4
  <2> QED BY <2>1, <2>2
<1> QED BY <1>5, <1>6, <1>7

LEMMA TypeStep == IInv /\ [Next]_vars => TypeOK'
<1> SUFFICES ASSUME IInv, [Next]_vars PROVE TypeOK' OBVIOUS
<1> USE RingAssumption DEF IInv
<1>0. "producer" \in Endpoints /\ "consumer" \in Endpoints BY DEF Endpoints
<1>1. ASSUME NEW e \in Endpoints, EndpointSteps(e) PROVE TypeOK'
  <2> USE DEF TypeOK, Go, slots, ring, endpoints, coordinators, history
  <2>0. Recycled(e) \in Slots
    BY DEF Recycled, ActiveBlock
  <2>1. CASE Announce(e)
    <3>1. entries' \in 0 .. 2
      BY <2>1 DEF Announce, EntriesCount, Inside, Endpoints
    <3> QED BY <2>1, <3>1 DEF Announce, Places, FencePlaces
  <2>2. CASE Recheck(e)
    BY <2>2 DEF Recheck, Places, FencePlaces
  <2>3. CASE Claim(e)
    <3>1. Owned[e] \in {"Vacant", "Writing", "Ready", "Reading"}
      BY DEF Owned, Endpoints
    <3>2. state' \in [Slots -> {"Vacant", "Writing", "Ready", "Reading"}]
      BY <2>3, <3>1 DEF Claim
    <3>3. at' \in [Endpoints -> Places]
      BY <2>3 DEF Claim, Places, FencePlaces
    <3> QED BY <2>3, <3>2, <3>3 DEF Claim
  <2>4. CASE LeaveFence(e)
    <3>1. entries' \in 0 .. 2
      BY <2>4 DEF LeaveFence, EntriesCount, Inside, Endpoints
    <3>2. wanted' \in 0 .. MaxRequest
      BY <2>4 DEF LeaveFence
    <3>3. at' \in [Endpoints -> Places]
      BY <2>4 DEF LeaveFence, Places
    <3> QED BY <2>4, <3>1, <3>2, <3>3 DEF LeaveFence
  <2>5. CASE ReadGeneration(e)
    BY <2>5 DEF ReadGeneration, Places, RecyclePlaces
  <2>6. CASE ResetBlock(e)
    <3>1. Emptied(Recycled(e), tag[e]) \in [generation: Generations, valid: 0 .. BlockFrames,
                                            serial: 0 .. MaxBlocks]
      BY <2>0 DEF Emptied
    <3>2. block' \in [Slots -> [generation: Generations, valid: 0 .. BlockFrames,
                               serial: 0 .. MaxBlocks]]
      BY <2>6, <3>1 DEF ResetBlock
    <3> QED BY <2>6, <3>2 DEF ResetBlock, Places, RecyclePlaces
  <2>7. CASE Vacate(e)
    <3>1. state' \in [Slots -> {"Vacant", "Writing", "Ready", "Reading"}]
      BY <2>7, <2>0 DEF Vacate
    <3>2. at' \in [Endpoints -> Places]
      <4>1. \/ at' = [at EXCEPT ![e] = "Recycling"]
            \/ at' = [at EXCEPT ![e] = "Render"]
            \/ at' = [at EXCEPT ![e] = "Idle"]
        BY <2>7 DEF Vacate, Go
      <4> QED BY <4>1 DEF Places, RecyclePlaces
    <3>3. aborts' \in 0 .. 2 /\ active' \in ActiveBlock \cup {NoBlock}
      BY <2>7 DEF Vacate, ProducerBusy, RecyclePlaces
    <3> QED BY <2>7, <3>1, <3>2, <3>3 DEF Vacate
  <2> QED BY <1>1, <2>1, <2>2, <2>3, <2>4, <2>5, <2>6, <2>7 DEF EndpointSteps
<1>2. CASE TryAcquire
  BY <1>2 DEF TryAcquire, LooksOpen, Go, TypeOK, Places, FencePlaces, ring, coordinators, history
<1>3. CASE LeaseGeneration
  BY <1>3, <1>0 DEF LeaseGeneration, Go, TypeOK, Places, ring, coordinators, history
<1>4. CASE TagBlock
  <2>1. Emptied(next["producer"], tag["producer"])
          \in [generation: Generations, valid: 0 .. BlockFrames, serial: 0 .. MaxBlocks]
    BY <1>0 DEF Emptied, TypeOK
  <2>2. block' \in [Slots -> [generation: Generations, valid: 0 .. BlockFrames,
                             serial: 0 .. MaxBlocks]]
    BY <1>4, <2>1 DEF TagBlock, TypeOK
  <2> QED BY <1>4, <2>2 DEF TagBlock, Go, TypeOK, Places, coordinators, history
<1>5. ASSUME NEW n \in 0 .. BlockFrames, Fill(n) PROVE TypeOK'
  <2>1. published + 1 \in 0 .. MaxBlocks
    BY <1>5 DEF Fill, TypeOK, ProducerBusy
  <2>2. block' \in [Slots -> [generation: Generations, valid: 0 .. BlockFrames,
                             serial: 0 .. MaxBlocks]]
    BY <1>5, <1>0, <2>1 DEF Fill, TypeOK
  <2> QED BY <1>5, <2>2 DEF Fill, Go, TypeOK, Places, coordinators, history
<1>6. CASE CheckPublish
  <2>1. at' \in [Endpoints -> Places]
    BY <1>6 DEF CheckPublish, Go, TypeOK, Places, RecyclePlaces
  <2>2. aborts' \in 0 .. 2
    BY <1>6 DEF CheckPublish, TypeOK
  <2> QED BY <1>6, <2>1, <2>2 DEF CheckPublish, TypeOK, ring, coordinators, history
<1>7. CASE StoreReady
  <2>1. published' \in 0 .. MaxBlocks
    BY <1>7 DEF StoreReady, TypeOK, ProducerBusy
  <2>2. next' \in [Endpoints -> Slots]
    BY <1>7, <1>0, AfterIsSlot DEF StoreReady, TypeOK
  <2> QED BY <1>7, <2>1, <2>2 DEF StoreReady, Go, TypeOK, Places, coordinators
<1>8. CASE DropLease
  <2>1. at' \in [Endpoints -> Places]
    BY <1>8 DEF DropLease, Go, TypeOK, Places, RecyclePlaces
  <2>2. aborts' \in 0 .. 2
    BY <1>8 DEF DropLease
  <2> QED BY <2>2, <1>8, <2>1 DEF DropLease, TypeOK, ring, coordinators, history
<1>9. ASSUME NEW n \in 1 .. MaxRequest, StartRender(n) PROVE TypeOK'
  <2>1. at' \in [Endpoints -> Places]
    BY <1>9 DEF StartRender, Go, TypeOK, Places
  <2>2. wanted' \in 0 .. MaxRequest
    BY <1>9 DEF StartRender
  <2> QED BY <2>2, <1>9, <2>1 DEF StartRender, TypeOK, ring, coordinators, history
<1>10. CASE SeekBlock
  BY <1>10 DEF SeekBlock, LooksOpen, Go, TypeOK, Places, FencePlaces, ring, coordinators, history
<1>11. CASE TakeBlock
  <2>1. active' \in ActiveBlock
    BY <1>11, TakenBlock
  <2>2. next' \in [Endpoints -> Slots]
    BY <1>11, <1>0, AfterIsSlot DEF TakeBlock, TypeOK
  <2> QED BY <1>11, <2>1, <2>2 DEF TakeBlock, Go, TypeOK, Places, ring, coordinators, history
<1>12. CASE CheckBlock
  BY <1>12 DEF CheckBlock, Go, TypeOK, Places, RecyclePlaces, ring, coordinators, history
<1>13. CASE CopyFrames
  <2>1. \/ Go("consumer", "Recycling")
        \/ Go("consumer", "Idle")
        \/ Go("consumer", "Render")
    BY <1>13 DEF CopyFrames
  <2>2. at' \in [Endpoints -> Places]
    BY <2>1 DEF Go, TypeOK, Places, RecyclePlaces
  <2> QED BY <1>13, <2>2, CopiedFrames DEF CopyFrames, TypeOK, ring, coordinators
<1>14. CASE ResetTimeline
  BY <1>14 DEF ResetTimeline, Go, TypeOK, Places, RecyclePlaces, ring, coordinators
<1>15. ASSUME NEW c \in Coordinators, NEW g \in Generations, RequestAdvance(c, g)
       PROVE TypeOK'
  BY <1>15, ZeroIsSlot DEF RequestAdvance, Proceed, TypeOK, ControlPlaces, ring, endpoints, history
<1>16. ASSUME NEW c \in Coordinators, Advance(c) PROVE TypeOK'
  <2> USE DEF TypeOK, Proceed, NextSlot, ControlPlaces, slots, ring, endpoints, history
  <2>1. CASE LockReset(c) BY <2>1 DEF LockReset
  <2>2. CASE CountEntries(c) BY <2>2 DEF CountEntries
  <2>3. CASE ScanSlot(c)
    <3>1. control' \in [Coordinators -> ControlPlaces]
      BY <2>3 DEF ScanSlot
    <3>2. index' \in [Coordinators -> Slots]
      BY <2>3, AfterIsSlot DEF ScanSlot
    <3> QED BY <2>3, <3>1, <3>2 DEF ScanSlot
  <2>4. CASE ClearSlot(c)
    <3>1. Emptied(index[c], requested[c])
            \in [generation: Generations, valid: 0 .. BlockFrames, serial: 0 .. MaxBlocks]
      BY DEF Emptied
    <3>2. block' \in [Slots -> [generation: Generations, valid: 0 .. BlockFrames,
                               serial: 0 .. MaxBlocks]]
      BY <2>4, <3>1 DEF ClearSlot
    <3>3. index' \in [Coordinators -> Slots]
      BY <2>4, AfterIsSlot DEF ClearSlot
    <3> QED BY <2>4, <3>2, <3>3 DEF ClearSlot
  <2>5. CASE StoreGeneration(c) BY <2>5 DEF StoreGeneration
  <2>6. CASE UnlockReset(c) BY <2>6 DEF UnlockReset
  <2> QED BY <1>16, <2>1, <2>2, <2>3, <2>4, <2>5, <2>6 DEF Advance
<1>17. CASE UNCHANGED vars
  BY <1>17 DEF TypeOK, vars, ring, endpoints, coordinators, history
<1> QED
  BY <1>0, <1>1, <1>2, <1>3, <1>4, <1>5, <1>6, <1>7, <1>8, <1>9, <1>10, <1>11, <1>12, <1>13,
     <1>14, <1>15, <1>16, <1>17 DEF Next, Producer, Consumer, Render

--------------------------------------------------------------------------------

LEMMA CountStep == IInv /\ [Next]_vars => EntriesCount'
<1> SUFFICES ASSUME IInv, [Next]_vars PROVE EntriesCount' OBVIOUS
<1> USE DEF EntriesCount, Inside
<1>0. /\ at \in [Endpoints -> Places] /\ entries \in Nat /\ EntriesCount
      /\ at["producer"] \notin {"Render", "Checking", "Copying"}
      /\ at["consumer"] \notin {"Tagged", "Holding", "Filled", "Publishable"}
  BY DEF IInv, TypeOK, ConsumerHolds
<1>a. "producer" \in Endpoints /\ "consumer" \in Endpoints BY DEF Endpoints
<1>b. ASSUME NEW e \in Endpoints, NEW p \in Places, Go(e, p), UNCHANGED entries,
             at[e] \in Inside <=> p \in Inside
      PROVE EntriesCount'
  BY <1>0, <1>a, <1>b DEF Go, Endpoints
<1>c. CASE UNCHANGED <<entries, at>>
  BY <1>0, <1>c
<1>1. ASSUME NEW e \in Endpoints, EndpointSteps(e) PROVE EntriesCount'
  <2>1. CASE Announce(e)
    BY <2>1, <1>0 DEF Announce, Go, Endpoints
  <2>2. CASE Recheck(e)
    BY <2>2, <1>0, <1>b DEF Recheck, ring, Places, FencePlaces
  <2>3. CASE Claim(e)
    BY <2>3, <1>0, <1>b DEF Claim, Places, FencePlaces
  <2>4. CASE LeaveFence(e)
    <3>1. at' = [at EXCEPT ![e] = IF at[e] = "Claimed" THEN "Owner" ELSE "Idle"]
          /\ entries' = entries - 1 /\ at[e] \in {"Withdrawing", "Claimed", "Missed"}
      BY <2>4 DEF LeaveFence, Go
    <3>2. at'[e] \notin Inside /\ \A u \in Endpoints : u # e => at'[u] = at[u]
      BY <3>1, <1>0
    <3> QED BY <3>1, <3>2, <1>0, <1>a DEF Endpoints
  <2>5. CASE ReadGeneration(e)
    BY <2>5, <1>0, <1>b DEF ReadGeneration, ring, Places, RecyclePlaces
  <2>6. CASE ResetBlock(e)
    BY <2>6, <1>0, <1>b DEF ResetBlock, Places, RecyclePlaces
  <2>7. CASE Vacate(e)
    <3>1. CASE Go(e, IF aborts > 1 THEN "Recycling" ELSE "Idle")
      BY <2>7, <3>1, <1>b DEF Vacate, Places, RecyclePlaces
    <3>2. CASE Go(e, IF wanted > 0 THEN "Render" ELSE "Idle")
      BY <2>7, <3>2, <1>b DEF Vacate, Places, RecyclePlaces
    <3> QED BY <2>7, <3>1, <3>2 DEF Vacate
  <2> QED BY <1>1, <2>1, <2>2, <2>3, <2>4, <2>5, <2>6, <2>7 DEF EndpointSteps
<1>2. CASE TryAcquire
  BY <1>2, <1>a, <1>b DEF TryAcquire, LooksOpen, ring, Places, FencePlaces
<1>3. CASE LeaseGeneration
  BY <1>3, <1>a, <1>b DEF LeaseGeneration, ring, Places
<1>4. CASE TagBlock
  BY <1>4, <1>a, <1>b DEF TagBlock, Places
<1>5. ASSUME NEW n \in 0 .. BlockFrames, Fill(n) PROVE EntriesCount'
  BY <1>5, <1>a, <1>b DEF Fill, Places
<1>6. CASE CheckPublish
  BY <1>6, <1>a, <1>b DEF CheckPublish, ring, Places, RecyclePlaces
<1>7. CASE StoreReady
  BY <1>7, <1>a, <1>b DEF StoreReady, Places
<1>8. CASE DropLease
  BY <1>8, <1>a, <1>b DEF DropLease, ring, Places, RecyclePlaces
<1>9. ASSUME NEW n \in 1 .. MaxRequest, StartRender(n) PROVE EntriesCount'
  BY <1>9, <1>a, <1>b DEF StartRender, ring, Places
<1>10. CASE SeekBlock
  BY <1>10, <1>a, <1>b DEF SeekBlock, LooksOpen, ring, Places, FencePlaces
<1>11. CASE TakeBlock
  BY <1>11, <1>a, <1>b DEF TakeBlock, ring, Places
<1>12. CASE CheckBlock
  BY <1>12, <1>a, <1>b DEF CheckBlock, ring, Places, RecyclePlaces
<1>13. CASE CopyFrames
  <2>1. at["consumer"] = "Copying" /\ UNCHANGED entries
    BY <1>13 DEF CopyFrames, ring
  <2>2. \E p \in {"Recycling", "Idle", "Render"} : Go("consumer", p)
    BY <1>13 DEF CopyFrames
  <2> QED BY <2>1, <2>2, <1>a, <1>b DEF Places, RecyclePlaces
<1>14. CASE ResetTimeline
  BY <1>14, <1>a, <1>b DEF ResetTimeline, ring, Places, RecyclePlaces
<1>15. ASSUME NEW c \in Coordinators, NEW g \in Generations, RequestAdvance(c, g)
       PROVE EntriesCount'
  BY <1>15, <1>c DEF RequestAdvance, ring, endpoints
<1>16. ASSUME NEW c \in Coordinators, Advance(c) PROVE EntriesCount'
  BY <1>16, <1>c DEF Advance, LockReset, CountEntries, ScanSlot, ClearSlot, StoreGeneration,
     UnlockReset, ring, endpoints
<1>17. CASE UNCHANGED vars
  BY <1>17, <1>c DEF vars, ring, endpoints
<1> QED
  BY <1>a, <1>1, <1>2, <1>3, <1>4, <1>5, <1>6, <1>7, <1>8, <1>9, <1>10, <1>11, <1>12, <1>13,
     <1>14, <1>15, <1>16, <1>17 DEF Next, Producer, Consumer, Render

LEMMA PlacesStep == IInv /\ [Next]_vars => ProducerBusy' /\ ConsumerHolds'
<1> SUFFICES ASSUME IInv, [Next]_vars PROVE ProducerBusy' /\ ConsumerHolds' OBVIOUS
<1> USE DEF ProducerBusy, ConsumerHolds, RecyclePlaces
<1>0. /\ at \in [Endpoints -> Places] /\ aborts \in 0 .. 2 /\ ProducerBusy /\ ConsumerHolds
      /\ published \in Nat /\ MaxBlocks \in Nat
  BY RingAssumption DEF IInv, TypeOK
<1>a. "producer" \in Endpoints /\ "consumer" \in Endpoints BY DEF Endpoints
<1>1. ASSUME NEW e \in Endpoints, EndpointSteps(e) PROVE ProducerBusy' /\ ConsumerHolds'
  <2> USE <1>0, <1>a DEF Endpoints, Go, ring, coordinators, history
  <2>1. CASE Announce(e) BY <2>1 DEF Announce
  <2>2. CASE Recheck(e) BY <2>2 DEF Recheck
  <2>3. CASE Claim(e)
    <3>1. (Go(e, "Claimed") \/ Go(e, "Missed")) /\ at[e] = "Admitted"
          /\ UNCHANGED <<active, aborts, published>>
      BY <2>3 DEF Claim
    <3> QED BY <3>1
  <2>4. CASE LeaveFence(e) BY <2>4 DEF LeaveFence
  <2>5. CASE ReadGeneration(e) BY <2>5 DEF ReadGeneration
  <2>6. CASE ResetBlock(e) BY <2>6 DEF ResetBlock
  <2>7. CASE Vacate(e) BY <2>7 DEF Vacate
  <2> QED BY <1>1, <2>1, <2>2, <2>3, <2>4, <2>5, <2>6, <2>7 DEF EndpointSteps
<1> USE <1>0, <1>a DEF Go, ring, coordinators, history
<1>2. CASE TryAcquire BY <1>2 DEF TryAcquire, LooksOpen
<1>3. CASE LeaseGeneration BY <1>3 DEF LeaseGeneration
<1>4. CASE TagBlock BY <1>4 DEF TagBlock
<1>5. ASSUME NEW n \in 0 .. BlockFrames, Fill(n) PROVE ProducerBusy' /\ ConsumerHolds'
  BY <1>5 DEF Fill
<1>6. CASE CheckPublish BY <1>6 DEF CheckPublish
<1>7. CASE StoreReady BY <1>7 DEF StoreReady
<1>8. CASE DropLease BY <1>8 DEF DropLease
<1>9. ASSUME NEW n \in 1 .. MaxRequest, StartRender(n) PROVE ProducerBusy' /\ ConsumerHolds'
  BY <1>9 DEF StartRender
<1>10. CASE SeekBlock BY <1>10 DEF SeekBlock, LooksOpen
<1>11. CASE TakeBlock
  <2>1. active' # NoBlock
    BY <1>11, TakenBlock, RingAssumption
  <2> QED BY <1>11, <2>1 DEF TakeBlock
<1>12. CASE CheckBlock BY <1>12 DEF CheckBlock
<1>13. CASE CopyFrames
  <2>1. active' # NoBlock
    BY <1>13, CopiedFrames, RingAssumption
  <2>2. UNCHANGED <<aborts, published>> /\ at["consumer"] = "Copying"
        /\ \E p \in {"Recycling", "Idle", "Render"} : Go("consumer", p)
    BY <1>13 DEF CopyFrames
  <2> QED BY <2>1, <2>2
<1>14. CASE ResetTimeline BY <1>14 DEF ResetTimeline
<1>15. ASSUME NEW c \in Coordinators, NEW g \in Generations, RequestAdvance(c, g)
       PROVE ProducerBusy' /\ ConsumerHolds'
  BY <1>15 DEF RequestAdvance, endpoints
<1>16. ASSUME NEW c \in Coordinators, Advance(c) PROVE ProducerBusy' /\ ConsumerHolds'
  <2>1. UNCHANGED <<endpoints, published>>
    BY <1>16 DEF Advance, LockReset, CountEntries, ScanSlot, ClearSlot, StoreGeneration,
       UnlockReset
  <2> QED BY <2>1 DEF endpoints
<1>17. CASE UNCHANGED vars BY <1>17 DEF vars, endpoints
<1> QED
  BY <1>1, <1>2, <1>3, <1>4, <1>5, <1>6, <1>7, <1>8, <1>9, <1>10, <1>11, <1>12, <1>13,
     <1>14, <1>15, <1>16, <1>17 DEF Next, Producer, Consumer, Render

\* The only steps that make a slot anything but free, and that let an endpoint in.
LEMMA FreeSlotsStayFree ==
  ASSUME IInv, [Next]_vars, NEW s \in Slots, state[s] \in {"Vacant", "Ready"},
         \A e \in Endpoints : at[e] # "Admitted"
  PROVE  state'[s] \in {"Vacant", "Ready"}
<1>0. state \in [Slots -> {"Vacant", "Writing", "Ready", "Reading"}]
  BY DEF IInv, TypeOK
<1>1. ASSUME NEW r \in Slots, NEW x \in {"Vacant", "Ready"}, state' = [state EXCEPT ![r] = x]
      PROVE state'[s] \in {"Vacant", "Ready"}
  BY <1>0, <1>1
<1>2. ASSUME NEW e \in Endpoints, EndpointSteps(e) PROVE state'[s] \in {"Vacant", "Ready"}
  <2>1. ~ Claim(e) BY DEF Claim
  <2>2. CASE Vacate(e)
    <3>1. Recycled(e) \in Slots
      BY <2>2 DEF Vacate, Recycled, IInv, TypeOK, ActiveBlock
    <3> QED BY <2>2, <3>1, <1>1 DEF Vacate
  <2> QED BY <1>2, <2>1, <2>2 DEF EndpointSteps, Announce, Recheck, LeaveFence,
             ReadGeneration, ResetBlock, ring, slots
<1>3. CASE StoreReady
  <2>1. next["producer"] \in Slots BY DEF IInv, TypeOK, Endpoints
  <2> QED BY <1>3, <2>1, <1>1 DEF StoreReady
<1>4. ASSUME NEW c \in Coordinators, Advance(c) PROVE state'[s] \in {"Vacant", "Ready"}
  <2>1. index[c] \in Slots BY DEF IInv, TypeOK
  <2>2. CASE ClearSlot(c) BY <2>1, <2>2, <1>1 DEF ClearSlot
  <2> QED BY <1>4, <2>2 DEF Advance, LockReset, CountEntries, ScanSlot, StoreGeneration,
             UnlockReset, ring, slots
<1>5. CASE UNCHANGED vars BY <1>5 DEF vars, ring
<1> QED
  BY <1>2, <1>3, <1>4, <1>5 DEF Next, Producer, Consumer, Render, TryAcquire, LeaseGeneration,
     TagBlock, CheckPublish, DropLease, Fill, SeekBlock, TakeBlock, CheckBlock, CopyFrames,
     StartRender, ResetTimeline, RequestAdvance, ring, Endpoints

LEMMA NobodyGetsIn ==
  ASSUME IInv, [Next]_vars, NEW e \in Endpoints, resetting,
         at[e] \notin {"Admitted", "Claimed", "Missed"}
  PROVE  at'[e] \notin {"Admitted", "Claimed", "Missed"}
<1>0. at \in [Endpoints -> Places] BY DEF IInv, TypeOK
<1>1. ASSUME NEW u \in Endpoints, NEW p, p \notin {"Admitted", "Claimed", "Missed"}, Go(u, p)
      PROVE at'[e] \notin {"Admitted", "Claimed", "Missed"}
  BY <1>0, <1>1 DEF Go
<1>2. "producer" \in Endpoints /\ "consumer" \in Endpoints BY DEF Endpoints
<1>3. ASSUME NEW u \in Endpoints, EndpointSteps(u)
      PROVE at'[e] \notin {"Admitted", "Claimed", "Missed"}
  <2>1. CASE Recheck(u) BY <2>1, <1>1 DEF Recheck
  <2>2. CASE Claim(u)
    <3>1. u # e BY <2>2 DEF Claim
    <3> QED BY <2>2, <3>1, <1>0 DEF Claim, Go
  <2>3. CASE Vacate(u)
    BY <2>3, <1>1 DEF Vacate
  <2> QED BY <1>3, <2>1, <2>2, <2>3, <1>1 DEF EndpointSteps, Announce, LeaveFence,
             ReadGeneration, ResetBlock
<1>4. ASSUME NEW c \in Coordinators, Advance(c)
      PROVE at'[e] \notin {"Admitted", "Claimed", "Missed"}
  BY <1>4 DEF Advance, LockReset, CountEntries, ScanSlot, ClearSlot, StoreGeneration,
     UnlockReset, endpoints
<1>5. CASE UNCHANGED vars BY <1>5 DEF vars, endpoints
<1>6. CASE CopyFrames
  <2>1. \E p \in {"Recycling", "Idle", "Render"} : Go("consumer", p)
    BY <1>6 DEF CopyFrames
  <2> QED BY <2>1, <1>1, <1>2
<1> QED
  BY <1>1, <1>2, <1>3, <1>4, <1>5, <1>6 DEF Next, Producer, Consumer, Render, TryAcquire,
     LooksOpen, LeaseGeneration, TagBlock, CheckPublish, StoreReady, DropLease, Fill, SeekBlock,
     TakeBlock, CheckBlock, StartRender, ResetTimeline, RequestAdvance, endpoints

LEMMA ControlStep == IInv /\ [Next]_vars => Control'
<1> SUFFICES ASSUME IInv, [Next]_vars PROVE Control' OBVIOUS
<1>0. /\ control \in [Coordinators -> ControlPlaces] /\ index \in [Coordinators -> Slots]
      /\ OneReset /\ FenceHolds /\ StartsAtZero /\ ScannedFree /\ entries \in 0 .. 2
      /\ at \in [Endpoints -> Places] /\ SlotCount \in Nat /\ SlotCount >= 2
      /\ state \in [Slots -> {"Vacant", "Writing", "Ready", "Reading"}]
  BY RingAssumption DEF IInv, TypeOK, Control
<1>b. resetting \in BOOLEAN
  BY DEF IInv, TypeOK
<1>f. ASSUME NEW c \in Coordinators, control[c] \in {"Scanning", "Clearing", "Storing"}
      PROVE  /\ resetting
             /\ \A e \in Endpoints : at'[e] \notin {"Admitted", "Claimed", "Missed"}
             /\ \A s \in Slots : state[s] \in {"Vacant", "Ready"}
                               => state'[s] \in {"Vacant", "Ready"}
  <2>1. resetting BY <1>0, <1>f DEF OneReset, Holders
  <2>2. \A e \in Endpoints : at[e] \notin {"Admitted", "Claimed", "Missed"}
    BY <1>0, <1>f DEF FenceHolds
  <2> QED BY <2>1, <2>2, NobodyGetsIn, FreeSlotsStayFree
<1>u. ASSUME UNCHANGED <<control, index>>, resetting' = resetting PROVE Control'
  BY <1>0, <1>f, <1>u DEF Control, OneReset, FenceHolds, StartsAtZero, ScannedFree
<1>1. ASSUME NEW c \in Coordinators, Advance(c) PROVE Control'
  <2>1. CASE LockReset(c)
    <3>1. CASE resetting
      <4>1. control' = [control EXCEPT ![c] = "Idle"] /\ UNCHANGED <<index, resetting>>
        BY <2>1, <3>1, <1>b DEF LockReset, Proceed
      <4> QED BY <4>1, <1>0, <1>f DEF Control, OneReset, FenceHolds, StartsAtZero, ScannedFree, Holders
    <3>2. CASE ~resetting
      <4>1. control' = [control EXCEPT ![c] = "Counting"] /\ index' = index /\ resetting'
        BY <2>1, <3>2 DEF LockReset, Proceed
      <4>2. \A d \in Coordinators : control[d] \notin Holders
        BY <3>2, <1>0 DEF OneReset
      <4>3. \A d \in Coordinators :
              /\ d # c => control'[d] = control[d] /\ control'[d] \notin Holders
              /\ d = c => control'[d] = "Counting"
        BY <4>1, <4>2, <1>0
      <4>4. index[c] = 0
        BY <2>1, <1>0 DEF LockReset, StartsAtZero
      <4>5. OneReset'
        BY <4>1, <4>3 DEF OneReset
      <4>6. FenceHolds' /\ ScannedFree'
        BY <4>3 DEF FenceHolds, ScannedFree, Holders
      <4>7. StartsAtZero'
        BY <4>1, <4>3, <4>4, <1>0 DEF StartsAtZero
      <4> QED BY <4>5, <4>6, <4>7 DEF Control
    <3> QED BY <3>1, <3>2
  <2>2. CASE CountEntries(c)
    <3>1. CASE entries = 0
      <4>1. control' = [control EXCEPT ![c] = "Scanning"] /\ resetting' = resetting
            /\ index' = index /\ UNCHANGED <<at, state>>
        BY <2>2, <3>1 DEF CountEntries, Proceed, ring, endpoints
      <4>2. \A e \in Endpoints : at[e] \notin {"Admitted", "Claimed", "Missed"}
        BY <3>1 DEF IInv, EntriesCount, Inside, Endpoints
      <4>3. index[c] = 0
        BY <2>2, <1>0 DEF CountEntries, StartsAtZero
      <4>4. OneReset'
        BY <4>1, <1>0, <2>2 DEF OneReset, Holders, CountEntries
      <4>5. FenceHolds'
        BY <4>1, <4>2 DEF FenceHolds
      <4>6. ScannedFree'
        BY <4>1, <4>3, <1>0 DEF ScannedFree, Slots
      <4>7. StartsAtZero'
        BY <4>1, <1>0 DEF StartsAtZero
      <4> QED BY <4>4, <4>5, <4>6, <4>7 DEF Control
    <3>2. CASE entries # 0
      <4>1. control' = [control EXCEPT ![c] = "Unlocking"] /\ resetting' = resetting
            /\ index' = index /\ UNCHANGED <<at, state>>
        BY <2>2, <3>2 DEF CountEntries, Proceed, ring, endpoints
      <4> QED BY <4>1, <1>0, <2>2 DEF Control, OneReset, FenceHolds, StartsAtZero, ScannedFree, Holders,
              CountEntries
    <3> QED BY <3>1, <3>2
  <2>3. CASE ScanSlot(c)
    <3>1. control[c] = "Scanning" /\ UNCHANGED <<resetting, at, state>>
      BY <2>3 DEF ScanSlot, ring, endpoints
    <3>2. CASE state[index[c]] \in {"Writing", "Reading"}
      <4>1. control' = [control EXCEPT ![c] = "Unlocking"] /\ index' = index
        BY <2>3, <3>2 DEF ScanSlot, Proceed
      <4> QED BY <4>1, <3>1, <1>0 DEF Control, OneReset, FenceHolds, StartsAtZero, ScannedFree, Holders
    <3>3. CASE state[index[c]] \in {"Vacant", "Ready"} /\ LastSlot(c)
      <4>1. control' = [control EXCEPT ![c] = "Clearing"]
            /\ index' = [index EXCEPT ![c] = After(@)]
        BY <2>3, <3>3 DEF ScanSlot, Proceed, NextSlot
      <4>2. \A s \in Slots : s < index[c] \/ s = index[c]
        BY <1>0, <3>3 DEF LastSlot, Slots
      <4>3. \A s \in Slots : state[s] \in {"Vacant", "Ready"}
        BY <4>2, <3>3, <3>1, <1>0 DEF ScannedFree
      <4> QED BY <4>1, <4>3, <3>1, <1>0 DEF Control, OneReset, FenceHolds, StartsAtZero, ScannedFree, Holders
    <3>4. CASE state[index[c]] \in {"Vacant", "Ready"} /\ ~LastSlot(c)
      <4>1. control' = [control EXCEPT ![c] = "Scanning"]
            /\ index' = [index EXCEPT ![c] = After(@)]
        BY <2>3, <3>4 DEF ScanSlot, Proceed, NextSlot
      <4>2. After(index[c]) = index[c] + 1
        <5>1. index[c] \in Int /\ 0 <= index[c] /\ index[c] + 1 < SlotCount
          BY <1>0, <3>4 DEF LastSlot, Slots
        <5> QED BY <5>1, <1>0 DEF After
      <4>3. \A s \in Slots : s < index'[c] => s < index[c] \/ s = index[c]
        BY <4>1, <4>2, <1>0 DEF Slots
      <4>4. \A s \in Slots : s < index'[c] => state[s] \in {"Vacant", "Ready"}
        BY <4>3, <3>4, <3>1, <1>0 DEF ScannedFree
      <4>5. \A d \in Coordinators : d # c => control'[d] = control[d] /\ index'[d] = index[d]
        BY <4>1, <1>0
      <4> QED BY <4>1, <4>4, <4>5, <3>1, <1>0
              DEF Control, OneReset, FenceHolds, StartsAtZero, ScannedFree, Holders
    <3> QED BY <2>3, <3>2, <3>3, <3>4 DEF ScanSlot
  <2>4. CASE ClearSlot(c)
    <3>1. control[c] = "Clearing" /\ UNCHANGED <<resetting, at>>
          /\ (Proceed(c, "Storing") \/ Proceed(c, "Clearing"))
      BY <2>4 DEF ClearSlot, endpoints
    <3>2. control'[c] \in {"Clearing", "Storing"}
          /\ \A d \in Coordinators : d # c => control'[d] = control[d]
      BY <3>1, <1>0 DEF Proceed
    <3>3. \A d \in Coordinators : d # c => control[d] \notin Holders
      BY <3>1, <1>0 DEF OneReset, Holders
    <3>4. \A s \in Slots : state'[s] \in {"Vacant", "Ready"}
      BY <3>1, <1>0, <1>f DEF ScannedFree
    <3>5. index' = [index EXCEPT ![c] = After(@)] /\ resetting
      BY <2>4, <3>1, <1>f DEF ClearSlot, NextSlot
    <3>6. OneReset'
      BY <3>1, <3>2, <3>3, <3>5 DEF OneReset
    <3>7. FenceHolds'
      BY <3>1, <3>2, <3>3, <1>f DEF FenceHolds, Holders
    <3>8. StartsAtZero'
      BY <3>2, <3>5, <1>0 DEF StartsAtZero
    <3>9. ScannedFree'
      BY <3>2, <3>3, <3>4 DEF ScannedFree, Holders
    <3> QED BY <3>6, <3>7, <3>8, <3>9 DEF Control
  <2>5. CASE StoreGeneration(c)
    <3>1. control' = [control EXCEPT ![c] = "Unlocking"] /\ control[c] = "Storing"
          /\ UNCHANGED <<resetting, index, at, state>>
      BY <2>5 DEF StoreGeneration, Proceed, slots, endpoints
    <3> QED BY <3>1, <1>0 DEF Control, OneReset, FenceHolds, StartsAtZero, ScannedFree, Holders
  <2>6. CASE UnlockReset(c)
    <3>1. control' = [control EXCEPT ![c] = "Idle"] /\ control[c] = "Unlocking"
      BY <2>6 DEF UnlockReset, Proceed
    <3>2. \A d \in Coordinators : control'[d] \notin Holders
      BY <3>1, <1>0 DEF OneReset, Holders
    <3>3. OneReset' /\ FenceHolds' /\ ScannedFree'
      BY <3>2 DEF OneReset, FenceHolds, ScannedFree, Holders
    <3>4. StartsAtZero'
      BY <2>6, <3>1, <1>0 DEF UnlockReset, StartsAtZero
    <3> QED BY <3>3, <3>4 DEF Control
  <2> QED BY <1>1, <2>1, <2>2, <2>3, <2>4, <2>5, <2>6 DEF Advance
<1>2. ASSUME NEW c \in Coordinators, NEW g \in Generations, RequestAdvance(c, g)
      PROVE Control'
  <2>1. control' = [control EXCEPT ![c] = "Locking"] /\ index' = [index EXCEPT ![c] = 0]
        /\ UNCHANGED <<resetting, at, state>>
    BY <1>2 DEF RequestAdvance, Proceed, ring, endpoints
  <2> QED BY <2>1, <1>0 DEF Control, OneReset, FenceHolds, StartsAtZero, ScannedFree, Holders
<1>3. CASE Producer
  BY <1>3, <1>u DEF Producer, EndpointSteps, Announce, Recheck, Claim, LeaveFence,
     ReadGeneration, ResetBlock, Vacate, TryAcquire, LeaseGeneration, TagBlock, CheckPublish,
     StoreReady, DropLease, Fill, ring, coordinators
<1>4. CASE Consumer
  BY <1>4, <1>u DEF Consumer, Render, EndpointSteps, Announce, Recheck, Claim, LeaveFence,
     ReadGeneration, ResetBlock, Vacate, SeekBlock, TakeBlock, CheckBlock, CopyFrames,
     StartRender, ResetTimeline, ring, coordinators
<1>5. CASE UNCHANGED vars
  BY <1>5, <1>u DEF vars, ring, coordinators
<1> QED BY <1>1, <1>2, <1>3, <1>4, <1>5 DEF Next

\* The fence: its counter counts the endpoints inside, one coordinator resets, and what
\* the places of the threads tell of the ring holds.
THEOREM Safety == Spec => []IInv
<1>1. Init => IInv BY InitIInv
<1>2. IInv /\ [Next]_vars => IInv'
  BY TypeStep, CountStep, PlacesStep, ControlStep DEF IInv
<1> QED BY <1>1, <1>2, PTL DEF Spec

\* The variables keep their types: nobody leaves the ring, the two entries of the
\* fence are never counted below zero, and what is copied stays within the block.
THEOREM TypeCorrect == Spec => []TypeOK
<1>1. IInv => TypeOK BY DEF IInv
<1> QED BY <1>1, Safety, PTL

\* The reset of the ring excludes the two endpoints (buffer.rs:175-217).
THEOREM ResetExcludes == Spec => []ResetIsExclusive
<1>1. IInv => ResetIsExclusive
  BY DEF IInv, Control, ScannedFree, ResetIsExclusive
<1> QED BY <1>1, Safety, PTL

--------------------------------------------------------------------------------

\* What an endpoint knows of the slot it works on, from its claim to its release.
Leased == {"Tagged", "Holding", "Filled", "Publishable"}
ProducerOwns ==
  /\ at["producer"] \in {"Claimed", "Owner"} \cup Leased => state[next["producer"]] = "Writing"
  /\ at["producer"] \in RecyclePlaces => state[next["producer"]] \in {"Writing", "Vacant"}
  /\ at["producer"] \in Leased => tag["producer"] = generation
  /\ at["producer"] \in Leased \ {"Tagged"} =>
       block[next["producer"]].generation = generation
  /\ at["producer"] \in {"Filled", "Publishable"} =>
       block[next["producer"]].serial = published + 1
ConsumerOwns ==
  /\ at["consumer"] \in {"Claimed", "Owner"} => state[next["consumer"]] = "Reading"
  /\ at["consumer"] \in FencePlaces \cup {"Owner"} => active = NoBlock
  /\ active # NoBlock => state[active.slot] = "Reading"
  /\ at["consumer"] = "Resetting" => tag["consumer"] = generation

\* When the generation is stored, no ready block is left.
ClearedVacant ==
  \A c \in Coordinators :
    /\ control[c] = "Clearing" => \A s \in Slots : s < index[c] => state[s] = "Vacant"
    /\ control[c] = "Storing" => \A s \in Slots : state[s] = "Vacant"

\* A block that can be heard belongs to the current generation.
BlocksCurrent ==
  /\ retired <= published
  /\ \A s \in Slots : state[s] \in {"Ready", "Reading"} =>
       block[s].generation = generation /\ block[s].serial > retired

OInv == IInv /\ ProducerOwns /\ ConsumerOwns /\ ClearedVacant /\ BlocksCurrent

LEMMA InitOInv == Init => OInv
<1> SUFFICES ASSUME Init PROVE OInv OBVIOUS
<1>1. ProducerOwns /\ ConsumerOwns
  BY DEF Init, ProducerOwns, ConsumerOwns, Leased, RecyclePlaces, FencePlaces, Endpoints
<1>2. ClearedVacant BY DEF Init, ClearedVacant
<1>3. BlocksCurrent BY DEF Init, BlocksCurrent
<1> QED BY <1>1, <1>2, <1>3, InitIInv DEF OInv

\* The shapes and places the lemmas below rest on.
LEMMA Shapes ==
  ASSUME OInv
  PROVE  /\ at \in [Endpoints -> Places] /\ next \in [Endpoints -> Slots]
         /\ tag \in [Endpoints -> Generations]
         /\ state \in [Slots -> {"Vacant", "Writing", "Ready", "Reading"}]
         /\ block \in [Slots -> [generation: Generations, valid: 0 .. BlockFrames,
                                 serial: 0 .. MaxBlocks]]
         /\ next["producer"] \in Slots /\ next["consumer"] \in Slots
         /\ active # NoBlock => active.slot \in Slots
         /\ published \in Nat /\ retired \in Nat
         /\ control \in [Coordinators -> ControlPlaces] /\ index \in [Coordinators -> Slots]
         /\ "producer" \in Endpoints /\ "consumer" \in Endpoints
BY RingAssumption DEF OInv, IInv, TypeOK, Endpoints, ActiveBlock

\* A slot the consumer recycles is one it reads.
LEMMA RecyclesReading ==
  ASSUME OInv, at["consumer"] \in RecyclePlaces
  PROVE  /\ active # NoBlock /\ Recycled("consumer") = active.slot
         /\ active.slot \in Slots /\ state[active.slot] = "Reading"
<1>1. active # NoBlock BY DEF OInv, IInv, ConsumerHolds
<1> QED BY <1>1, Shapes DEF OInv, ConsumerOwns, Recycled

\* While slots are cleared nobody works on one.
LEMMA ClearingIsAlone ==
  ASSUME OInv, NEW c \in Coordinators, control[c] \in {"Clearing", "Storing"}
  PROVE  /\ \A s \in Slots : state[s] \in {"Vacant", "Ready"}
         /\ at["producer"] \notin {"Claimed", "Owner"} \cup Leased
         /\ at["consumer"] \notin {"Claimed", "Owner"} \cup RecyclePlaces
         /\ active = NoBlock
<1>1. \A s \in Slots : state[s] \in {"Vacant", "Ready"}
  BY DEF OInv, IInv, Control, ScannedFree
<1>2. active = NoBlock
  BY <1>1, Shapes DEF OInv, ConsumerOwns
<1>3. at["consumer"] \notin RecyclePlaces
  BY <1>2 DEF OInv, IInv, ConsumerHolds
<1> QED BY <1>1, <1>2, <1>3, Shapes DEF OInv, ProducerOwns, ConsumerOwns

LEMMA ProducerOwnsStep == OInv /\ [Next]_vars => ProducerOwns'
<1> SUFFICES ASSUME OInv, [Next]_vars PROVE ProducerOwns' OBVIOUS
<1> DEFINE p == next["producer"]
<1>0. ProducerOwns /\ p \in Slots BY Shapes DEF OInv
<1>f. ASSUME UNCHANGED <<at["producer"], next["producer"], tag["producer"], generation,
                         published>>,
             state'[p] = state[p] \/ at["producer"] \notin {"Claimed", "Owner"} \cup Leased
                                                       \cup RecyclePlaces,
             block'[p] = block[p] \/ at["producer"] \notin Leased
      PROVE ProducerOwns'
  BY <1>0, <1>f DEF ProducerOwns, Leased
<1>1. CASE EndpointSteps("producer")
  <2> USE Shapes DEF Go, Endpoints, ProducerOwns, Leased, RecyclePlaces, history, ring, slots
  <2>1. CASE Announce("producer") BY <2>1, <1>0 DEF Announce
  <2>2. CASE Recheck("producer") BY <2>2, <1>0 DEF Recheck
  <2>3. CASE Claim("producer")
    <3>1. CASE at' = [at EXCEPT !["producer"] = "Claimed"]
               /\ state' = [state EXCEPT ![p] = Owned["producer"]]
      BY <2>3, <3>1, <1>0 DEF Claim, Owned
    <3>2. CASE at' = [at EXCEPT !["producer"] = "Missed"]
      BY <2>3, <3>2, <1>0 DEF Claim
    <3> QED BY <2>3, <3>1, <3>2 DEF Claim
  <2>4. CASE LeaveFence("producer") BY <2>4, <1>0 DEF LeaveFence
  <2>5. CASE ReadGeneration("producer") BY <2>5, <1>0 DEF ReadGeneration
  <2>6. CASE ResetBlock("producer") BY <2>6, <1>0 DEF ResetBlock
  <2>7. CASE Vacate("producer")
    <3>1. state' = [state EXCEPT ![p] = "Vacant"] /\ next' = next
          /\ (Go("producer", "Recycling") \/ Go("producer", "Idle"))
      BY <2>7 DEF Vacate, Recycled
    <3> QED BY <3>1, <1>0
  <2> QED BY <1>1, <2>1, <2>2, <2>3, <2>4, <2>5, <2>6, <2>7 DEF EndpointSteps
<1>2. CASE EndpointSteps("consumer")
  <2>1. at'["producer"] = at["producer"]
    BY <1>2, Shapes DEF EndpointSteps, Announce, Recheck, Claim, LeaveFence, ReadGeneration,
       ResetBlock, Vacate, Go
  <2>2. UNCHANGED <<next, tag["producer"], generation, published>>
    BY <1>2, Shapes DEF EndpointSteps, Announce, Recheck, Claim, LeaveFence, ReadGeneration,
       ResetBlock, Vacate, ring, history
  <2>3. CASE Claim("consumer")
    <3>1. block' = block
      BY <2>3 DEF Claim
    <3>0. Before["consumer"] = "Ready"
      BY DEF Before
    <3>2. \/ state' = state
          \/ /\ state[next["consumer"]] = "Ready"
             /\ state' = [state EXCEPT ![next["consumer"]] = Owned["consumer"]]
      BY <2>3, <3>0 DEF Claim
    <3>3. state'[p] = state[p] \/ state[p] = "Ready"
      BY <3>2, <1>0, Shapes
    <3>4. state[p] = "Ready" => at["producer"] \notin {"Claimed", "Owner"} \cup Leased
                                                       \cup RecyclePlaces
      BY <1>0 DEF ProducerOwns
    <3> QED BY <3>1, <3>3, <3>4, <2>1, <2>2, <1>f
  <2>4. CASE ResetBlock("consumer") \/ Vacate("consumer")
    <3>1. Recycled("consumer") = active.slot /\ active.slot \in Slots
          /\ state[active.slot] = "Reading"
      BY <2>4, RecyclesReading DEF ResetBlock, Vacate, RecyclePlaces
    <3>2. /\ state'[p] = state[p] \/ state[p] = "Reading"
          /\ block'[p] = block[p] \/ state[p] = "Reading"
      BY <2>4, <3>1, <1>0, Shapes DEF ResetBlock, Vacate
    <3>3. state[p] = "Reading" => at["producer"] \notin {"Claimed", "Owner"} \cup Leased
                                                         \cup RecyclePlaces
      BY <1>0 DEF ProducerOwns
    <3> QED BY <3>2, <3>3, <2>1, <2>2, <1>f
  <2>5. CASE UNCHANGED <<state, block>>
    BY <2>1, <2>2, <2>5, <1>f
  <2> QED BY <1>2, <2>3, <2>4, <2>5 DEF EndpointSteps, Announce, Recheck, LeaveFence,
             ReadGeneration, ring, slots
<1>3. ASSUME NEW c \in Coordinators, Advance(c) PROVE ProducerOwns'
  <2>1. CASE ClearSlot(c)
    <3>1. at["producer"] \notin {"Claimed", "Owner"} \cup Leased
      BY <2>1, ClearingIsAlone DEF ClearSlot
    <3>2. state[p] = "Vacant" => state'[p] = "Vacant"
      BY <2>1, <1>0, Shapes DEF ClearSlot
    <3>3. state[p] \in {"Vacant", "Ready"}
      BY <2>1, <1>0, ClearingIsAlone DEF ClearSlot
    <3>4. at["producer"] \in RecyclePlaces => state'[p] = "Vacant"
      BY <3>2, <3>3, <1>0 DEF ProducerOwns
    <3> QED BY <2>1, <3>1, <3>4 DEF ClearSlot, endpoints, ProducerOwns, Leased
  <2>2. CASE StoreGeneration(c)
    <3>1. at["producer"] \notin {"Claimed", "Owner"} \cup Leased
      BY <2>2, ClearingIsAlone DEF StoreGeneration
    <3> QED BY <2>2, <3>1, <1>0 DEF StoreGeneration, slots, endpoints, ProducerOwns, Leased
  <2> QED BY <1>3, <2>1, <2>2, <1>f DEF Advance, LockReset, CountEntries, ScanSlot,
             UnlockReset, ring, slots, endpoints, history
<1>4. CASE TryAcquire \/ LeaseGeneration \/ TagBlock \/ CheckPublish \/ StoreReady \/ DropLease
           \/ \E n \in 0 .. BlockFrames : Fill(n)
  <2> USE Shapes, <1>0 DEF Go, ProducerOwns, Leased, RecyclePlaces, ring, history, Endpoints
  <2>1. CASE TryAcquire BY <2>1 DEF TryAcquire, LooksOpen
  <2>2. CASE LeaseGeneration BY <2>2 DEF LeaseGeneration
  <2>3. CASE TagBlock BY <2>3 DEF TagBlock, Emptied
  <2>4. CASE CheckPublish BY <2>4 DEF CheckPublish
  <2>5. CASE StoreReady BY <2>5 DEF StoreReady
  <2>6. CASE DropLease BY <2>6 DEF DropLease
  <2>7. ASSUME NEW n \in 0 .. BlockFrames, Fill(n) PROVE ProducerOwns'
    BY <2>7 DEF Fill
  <2> QED BY <1>4, <2>1, <2>2, <2>3, <2>4, <2>5, <2>6, <2>7
<1>5. CASE SeekBlock \/ TakeBlock \/ CheckBlock \/ CopyFrames \/ ResetTimeline
           \/ \E n \in 1 .. MaxRequest : StartRender(n)
  <2>1. UNCHANGED <<ring, tag, published, at["producer"], next["producer"]>>
    BY <1>5, Shapes DEF SeekBlock, LooksOpen, TakeBlock, CheckBlock, CopyFrames, StartRender,
       ResetTimeline, Go, history
  <2> QED BY <2>1, <1>f DEF ring
<1>6. ASSUME NEW c \in Coordinators, NEW g \in Generations, RequestAdvance(c, g)
      PROVE ProducerOwns'
  BY <1>6, <1>f DEF RequestAdvance, ring, endpoints, history
<1>7. CASE UNCHANGED vars
  BY <1>7, <1>f DEF vars, ring, endpoints, history
<1> QED BY <1>1, <1>2, <1>3, <1>4, <1>5, <1>6, <1>7 DEF Next, Producer, Consumer, Render

LEMMA ConsumerOwnsStep == OInv /\ [Next]_vars => ConsumerOwns'
<1> SUFFICES ASSUME OInv, [Next]_vars PROVE ConsumerOwns' OBVIOUS
<1>0. ConsumerOwns BY DEF OInv
<1>f. ASSUME UNCHANGED <<at["consumer"], next["consumer"], tag["consumer"], generation, active>>,
             \A s \in Slots : state[s] = "Reading" => state'[s] = "Reading"
      PROVE ConsumerOwns'
  BY <1>0, <1>f, Shapes DEF ConsumerOwns
<1>1. CASE EndpointSteps("consumer")
  <2> USE Shapes, <1>0 DEF Go, Endpoints, ConsumerOwns, FencePlaces, history, ring, slots
  <2>1. CASE Announce("consumer") BY <2>1 DEF Announce
  <2>2. CASE Recheck("consumer") BY <2>2 DEF Recheck
  <2>3. CASE Claim("consumer")
    <3>1. CASE at' = [at EXCEPT !["consumer"] = "Claimed"]
               /\ state' = [state EXCEPT ![next["consumer"]] = Owned["consumer"]]
      BY <2>3, <3>1 DEF Claim, Owned
    <3>2. CASE at' = [at EXCEPT !["consumer"] = "Missed"] /\ state' = state
      BY <2>3, <3>2 DEF Claim
    <3> QED BY <2>3, <3>1, <3>2 DEF Claim
  <2>4. CASE LeaveFence("consumer")
    <3>1. at'["consumer"] = IF at["consumer"] = "Claimed" THEN "Owner" ELSE "Idle"
      BY <2>4 DEF LeaveFence
    <3>2. active = NoBlock /\ UNCHANGED <<active, state, next>>
      BY <2>4 DEF LeaveFence
    <3> QED BY <3>1, <3>2
  <2>5. CASE ReadGeneration("consumer") BY <2>5 DEF ReadGeneration
  <2>6. CASE ResetBlock("consumer")
    <3>1. at'["consumer"] = "Vacating" /\ UNCHANGED <<active, state>>
      BY <2>6 DEF ResetBlock
    <3> QED BY <3>1
  <2>7. CASE Vacate("consumer")
    <3>1. active' = NoBlock /\ at'["consumer"] \in {"Render", "Idle"}
      BY <2>7 DEF Vacate
    <3> QED BY <3>1
  <2> QED BY <1>1, <2>1, <2>2, <2>3, <2>4, <2>5, <2>6, <2>7 DEF EndpointSteps
<1>2. CASE EndpointSteps("producer")
  <2>1. at'["consumer"] = at["consumer"]
    BY <1>2, Shapes DEF EndpointSteps, Announce, Recheck, Claim, LeaveFence, ReadGeneration,
       ResetBlock, Vacate, Go
  <2>2. UNCHANGED <<next, tag["consumer"], generation, active>>
    BY <1>2, Shapes DEF EndpointSteps, Announce, Recheck, Claim, LeaveFence, ReadGeneration,
       ResetBlock, Vacate, ring
  <2>3. CASE Claim("producer")
    <3>0. Before["producer"] = "Vacant"
      BY DEF Before
    <3>1. \/ state' = state
          \/ /\ state[next["producer"]] = "Vacant"
             /\ state' = [state EXCEPT ![next["producer"]] = Owned["producer"]]
      BY <2>3, <3>0 DEF Claim
    <3>2. \A s \in Slots : state[s] = "Reading" => state'[s] = "Reading"
      BY <3>1, Shapes
    <3> QED BY <3>2, <2>1, <2>2, <1>f
  <2>4. CASE Vacate("producer")
    <3>1. state' = [state EXCEPT ![next["producer"]] = "Vacant"]
      BY <2>4 DEF Vacate, Recycled
    <3>2. state[next["producer"]] # "Reading"
      BY <2>4 DEF Vacate, OInv, ProducerOwns, RecyclePlaces
    <3>3. \A s \in Slots : state[s] = "Reading" => state'[s] = "Reading"
      BY <3>1, <3>2, Shapes
    <3> QED BY <3>3, <2>1, <2>2, <1>f
  <2>5. CASE UNCHANGED state
    BY <2>1, <2>2, <2>5, <1>f
  <2> QED BY <1>2, <2>3, <2>4, <2>5 DEF EndpointSteps, Announce, Recheck, LeaveFence,
             ReadGeneration, ResetBlock, ring, slots
<1>3. ASSUME NEW c \in Coordinators, Advance(c) PROVE ConsumerOwns'
  <2>1. CASE ClearSlot(c)
    <3>1. active = NoBlock /\ at["consumer"] \notin {"Claimed", "Owner"} \cup RecyclePlaces
      BY <2>1, ClearingIsAlone DEF ClearSlot
    <3> QED BY <2>1, <3>1 DEF ClearSlot, endpoints, ConsumerOwns, RecyclePlaces
  <2>2. CASE StoreGeneration(c)
    <3>1. active = NoBlock /\ at["consumer"] \notin {"Claimed", "Owner"} \cup RecyclePlaces
      BY <2>2, ClearingIsAlone DEF StoreGeneration
    <3> QED BY <2>2, <3>1 DEF StoreGeneration, endpoints, ConsumerOwns, RecyclePlaces
  <2> QED BY <1>3, <2>1, <2>2, <1>f DEF Advance, LockReset, CountEntries, ScanSlot,
             UnlockReset, ring, slots, endpoints
<1>4. CASE TryAcquire \/ LeaseGeneration \/ TagBlock \/ CheckPublish \/ StoreReady \/ DropLease
           \/ \E n \in 0 .. BlockFrames : Fill(n)
  <2>1. UNCHANGED <<at["consumer"], next["consumer"], tag["consumer"], generation, active>>
    BY <1>4, Shapes DEF TryAcquire, LooksOpen, LeaseGeneration, TagBlock, CheckPublish,
       StoreReady, DropLease, Fill, Go, ring
  <2>2. CASE StoreReady
    <3>1. state' = [state EXCEPT ![next["producer"]] = "Ready"]
          /\ state[next["producer"]] = "Writing"
      BY <2>2 DEF StoreReady, OInv, ProducerOwns, Leased
    <3>2. \A s \in Slots : state[s] = "Reading" => state'[s] = "Reading"
      BY <3>1, Shapes
    <3> QED BY <2>1, <3>2, <1>f
  <2> QED BY <1>4, <2>1, <2>2, <1>f DEF TryAcquire, LeaseGeneration, TagBlock, CheckPublish,
             DropLease, Fill, ring
<1>5. CASE SeekBlock \/ TakeBlock \/ CheckBlock \/ CopyFrames \/ ResetTimeline
           \/ \E n \in 1 .. MaxRequest : StartRender(n)
  <2> USE Shapes, <1>0 DEF Go, ConsumerOwns, FencePlaces, ring, Endpoints
  <2>1. CASE SeekBlock BY <2>1 DEF SeekBlock, LooksOpen
  <2>2. CASE TakeBlock
    <3>1. active'.slot = next["consumer"] /\ state[next["consumer"]] = "Reading"
          /\ at'["consumer"] = "Checking" /\ UNCHANGED state
      BY <2>2 DEF TakeBlock
    <3> QED BY <3>1
  <2>3. CASE CheckBlock BY <2>3 DEF CheckBlock
  <2>4. CASE CopyFrames
    <3>1. active # NoBlock /\ active'.slot = active.slot /\ UNCHANGED state
      BY <2>4 DEF CopyFrames, OInv, IInv, ConsumerHolds
    <3>2. at'["consumer"] \in {"Recycling", "Idle", "Render"}
      BY <2>4 DEF CopyFrames
    <3> QED BY <3>1, <3>2
  <2>5. CASE ResetTimeline BY <2>5 DEF ResetTimeline
  <2>6. ASSUME NEW n \in 1 .. MaxRequest, StartRender(n) PROVE ConsumerOwns'
    BY <2>6 DEF StartRender
  <2> QED BY <1>5, <2>1, <2>2, <2>3, <2>4, <2>5, <2>6
<1>6. ASSUME NEW c \in Coordinators, NEW g \in Generations, RequestAdvance(c, g)
      PROVE ConsumerOwns'
  BY <1>6, <1>f DEF RequestAdvance, ring, endpoints
<1>7. CASE UNCHANGED vars
  BY <1>7, <1>f DEF vars, ring, endpoints
<1> QED BY <1>1, <1>2, <1>3, <1>4, <1>5, <1>6, <1>7 DEF Next, Producer, Consumer, Render

\* Between the scan and the store of the generation, a cleared slot stays vacant.
LEMMA VacantStays ==
  ASSUME OInv, [Next]_vars, NEW c \in Coordinators, control[c] \in {"Clearing", "Storing"},
         NEW s \in Slots, state[s] = "Vacant"
  PROVE  state'[s] = "Vacant"
<1>1. \A e \in Endpoints : at[e] \notin {"Admitted", "Claimed", "Missed"}
  BY DEF OInv, IInv, Control, FenceHolds
<1>2. at["producer"] # "Publishable"
  BY ClearingIsAlone DEF Leased
<1>3. ASSUME NEW r \in Slots, state' = [state EXCEPT ![r] = "Vacant"] PROVE state'[s] = "Vacant"
  BY <1>3, Shapes
<1>4. ASSUME NEW e \in Endpoints, EndpointSteps(e) PROVE state'[s] = "Vacant"
  <2>1. ~ Claim(e) BY <1>1 DEF Claim
  <2>2. CASE Vacate(e)
    <3>1. Recycled(e) \in Slots
      BY <2>2, Shapes DEF Recycled
    <3> QED BY <2>2, <3>1, <1>3 DEF Vacate
  <2> QED BY <1>4, <2>1, <2>2 DEF EndpointSteps, Announce, Recheck, LeaveFence,
             ReadGeneration, ResetBlock, ring, slots
<1>5. ASSUME NEW d \in Coordinators, Advance(d) PROVE state'[s] = "Vacant"
  <2>1. CASE ClearSlot(d) BY <2>1, <1>3, Shapes DEF ClearSlot
  <2> QED BY <1>5, <2>1 DEF Advance, LockReset, CountEntries, ScanSlot, StoreGeneration,
             UnlockReset, ring, slots
<1>6. ~ StoreReady BY <1>2 DEF StoreReady
<1>7. CASE UNCHANGED vars BY <1>7 DEF vars, ring
<1> QED
  BY <1>4, <1>5, <1>6, <1>7 DEF Next, Producer, Consumer, Render, TryAcquire, LeaseGeneration,
     TagBlock, CheckPublish, DropLease, Fill, SeekBlock, TakeBlock, CheckBlock, CopyFrames,
     StartRender, ResetTimeline, RequestAdvance, ring, Endpoints

LEMMA ClearedVacantStep == OInv /\ [Next]_vars => ClearedVacant'
<1> SUFFICES ASSUME OInv, [Next]_vars PROVE ClearedVacant' OBVIOUS
<1>0. ClearedVacant /\ OneReset /\ SlotCount \in Nat /\ SlotCount >= 2
  BY RingAssumption DEF OInv, IInv, Control
<1>f. ASSUME NEW c \in Coordinators, control[c] \in {"Clearing", "Storing"}
      PROVE  \A s \in Slots : state[s] = "Vacant" => state'[s] = "Vacant"
  BY <1>f, VacantStays
<1>u. ASSUME UNCHANGED <<control, index>> PROVE ClearedVacant'
  BY <1>0, <1>f, <1>u DEF ClearedVacant
<1>1. ASSUME NEW c \in Coordinators, Advance(c) PROVE ClearedVacant'
  <2>m. ASSUME NEW p, p \notin {"Clearing", "Storing"}, Proceed(c, p), UNCHANGED index
        PROVE ClearedVacant'
    <3>1. /\ control'[c] \notin {"Clearing", "Storing"}
          /\ \A d \in Coordinators : d # c => control'[d] = control[d]
      BY <2>m, Shapes DEF Proceed
    <3> QED BY <2>m, <3>1, <1>0, <1>f DEF ClearedVacant
  <2>1. CASE LockReset(c) BY <2>1, <2>m DEF LockReset
  <2>2. CASE CountEntries(c) BY <2>2, <2>m DEF CountEntries
  <2>3. CASE ScanSlot(c)
    <3>1. CASE UNCHANGED index /\ Proceed(c, "Unlocking")
      BY <3>1, <2>m
    <3>2. CASE ~LastSlot(c) /\ Proceed(c, "Scanning") /\ NextSlot(c)
      <4>1. /\ control'[c] = "Scanning"
            /\ \A d \in Coordinators : d # c => control'[d] = control[d] /\ index'[d] = index[d]
        BY <3>2, Shapes DEF Proceed, NextSlot
      <4> QED BY <4>1, <1>0, <1>f DEF ClearedVacant
    <3>3. CASE LastSlot(c) /\ Proceed(c, "Clearing") /\ NextSlot(c)
      <4>1. /\ control'[c] = "Clearing" /\ index'[c] = After(index[c])
            /\ \A d \in Coordinators : d # c => control'[d] = control[d] /\ index'[d] = index[d]
        BY <3>3, Shapes DEF Proceed, NextSlot
      <4>2. After(index[c]) = 0
        BY <3>3, <1>0 DEF After, LastSlot
      <4>3. \A s \in Slots : ~(s < index'[c])
        BY <4>1, <4>2 DEF Slots
      <4> QED BY <4>1, <4>3, <1>0, <1>f DEF ClearedVacant
    <3> QED BY <2>3, <3>1, <3>2, <3>3 DEF ScanSlot
  <2>4. CASE ClearSlot(c)
    <3>0. control[c] = "Clearing" /\ index[c] \in Slots
      BY <2>4, Shapes DEF ClearSlot
    <3>1. \A d \in Coordinators : d # c => control[d] \notin Holders
      BY <3>0, <1>0 DEF OneReset, Holders
    <3>2. \A d \in Coordinators : d # c => control'[d] \notin {"Clearing", "Storing"}
      BY <2>4, <3>1, Shapes DEF ClearSlot, Proceed, Holders
    <3>3. state'[index[c]] = "Vacant" /\ \A s \in Slots : s < index[c] => state'[s] = "Vacant"
      BY <2>4, <3>0, <1>0, <1>f, Shapes DEF ClearSlot, ClearedVacant
    <3>4. CASE LastSlot(c)
      <4>1. control'[c] = "Storing"
        BY <2>4, <3>4, Shapes DEF ClearSlot, Proceed
      <4>2. \A s \in Slots : s < index[c] \/ s = index[c]
        BY <3>0, <3>4, <1>0 DEF LastSlot, Slots
      <4> QED BY <4>1, <4>2, <3>2, <3>3 DEF ClearedVacant
    <3>5. CASE ~LastSlot(c)
      <4>1. control'[c] = "Clearing" /\ index'[c] = After(index[c])
        BY <2>4, <3>5, Shapes DEF ClearSlot, Proceed, NextSlot
      <4>2. After(index[c]) = index[c] + 1
        <5>1. index[c] \in Int /\ 0 <= index[c] /\ index[c] + 1 < SlotCount
          BY <3>0, <3>5, <1>0 DEF LastSlot, Slots
        <5> QED BY <5>1, <1>0 DEF After
      <4>3. \A s \in Slots : s < index'[c] => s < index[c] \/ s = index[c]
        BY <3>0, <4>1, <4>2 DEF Slots
      <4> QED BY <4>1, <4>3, <3>2, <3>3 DEF ClearedVacant
    <3> QED BY <3>4, <3>5
  <2>5. CASE StoreGeneration(c) BY <2>5, <2>m DEF StoreGeneration
  <2>6. CASE UnlockReset(c) BY <2>6, <2>m DEF UnlockReset
  <2> QED BY <1>1, <2>1, <2>2, <2>3, <2>4, <2>5, <2>6 DEF Advance
<1>2. ASSUME NEW c \in Coordinators, NEW g \in Generations, RequestAdvance(c, g)
      PROVE ClearedVacant'
  <2>1. /\ control'[c] = "Locking"
        /\ \A d \in Coordinators : d # c => control'[d] = control[d] /\ index'[d] = index[d]
    BY <1>2, Shapes DEF RequestAdvance, Proceed
  <2> QED BY <2>1, <1>0, <1>f DEF ClearedVacant
<1>3. CASE Producer
  BY <1>3, <1>u DEF Producer, EndpointSteps, Announce, Recheck, Claim, LeaveFence,
     ReadGeneration, ResetBlock, Vacate, TryAcquire, LeaseGeneration, TagBlock, CheckPublish,
     StoreReady, DropLease, Fill, coordinators
<1>4. CASE Consumer
  BY <1>4, <1>u DEF Consumer, Render, EndpointSteps, Announce, Recheck, Claim, LeaveFence,
     ReadGeneration, ResetBlock, Vacate, SeekBlock, TakeBlock, CheckBlock, CopyFrames,
     StartRender, ResetTimeline, coordinators
<1>5. CASE UNCHANGED vars
  BY <1>5, <1>u DEF vars, coordinators
<1> QED BY <1>1, <1>2, <1>3, <1>4, <1>5 DEF Next

LEMMA BlocksCurrentStep == OInv /\ [Next]_vars => BlocksCurrent'
<1> SUFFICES ASSUME OInv, [Next]_vars PROVE BlocksCurrent' OBVIOUS
<1> DEFINE Heard(s) == state[s] \in {"Ready", "Reading"}
<1>0. BlocksCurrent BY DEF OInv
<1>f. ASSUME UNCHANGED <<generation, published, retired>>,
             \A s \in Slots : state'[s] \in {"Ready", "Reading"} =>
               /\ Heard(s) /\ block'[s].serial = block[s].serial
               /\ block'[s].generation \in {block[s].generation, generation}
      PROVE BlocksCurrent'
  BY <1>0, <1>f DEF BlocksCurrent
<1>p. \A s \in Slots : s = next["producer"] /\ at["producer"] \in {"Claimed", "Owner"} \cup Leased
                                                               \cup RecyclePlaces => ~Heard(s)
  BY Shapes DEF OInv, ProducerOwns
<1>1. ASSUME NEW e \in Endpoints, EndpointSteps(e) PROVE BlocksCurrent'
  <2>1. UNCHANGED <<generation, published, retired>>
    BY <1>1 DEF EndpointSteps, Announce, Recheck, Claim, LeaveFence, ReadGeneration, ResetBlock,
       Vacate, ring, history
  <2>2. CASE Claim(e)
    <3>1. \/ state' = state
          \/ state[next[e]] = Before[e] /\ state' = [state EXCEPT ![next[e]] = Owned[e]]
      BY <2>2 DEF Claim
    <3>2. /\ e = "producer" => Owned[e] = "Writing"
          /\ e = "consumer" => Before[e] = "Ready"
      BY DEF Owned, Before
    <3>3. \A s \in Slots : state'[s] \in {"Ready", "Reading"} => Heard(s)
      BY <3>1, <3>2, Shapes DEF Endpoints
    <3> QED BY <2>1, <2>2, <3>3, <1>f DEF Claim
  <2>3. CASE Vacate(e)
    <3>1. state' = [state EXCEPT ![Recycled(e)] = "Vacant"] /\ block' = block
      BY <2>3 DEF Vacate
    <3>2. \A s \in Slots : state'[s] \in {"Ready", "Reading"} => Heard(s)
      BY <3>1, Shapes
    <3> QED BY <2>1, <3>1, <3>2, <1>f
  <2>4. CASE ResetBlock(e)
    <3>0. state' = state BY <2>4 DEF ResetBlock
    <3>1. CASE e = "producer"
      <4>1. block' = [block EXCEPT ![next["producer"]] = Emptied(next["producer"], tag[e])]
        BY <2>4, <3>1 DEF ResetBlock, Recycled
      <4>2. ~Heard(next["producer"])
        BY <2>4, <3>1, <1>p, Shapes DEF ResetBlock, RecyclePlaces
      <4>3. \A s \in Slots : Heard(s) => block'[s] = block[s]
        BY <4>1, <4>2, Shapes
      <4> QED BY <2>1, <3>0, <4>3, <1>f
    <3>2. CASE e = "consumer"
      <4>1. block' = [block EXCEPT ![active.slot] = Emptied(active.slot, tag["consumer"])]
            /\ active.slot \in Slots
        BY <2>4, <3>2, RecyclesReading DEF ResetBlock, RecyclePlaces
      <4>2. tag["consumer"] = generation
        BY <2>4, <3>2 DEF ResetBlock, OInv, ConsumerOwns
      <4>3. \A s \in Slots : /\ block'[s].serial = block[s].serial
                             /\ block'[s].generation \in {block[s].generation, generation}
        BY <4>1, <4>2, Shapes DEF Emptied
      <4> QED BY <2>1, <3>0, <4>3, <1>f
    <3> QED BY <3>1, <3>2 DEF Endpoints
  <2>5. CASE UNCHANGED <<state, block>>
    BY <2>1, <2>5, <1>f
  <2> QED BY <1>1, <2>2, <2>3, <2>4, <2>5 DEF EndpointSteps, Announce, Recheck, LeaveFence,
             ReadGeneration, ring, slots
<1>2. CASE StoreReady
  <2> DEFINE p == next["producer"]
  <2>1. /\ p \in Slots /\ block[p].generation = generation /\ block[p].serial = published + 1
    BY <1>2, Shapes DEF StoreReady, OInv, ProducerOwns, Leased
  <2>2. /\ state' = [state EXCEPT ![p] = "Ready"] /\ published' = published + 1
        /\ UNCHANGED <<block, generation, retired>>
    BY <1>2 DEF StoreReady
  <2>3. retired <= published /\ published \in Nat /\ retired \in Nat
    BY <1>0, Shapes DEF BlocksCurrent
  <2>4. \A s \in Slots : s # p => state'[s] = state[s]
    BY <2>2, Shapes
  <2> QED BY <2>1, <2>2, <2>3, <2>4, <1>0 DEF BlocksCurrent
<1>3. CASE TagBlock \/ \E n \in 0 .. BlockFrames : Fill(n)
  <2>1. ~Heard(next["producer"])
    BY <1>3, <1>p, Shapes DEF TagBlock, Fill, Leased
  <2>2. \A s \in Slots : s # next["producer"] => block'[s] = block[s]
    BY <1>3, Shapes DEF TagBlock, Fill
  <2>3. UNCHANGED <<state, generation, published, retired>>
    BY <1>3 DEF TagBlock, Fill, history
  <2> QED BY <2>1, <2>2, <2>3, <1>f
<1>4. ASSUME NEW c \in Coordinators, Advance(c) PROVE BlocksCurrent'
  <2>1. CASE ClearSlot(c)
    <3>1. index[c] \in Slots /\ state' = [state EXCEPT ![index[c]] = "Vacant"]
          /\ block' = [block EXCEPT ![index[c]] = Emptied(index[c], requested[c])]
      BY <2>1, Shapes DEF ClearSlot
    <3>2. \A s \in Slots : state'[s] \in {"Ready", "Reading"} => Heard(s) /\ block'[s] = block[s]
      BY <3>1, Shapes
    <3> QED BY <2>1, <3>2, <1>f DEF ClearSlot
  <2>2. CASE StoreGeneration(c)
    <3>1. \A s \in Slots : state'[s] = "Vacant"
      BY <2>2 DEF StoreGeneration, slots, OInv, ClearedVacant
    <3>2. retired' = published /\ published' = published
      BY <2>2 DEF StoreGeneration
    <3> QED BY <3>1, <3>2, Shapes DEF BlocksCurrent
  <2> QED BY <1>4, <2>1, <2>2, <1>f DEF Advance, LockReset, CountEntries, ScanSlot,
             UnlockReset, ring, slots, history
<1>5. CASE UNCHANGED <<ring, published, retired>>
  BY <1>5, <1>f DEF ring
<1> QED BY <1>1, <1>2, <1>3, <1>4, <1>5 DEF Next, Producer, Consumer, Render, TryAcquire,
           LeaseGeneration, CheckPublish, DropLease, SeekBlock, TakeBlock, CheckBlock, CopyFrames,
           StartRender, ResetTimeline, RequestAdvance, vars, history, Endpoints

\* Each endpoint holds the slot its place says it holds, and every block that is ready or
\* being read is of the current generation and was published after its advance.
THEOREM Ownership == Spec => []OInv
<1>1. Init => OInv BY InitOInv
<1>2. OInv /\ [Next]_vars => OInv'
  <2> SUFFICES ASSUME OInv, [Next]_vars PROVE OInv' OBVIOUS
  <2>1. IInv'
    BY TypeStep, CountStep, PlacesStep, ControlStep DEF IInv, OInv
  <2> QED BY <2>1, ProducerOwnsStep, ConsumerOwnsStep, ClearedVacantStep, BlocksCurrentStep
          DEF OInv
<1> QED BY <1>1, <1>2, PTL DEF Spec

\* Only a copy is heard.
LEMMA OnlyCopiesAreHeard ==
  ASSUME [Next]_vars, heard'.upto # heard.upto \/ heard'.serial # heard.serial
  PROVE  CopyFrames
<1>1. ASSUME NEW e \in Endpoints, EndpointSteps(e)
      PROVE FALSE
  BY <1>1 DEF EndpointSteps, Announce, Recheck, Claim, LeaveFence, ReadGeneration,
     ResetBlock, Vacate, history
<1>2. ~(TryAcquire \/ LeaseGeneration \/ TagBlock \/ CheckPublish \/ StoreReady
          \/ DropLease \/ \E n \in 0 .. BlockFrames : Fill(n))
  BY DEF TryAcquire, LeaseGeneration, TagBlock, CheckPublish, StoreReady, DropLease,
     Fill, history
<1>3. ~(SeekBlock \/ TakeBlock \/ CheckBlock \/ \E n \in 1 .. MaxRequest : StartRender(n))
  BY DEF SeekBlock, TakeBlock, CheckBlock, StartRender, history
<1>4. ~ResetTimeline
  BY DEF ResetTimeline
<1>5. ASSUME NEW c \in Coordinators,
             Advance(c) \/ \E g \in Generations : RequestAdvance(c, g)
      PROVE FALSE
  BY <1>5 DEF Advance, LockReset, CountEntries, ScanSlot, ClearSlot, StoreGeneration,
     UnlockReset, RequestAdvance, history
<1>6. ~UNCHANGED vars
  BY DEF vars, history
<1> QED BY <1>1, <1>2, <1>3, <1>4, <1>5, <1>6
          DEF Next, Producer, Consumer, Render, Endpoints

\* No frame of a retired timeline is heard: what the callback copies belongs to the
\* current generation and was published after the advance that began it.
THEOREM RetiredIsSilent == Spec => HeardIsCurrent
<1> DEFINE Current == heard'.serial # heard.serial =>
             block[active.slot].generation = generation /\ heard'.serial > retired
<1>1. OInv /\ [Next]_vars => Current
  <2> SUFFICES ASSUME OInv, [Next]_vars, heard'.serial # heard.serial
               PROVE block[active.slot].generation = generation /\ heard'.serial > retired
    OBVIOUS
  <2>1. CopyFrames BY OnlyCopiesAreHeard
  <2>2. active # NoBlock
    BY <2>1 DEF CopyFrames, OInv, IInv, ConsumerHolds
  <2>3. active.slot \in Slots /\ state[active.slot] = "Reading"
    BY <2>2, Shapes DEF OInv, ConsumerOwns
  <2>4. heard'.serial = block[active.slot].serial
    BY <2>1 DEF CopyFrames
  <2> QED BY <2>3, <2>4 DEF OInv, BlocksCurrent
<1> QED BY <1>1, Ownership, PTL DEF Spec, HeardIsCurrent

--------------------------------------------------------------------------------
(* The blocks that are published and not taken stand in line: from the        *)
(* consumer's slot to the producer's they carry the last serials, and what is *)
(* heard comes from the block before them.                                    *)

\* The slot i places after slot c.
Line(c, i) == IF c + i < SlotCount THEN c + i ELSE c + i - SlotCount

\* The consumer has claimed the first of the line.
Taking == at["consumer"] \in {"Claimed", "Owner"}

\* There are d blocks in line.
LineUp(d) ==
  LET c == next["consumer"] IN
  /\ d \in 0 .. SlotCount /\ d <= published
  /\ next["producer"] = Line(c, d)
  /\ \A i \in 0 .. d - 1 :
       /\ state[Line(c, i)] = "Ready" \/ (i = 0 /\ Taking)
       /\ block[Line(c, i)].serial = published - d + i + 1
       /\ block[Line(c, i)].valid > 0
  /\ \A s \in Slots : state[s] = "Ready" => \E i \in 0 .. d - 1 : s = Line(c, i)
  /\ Taking => d > 0

\* The block that was heard last or retired, and whether it is over.
Last == IF heard.serial > retired THEN heard.serial ELSE retired
Over == heard.ended \/ heard.serial <= retired

\* Block t was taken last: it is over, or the consumer holds it.
HeardTo(t) ==
  IF active = NoBlock \/ at["consumer"] \in RecyclePlaces
  THEN Last = t /\ Over
  ELSE /\ block[active.slot].serial = t
       /\ block[active.slot].valid = active.valid
       /\ active.generation = generation
       /\ active.consumed < active.valid
       /\ at["consumer"] = "Idle" => active.consumed > 0
       /\ IF active.consumed = 0
          THEN t = Last + 1 /\ Over
          ELSE heard.serial = t /\ heard.upto = active.consumed /\ ~heard.ended

\* A callback that looks for frames wants some, and no empty block is published.
Asking == {"Render", "Checking", "Copying", "Owner"} \cup FencePlaces
FramesWanted == at["consumer"] \in Asking => wanted > 0
FramesGiven  == at["producer"] = "Publishable" => block[next["producer"]].valid > 0

InLine == \E d \in Nat : LineUp(d) /\ HeardTo(published - d)
FInv == OInv /\ FramesWanted /\ FramesGiven /\ (~discarded => InLine)

LEMMA LineSlots ==
  ASSUME NEW c \in Slots, NEW i \in 0 .. SlotCount PROVE Line(c, i) \in Slots
BY RingAssumption DEF Slots, Line

LEMMA LineInjective ==
  ASSUME NEW c \in Slots, NEW i \in 0 .. SlotCount - 1, NEW j \in 0 .. SlotCount - 1,
         Line(c, i) = Line(c, j)
  PROVE  i = j
BY RingAssumption DEF Slots, Line

LEMMA LineEnds ==
  ASSUME NEW c \in Slots PROVE Line(c, 0) = c /\ Line(c, SlotCount) = c
BY RingAssumption DEF Slots, Line

LEMMA AfterIsNext ==
  ASSUME NEW s \in Slots PROVE After(s) = IF s + 1 = SlotCount THEN 0 ELSE s + 1
<1>1. SlotCount \in Nat /\ SlotCount >= 2 /\ s \in Int /\ 0 <= s /\ s < SlotCount
  BY RingAssumption DEF Slots
<1>2. CASE s + 1 = SlotCount BY <1>1, <1>2 DEF After
<1>3. CASE s + 1 # SlotCount
  <2>1. 0 <= s + 1 /\ s + 1 < SlotCount BY <1>1, <1>3
  <2> QED BY <1>1, <1>3, <2>1 DEF After
<1> QED BY <1>2, <1>3

LEMMA LineAfter ==
  ASSUME NEW c \in Slots, NEW i \in 0 .. SlotCount - 1
  PROVE  After(Line(c, i)) = Line(c, i + 1) /\ Line(After(c), i) = Line(c, i + 1)
<1>1. SlotCount \in Nat /\ SlotCount >= 2 /\ Line(c, i) \in Slots
  BY RingAssumption, LineSlots
<1> QED BY <1>1, AfterIsNext DEF Slots, Line

\* The types the lemmas below rest on.
LEMMA HeardShapes ==
  ASSUME OInv
  PROVE  /\ heard.serial \in Nat /\ heard.upto \in Nat /\ heard.ended \in BOOLEAN
         /\ active # NoBlock => active \in ActiveBlock
         /\ wanted \in Nat /\ BlockFrames \in Nat /\ SlotCount \in Nat
         /\ \A s \in Slots : block[s].serial \in Nat /\ block[s].valid \in Nat
BY RingAssumption DEF OInv, IInv, TypeOK

LEMMA LineStays ==
  ASSUME OInv, NEW d \in Nat, LineUp(d),
         UNCHANGED <<next, published>>, Taking' <=> Taking,
         \A s \in Slots : state'[s] = "Ready" <=> state[s] = "Ready",
         \A s \in Slots : state[s] = "Ready" \/ (Taking /\ s = next["consumer"])
                            => block'[s] = block[s]
  PROVE  LineUp(d)'
<1> DEFINE c == next["consumer"]
<1>1. c \in Slots /\ Line(c, 0) = c BY Shapes, LineEnds
<1>2. \A i \in 0 .. d - 1 : Line(c, i) \in Slots
  <2>1. \A i \in 0 .. d - 1 : i \in 0 .. SlotCount BY HeardShapes DEF LineUp
  <2> QED BY <1>1, <2>1, LineSlots
<1>3. \A i \in 0 .. d - 1 : block'[Line(c, i)] = block[Line(c, i)]
  BY <1>1, <1>2 DEF LineUp
<1> QED BY <1>2, <1>3 DEF LineUp, Line

LEMMA LineGrows ==
  ASSUME OInv, FramesGiven, StoreReady, NEW d \in Nat, LineUp(d)
  PROVE  LineUp(d + 1)'
<1> DEFINE c == next["consumer"]
           p == next["producer"]
<1>1. /\ c \in Slots /\ p \in Slots /\ SlotCount \in Nat /\ published \in Nat
      /\ state \in [Slots -> {"Vacant", "Writing", "Ready", "Reading"}]
      /\ Line(c, 0) = c /\ Line(c, SlotCount) = c
  BY Shapes, HeardShapes, LineEnds
<1>2. /\ state[p] = "Writing" /\ block[p].serial = published + 1 /\ block[p].valid > 0
  BY DEF StoreReady, OInv, ProducerOwns, Leased, FramesGiven
<1>3. /\ state' = [state EXCEPT ![p] = "Ready"] /\ block' = block
      /\ published' = published + 1 /\ next'["consumer"] = c
      /\ next'["producer"] = After(p) /\ at'["consumer"] = at["consumer"]
  BY Shapes DEF StoreReady, Go
<1>4. p = Line(c, d) /\ d \in 0 .. SlotCount /\ d <= published
  BY DEF LineUp
<1>5. Taking' <=> Taking BY <1>3 DEF Taking
<1>6. Taking => state[c] = "Reading"
  BY DEF OInv, ConsumerOwns, Taking
<1>7. d # SlotCount
  <2> SUFFICES ASSUME d = SlotCount PROVE FALSE OBVIOUS
  <2>1. p = c /\ 0 \in 0 .. d - 1 BY <1>1, <1>4, RingAssumption
  <2>2. state[c] = "Ready" \/ Taking BY <2>1, <1>1 DEF LineUp
  <2> QED BY <2>1, <2>2, <1>2, <1>6
<1>8. \A i \in 0 .. d - 1 : Line(c, i) \in Slots /\ Line(c, i) # p
  BY <1>1, <1>4, <1>7, LineSlots, LineInjective
<1>9. next'["producer"] = Line(c, d + 1)
  BY <1>1, <1>3, <1>4, <1>7, LineAfter
<1>10. ASSUME NEW i \in 0 .. d
       PROVE  /\ state'[Line(c, i)] = "Ready" \/ (i = 0 /\ Taking)
              /\ block[Line(c, i)].serial = published + 1 - (d + 1) + i + 1
              /\ block[Line(c, i)].valid > 0
  <2>1. CASE i = d
    BY <2>1, <1>1, <1>2, <1>3, <1>4
  <2>2. CASE i \in 0 .. d - 1
    BY <2>2, <1>1, <1>3, <1>8 DEF LineUp
  <2> QED BY <2>1, <2>2
<1>11. ASSUME NEW s \in Slots, state'[s] = "Ready" PROVE \E i \in 0 .. d : s = Line(c, i)
  <2>1. CASE s = p BY <2>1, <1>4
  <2>2. CASE s # p
    <3>1. state[s] = "Ready" BY <2>2, <1>1, <1>3, <1>11
    <3>2. PICK i \in 0 .. d - 1 : s = Line(c, i) BY <3>1 DEF LineUp
    <3> QED BY <3>2
  <2> QED BY <2>1, <2>2
<1>12. d + 1 \in 0 .. SlotCount /\ d + 1 <= published + 1 /\ (d + 1) - 1 = d /\ d + 1 > 0
  BY <1>1, <1>4, <1>7
<1> DEFINE e == d + 1
<1>a. published' - e = published + 1 - (d + 1) /\ e - 1 = d BY <1>1, <1>3
<1>b. \A i \in 0 .. e - 1 :
        /\ state'[Line(c, i)] = "Ready" \/ (i = 0 /\ Taking')
        /\ block'[Line(c, i)].serial = published' - e + i + 1
        /\ block'[Line(c, i)].valid > 0
  BY <1>3, <1>5, <1>10, <1>a
<1>c. \A s \in Slots : state'[s] = "Ready" => \E i \in 0 .. e - 1 : s = Line(c, i)
  BY <1>11, <1>a
<1>13. e \in 0 .. SlotCount /\ e <= published' /\ e > 0 /\ next'["producer"] = Line(c, e)
  BY <1>3, <1>9, <1>12
<1> HIDE DEF e, p
<1>14. LineUp(e)' BY <1>3, <1>13, <1>b, <1>c DEF LineUp
<1> QED BY <1>14 DEF e

LEMMA LineShrinks ==
  ASSUME OInv, TakeBlock, NEW d \in Nat, LineUp(d)
  PROVE  d > 0 /\ LineUp(d - 1)'
<1> DEFINE c == next["consumer"]
           n == After(c)
<1>1. /\ c \in Slots /\ n \in Slots /\ SlotCount \in Nat /\ published \in Nat
      /\ Line(c, 0) = c
  BY Shapes, HeardShapes, LineEnds, AfterIsSlot
<1>2. Taking /\ d > 0 /\ d \in 0 .. SlotCount /\ d <= published
  BY DEF TakeBlock, Taking, LineUp
<1>3. /\ UNCHANGED <<state, block, published>> /\ next'["consumer"] = n
      /\ next'["producer"] = next["producer"] /\ at'["consumer"] = "Checking"
  BY Shapes DEF TakeBlock, Go, ring, history
<1>4. ~Taking' BY <1>3 DEF Taking
<1>5. state[c] = "Reading" BY DEF TakeBlock, OInv, ConsumerOwns
<1>6. \A i \in 0 .. d - 1 : Line(n, i) = Line(c, i + 1)
  BY <1>1, <1>2, LineAfter
<1>7. next'["producer"] = Line(n, d - 1)
  BY <1>2, <1>3, <1>6 DEF LineUp
<1>8. ASSUME NEW i \in 0 .. d - 2
      PROVE  /\ state[Line(n, i)] = "Ready"
             /\ block[Line(n, i)].serial = published - (d - 1) + i + 1
             /\ block[Line(n, i)].valid > 0
  <2>1. Line(n, i) = Line(c, i + 1) /\ i + 1 \in 0 .. d - 1 /\ i + 1 # 0
    BY <1>2, <1>6
  <2> HIDE DEF c, n
  <2> QED BY <2>1, <1>1, <1>2 DEF LineUp, c
<1>9. ASSUME NEW s \in Slots, state[s] = "Ready" PROVE \E i \in 0 .. d - 2 : s = Line(n, i)
  <2>1. PICK j \in 0 .. d - 1 : s = Line(c, j) BY <1>9 DEF LineUp
  <2>2. j # 0 BY <2>1, <1>1, <1>5, <1>9
  <2>3. j - 1 \in 0 .. d - 2 /\ j - 1 \in 0 .. d - 1 /\ (j - 1) + 1 = j BY <2>2, <1>2
  <2>4. s = Line(n, j - 1) BY <2>1, <2>3, <1>6
  <2> QED BY <2>3, <2>4
<1>10. d - 1 \in 0 .. SlotCount /\ d - 1 <= published /\ (d - 1) - 1 = d - 2
  BY <1>1, <1>2
<1> QED BY <1>2, <1>3, <1>4, <1>7, <1>8, <1>9, <1>10 DEF LineUp

\* Steps that keep the line as it is.
LEMMA LineKept ==
  ASSUME OInv, [Next]_vars, ~StoreReady, ~TakeBlock, ~discarded', NEW d \in Nat, LineUp(d)
  PROVE  LineUp(d)' /\ published' = published
<1> DEFINE c == next["consumer"]
           p == next["producer"]
<1>1. /\ c \in Slots /\ p \in Slots
      /\ state \in [Slots -> {"Vacant", "Writing", "Ready", "Reading"}]
  BY Shapes
<1>2. /\ at["producer"] \in {"Claimed", "Owner"} \cup Leased => state[p] = "Writing"
      /\ at["producer"] \in RecyclePlaces => state[p] \in {"Writing", "Vacant"}
      /\ Taking => state[c] = "Reading"
  BY DEF OInv, ProducerOwns, ConsumerOwns, Taking
<1>s. ASSUME UNCHANGED <<slots, next, published, at["consumer"]>> PROVE LineUp(d)'
  BY <1>s, LineStays DEF Taking, slots
<1>1a. CASE EndpointSteps("consumer")
  <2>1. CASE Announce("consumer") \/ Recheck("consumer") \/ ReadGeneration("consumer")
    <3>1. ~Taking /\ ~Taking' /\ UNCHANGED <<slots, next, published>>
      BY <2>1, Shapes DEF Announce, Recheck, ReadGeneration, Go, Taking, ring, slots, history
    <3> QED BY <3>1, LineStays DEF slots
  <2>2. CASE Claim("consumer")
    <3>0. /\ Before["consumer"] = "Ready" /\ Owned["consumer"] = "Reading"
          /\ ~Taking /\ UNCHANGED <<block, next, published>>
      BY <2>2 DEF Before, Owned, Claim, Taking, history
    <3>1. CASE state' = state /\ at' = [at EXCEPT !["consumer"] = "Missed"]
      <4>1. ~Taking' BY <3>1, Shapes DEF Taking
      <4> QED BY <3>0, <3>1, <4>1, LineStays
    <3>2. CASE /\ state[c] = "Ready" /\ state' = [state EXCEPT ![c] = "Reading"]
               /\ at' = [at EXCEPT !["consumer"] = "Claimed"]
      <4>1. Taking' BY <3>2, Shapes DEF Taking
      <4>2. Line(c, 0) = c /\ d \in 0 .. SlotCount /\ SlotCount \in Nat
        BY <1>1, LineEnds, HeardShapes DEF LineUp
      <4>3. PICK j \in 0 .. d - 1 : c = Line(c, j) BY <1>1, <3>2 DEF LineUp
      <4>4. d > 0 BY <4>2, <4>3
      <4>5. \A i \in 0 .. d - 1 : i # 0 => Line(c, i) \in Slots /\ Line(c, i) # c
        BY <1>1, <4>2, LineSlots, LineInjective
      <4>6. \A i \in 0 .. d - 1 : state'[Line(c, i)] = "Ready" \/ (i = 0 /\ Taking')
        BY <1>1, <3>0, <3>2, <4>1, <4>5 DEF LineUp
      <4>7. \A s \in Slots : state'[s] = "Ready" => state[s] = "Ready"
        BY <1>1, <3>2
      <4> QED BY <3>0, <4>4, <4>6, <4>7 DEF LineUp, Line
    <3> QED BY <2>2, <3>0, <3>1, <3>2 DEF Claim, Go
  <2>3. CASE LeaveFence("consumer")
    <3>1. (Taking' <=> Taking) /\ UNCHANGED <<slots, next, published>>
      BY <2>3, Shapes DEF LeaveFence, Go, Taking, slots, history
    <3> QED BY <3>1, LineStays DEF slots
  <2>4. CASE ResetBlock("consumer") \/ Vacate("consumer")
    <3>1. Recycled("consumer") = active.slot /\ active.slot \in Slots
          /\ state[active.slot] = "Reading"
      BY <2>4, RecyclesReading DEF ResetBlock, Vacate, RecyclePlaces
    <3>2. ~Taking /\ ~Taking' /\ UNCHANGED <<next, published>>
      BY <2>4, Shapes DEF ResetBlock, Vacate, Go, Taking, history
    <3>3. /\ \A s \in Slots : state'[s] = "Ready" <=> state[s] = "Ready"
          /\ \A s \in Slots : state[s] = "Ready" => block'[s] = block[s]
      BY <2>4, <3>1, <1>1, Shapes DEF ResetBlock, Vacate
    <3> QED BY <3>2, <3>3, LineStays
  <2> QED BY <1>1a, <2>1, <2>2, <2>3, <2>4 DEF EndpointSteps
<1>2a. CASE EndpointSteps("producer")
  <2>1. at'["consumer"] = at["consumer"] /\ UNCHANGED <<next, published>>
    BY <1>2a, Shapes DEF EndpointSteps, Announce, Recheck, Claim, LeaveFence, ReadGeneration,
       ResetBlock, Vacate, Go, history
  <2>2. CASE Claim("producer")
    <3>0. Before["producer"] = "Vacant" /\ Owned["producer"] = "Writing" /\ block' = block
      BY <2>2 DEF Before, Owned, Claim
    <3>1. \A s \in Slots : state'[s] = "Ready" <=> state[s] = "Ready"
      BY <2>2, <3>0, <1>1 DEF Claim
    <3> QED BY <2>1, <3>0, <3>1, LineStays DEF Taking
  <2>3. CASE ResetBlock("producer") \/ Vacate("producer")
    <3>1. Recycled("producer") = p /\ state[p] \in {"Writing", "Vacant"}
      BY <2>3, <1>2 DEF ResetBlock, Vacate, Recycled, RecyclePlaces
    <3>2. /\ \A s \in Slots : state'[s] = "Ready" <=> state[s] = "Ready"
          /\ \A s \in Slots : state[s] \in {"Ready", "Reading"} => block'[s] = block[s]
      BY <2>3, <3>1, <1>1, Shapes DEF ResetBlock, Vacate
    <3> QED BY <2>1, <3>2, <1>2, LineStays DEF Taking
  <2>4. CASE UNCHANGED slots BY <2>1, <2>4, <1>s
  <2> QED BY <1>2a, <2>2, <2>3, <2>4 DEF EndpointSteps, Announce, Recheck, LeaveFence,
             ReadGeneration, ring, slots
<1>3. CASE TagBlock \/ \E n \in 0 .. BlockFrames : Fill(n)
  <2>1. state[p] = "Writing" BY <1>3, <1>2 DEF TagBlock, Fill, Leased
  <2>2. /\ at'["consumer"] = at["consumer"] /\ UNCHANGED <<state, next, published>>
        /\ \A s \in Slots : s # p => block'[s] = block[s]
    BY <1>3, Shapes DEF TagBlock, Fill, Go, history
  <2> QED BY <2>1, <2>2, <1>2, LineStays DEF Taking
<1>4. CASE TryAcquire \/ LeaseGeneration \/ CheckPublish \/ DropLease
  BY <1>4, <1>s, Shapes DEF TryAcquire, LooksOpen, LeaseGeneration, CheckPublish, DropLease, Go,
     ring, slots, history
<1>5. CASE SeekBlock \/ CheckBlock \/ CopyFrames \/ ResetTimeline
           \/ \E n \in 1 .. MaxRequest : StartRender(n)
  <2>1. ~Taking /\ ~Taking' /\ UNCHANGED <<slots, next, published>>
    BY <1>5, Shapes DEF SeekBlock, LooksOpen, CheckBlock, CopyFrames, ResetTimeline, StartRender,
       Go, Taking, ring, slots, history
  <2> QED BY <2>1, LineStays DEF slots
<1>6. ASSUME NEW k \in Coordinators, Advance(k) PROVE LineUp(d)'
  <2>1. CASE ClearSlot(k)
    <3>1. ~Taking /\ index[k] \in Slots /\ UNCHANGED <<at, next, published>>
      BY <2>1, Shapes, ClearingIsAlone DEF ClearSlot, Taking, endpoints
    <3>2. state[index[k]] # "Ready" BY <2>1 DEF ClearSlot
    <3>3. /\ \A s \in Slots : state'[s] = "Ready" <=> state[s] = "Ready"
          /\ \A s \in Slots : state[s] = "Ready" => block'[s] = block[s]
      BY <2>1, <3>1, <3>2, Shapes DEF ClearSlot
    <3> QED BY <3>1, <3>3, LineStays DEF Taking
  <2> QED BY <1>6, <2>1, <1>s DEF Advance, LockReset, CountEntries, ScanSlot, StoreGeneration,
             UnlockReset, ring, slots, endpoints, history
<1>7. ASSUME NEW k \in Coordinators, NEW g \in Generations, RequestAdvance(k, g)
      PROVE LineUp(d)'
  BY <1>7, <1>s DEF RequestAdvance, ring, slots, endpoints, history
<1>8. CASE UNCHANGED vars
  BY <1>8, <1>s DEF vars, ring, slots, endpoints, history
<1>9. published' = published
  BY DEF Next, Producer, Consumer, Render, EndpointSteps, Announce, Recheck, Claim, LeaveFence,
     ReadGeneration, ResetBlock, Vacate, TryAcquire, LeaseGeneration, TagBlock, CheckPublish,
     DropLease, Fill, SeekBlock, CheckBlock, CopyFrames, StartRender, ResetTimeline, Advance,
     LockReset, CountEntries, ScanSlot, ClearSlot, StoreGeneration, UnlockReset, RequestAdvance,
     vars, history
<1> QED BY <1>1a, <1>2a, <1>3, <1>4, <1>5, <1>6, <1>7, <1>8, <1>9
        DEF Next, Producer, Consumer, Render

LEMMA HeardStays ==
  ASSUME OInv, NEW t, HeardTo(t), UNCHANGED <<heard, retired, active, generation>>,
         at'["consumer"] \in RecyclePlaces <=> at["consumer"] \in RecyclePlaces,
         at'["consumer"] = "Idle" => at["consumer"] = "Idle",
         active # NoBlock /\ at["consumer"] \notin RecyclePlaces =>
           block'[active.slot] = block[active.slot]
  PROVE  HeardTo(t)'
BY DEF HeardTo, Last, Over

LEMMA HeardTaken ==
  ASSUME OInv, TakeBlock, NEW d \in Nat, LineUp(d), HeardTo(published - d)
  PROVE  HeardTo(published - (d - 1))'
<1> DEFINE c == next["consumer"]
           t == published - d
<1>1. /\ c \in Slots /\ published \in Nat /\ retired \in Nat /\ Line(c, 0) = c
      /\ heard.serial \in Nat /\ block[c].valid \in Nat
  BY Shapes, HeardShapes, LineEnds
<1>2. active = NoBlock BY DEF TakeBlock, OInv, ConsumerOwns
<1>3. Last = t /\ Over BY <1>2 DEF HeardTo
<1>4. d > 0 /\ 0 \in 0 .. d - 1 BY DEF TakeBlock, Taking, LineUp
<1>5. block[c].serial = t + 1 /\ block[c].valid > 0 BY <1>1, <1>4 DEF LineUp
<1>6. block[c].generation = generation
  BY <1>1 DEF TakeBlock, OInv, ConsumerOwns, BlocksCurrent
<1>7. /\ active' = [slot |-> c, valid |-> block[c].valid, generation |-> block[c].generation,
                    consumed |-> 0]
      /\ at'["consumer"] = "Checking"
      /\ UNCHANGED <<block, generation, heard, retired, published>>
  BY Shapes DEF TakeBlock, Go, ring, history
<1>8. active'.slot = c /\ active'.valid = block[c].valid /\ active'.consumed = 0
      /\ active'.generation = generation
  BY <1>6, <1>7
<1>9. published - (d - 1) = t + 1 BY <1>1
<1>10. at'["consumer"] \notin RecyclePlaces /\ at'["consumer"] # "Idle"
  BY <1>7 DEF RecyclePlaces
<1>11. active' # NoBlock
  <2>1. active' \in ActiveBlock BY TakenBlock DEF OInv
  <2> QED BY <2>1, RingAssumption
<1>12. Last' = Last /\ (Over' <=> Over) BY <1>7 DEF Last, Over
<1> HIDE DEF t, c
<1>13. t + 1 = Last' + 1 /\ Over' BY <1>3, <1>12
<1> QED BY <1>5, <1>7, <1>8, <1>9, <1>10, <1>11, <1>13 DEF HeardTo

\* What a copy makes of the block that is held.
LEMMA CopiedInLine ==
  ASSUME OInv, FramesWanted, CopyFrames, NEW t \in Int, HeardTo(t)
  PROVE  /\ HeardTo(t)'
         /\ Follows
         /\ at'["consumer"] \in Asking => wanted' > 0
<1> DEFINE b == block[active.slot]
           left == IF b.valid > active.consumed THEN b.valid - active.consumed ELSE 0
           copied == IF left < wanted THEN left ELSE wanted
           consumed == active.consumed + copied
<1>1. /\ active # NoBlock /\ active \in ActiveBlock /\ active.slot \in Slots
      /\ at["consumer"] = "Copying" /\ wanted > 0 /\ wanted \in Nat
      /\ state[active.slot] = "Reading"
  BY Shapes, HeardShapes DEF CopyFrames, OInv, IInv, ConsumerHolds, ConsumerOwns, FramesWanted, Asking
<1>2. /\ active.valid \in Nat /\ active.consumed \in Nat
      /\ b.valid = active.valid /\ b.serial = t /\ active.consumed < active.valid
      /\ active.generation = generation
      /\ IF active.consumed = 0
         THEN t = Last + 1 /\ Over
         ELSE heard.serial = t /\ heard.upto = active.consumed /\ ~heard.ended
  BY <1>1, RingAssumption DEF HeardTo, RecyclePlaces, ActiveBlock
<1>3. /\ copied > 0 /\ copied <= wanted /\ copied \in Nat
      /\ consumed \in Nat /\ consumed > 0 /\ consumed <= active.valid
  BY <1>1, <1>2
<1>4. t > retired BY <1>1, <1>2 DEF OInv, BlocksCurrent
<1>5. /\ wanted' = wanted - copied
      /\ active' = [slot |-> active.slot, valid |-> active.valid,
                    generation |-> active.generation, consumed |-> consumed]
      /\ heard' = [serial |-> b.serial, upto |-> consumed, ended |-> consumed >= active.valid]
      /\ IF consumed >= active.valid
         THEN at'["consumer"] = "Recycling"
         ELSE at'["consumer"] = IF copied = wanted THEN "Idle" ELSE "Render"
      /\ UNCHANGED <<block, generation, retired>>
  BY <1>3, Shapes DEF CopyFrames, Go, ring
<1>6. active' # NoBlock
  <2>1. active' \in ActiveBlock BY CopiedFrames DEF OInv
  <2> QED BY <2>1, RingAssumption
<1> HIDE DEF copied, left, consumed, b
<1>7. /\ heard'.serial = t /\ heard'.upto = consumed /\ (heard'.ended <=> consumed >= active.valid)
      /\ active'.slot = active.slot /\ active'.valid = active.valid
      /\ active'.generation = generation' /\ active'.consumed = consumed
  BY <1>2, <1>5
<1>8. HeardTo(t)'
  <2>1. CASE consumed >= active.valid
    <3>1. at'["consumer"] \in RecyclePlaces BY <2>1, <1>5 DEF RecyclePlaces
    <3>2. Last' = t /\ Over' BY <2>1, <1>4, <1>5, <1>7 DEF Last, Over
    <3> QED BY <3>1, <3>2 DEF HeardTo
  <2>2. CASE ~(consumed >= active.valid)
    <3>1. at'["consumer"] \notin RecyclePlaces BY <2>2, <1>5 DEF RecyclePlaces
    <3>2. /\ block'[active'.slot].serial = t /\ block'[active'.slot].valid = active'.valid
          /\ active'.consumed < active'.valid /\ active'.consumed > 0
      BY <2>2, <1>2, <1>3, <1>5, <1>7 DEF b
    <3> QED BY <2>2, <3>1, <3>2, <1>3, <1>6, <1>7 DEF HeardTo
  <2> QED BY <2>1, <2>2
<1>9. Follows
  BY <1>2, <1>7 DEF Follows, NextBlock, Last, Over
<1>10. at'["consumer"] \in Asking => wanted' > 0
  <2>1. at'["consumer"] \in Asking => ~(consumed >= active.valid) /\ copied # wanted
    BY <1>5 DEF Asking, FencePlaces
  <2> QED BY <2>1, <1>1, <1>3, <1>5
<1> QED BY <1>8, <1>9, <1>10

LEMMA HeardKept ==
  ASSUME OInv, FramesWanted, [Next]_vars, ~TakeBlock, ~discarded',
         NEW d \in Nat, LineUp(d), NEW t \in Int, t = published - d, HeardTo(t)
  PROVE  HeardTo(t)'
<1>0. HeardTo(t) /\ published \in Nat /\ retired \in Nat /\ heard.serial \in Nat
  BY Shapes, HeardShapes
<1>a. active # NoBlock => active.slot \in Slots /\ state[active.slot] = "Reading"
  BY Shapes DEF OInv, ConsumerOwns
<1>n. ASSUME active = NoBlock, UNCHANGED <<heard, retired, active>> PROVE HeardTo(t)'
  BY <1>n, <1>0 DEF HeardTo, Last, Over
<1>s. ASSUME UNCHANGED <<heard, retired, active, generation, at["consumer"]>>,
             active # NoBlock => block'[active.slot] = block[active.slot]
      PROVE HeardTo(t)'
  BY <1>s, <1>0, HeardStays
<1>1. CASE EndpointSteps("consumer")
  <2>0. UNCHANGED <<heard, retired, generation>>
    BY <1>1 DEF EndpointSteps, Announce, Recheck, Claim, LeaveFence, ReadGeneration, ResetBlock,
       Vacate, ring, history
  <2>1. CASE Announce("consumer") \/ Recheck("consumer") \/ Claim("consumer")
             \/ LeaveFence("consumer")
    <3>1. active = NoBlock
      BY <2>1 DEF Announce, Recheck, Claim, LeaveFence, OInv, ConsumerOwns, FencePlaces
    <3>2. active' = active BY <2>1 DEF Announce, Recheck, Claim, LeaveFence
    <3> QED BY <2>0, <3>1, <3>2, <1>n
  <2>2. CASE ReadGeneration("consumer") \/ ResetBlock("consumer")
    <3>1. /\ at["consumer"] \in RecyclePlaces /\ at'["consumer"] \in RecyclePlaces
          /\ active' = active
      BY <2>2, Shapes DEF ReadGeneration, ResetBlock, Go, RecyclePlaces
    <3> QED BY <2>0, <3>1, <1>0 DEF HeardTo, Last, Over
  <2>3. CASE Vacate("consumer")
    <3>1. at["consumer"] \in RecyclePlaces /\ active' = NoBlock
      BY <2>3 DEF Vacate, RecyclePlaces
    <3> QED BY <2>0, <3>1, <1>0 DEF HeardTo, Last, Over
  <2> QED BY <1>1, <2>1, <2>2, <2>3 DEF EndpointSteps
<1>2. CASE EndpointSteps("producer") \/ TagBlock \/ \E n \in 0 .. BlockFrames : Fill(n)
  <2>1. UNCHANGED <<heard, retired, active, generation, at["consumer"]>>
    BY <1>2, Shapes DEF EndpointSteps, Announce, Recheck, Claim, LeaveFence, ReadGeneration,
       ResetBlock, Vacate, TagBlock, Fill, Go, ring, history
  <2>2. CASE ResetBlock("producer") \/ TagBlock \/ \E n \in 0 .. BlockFrames : Fill(n)
    <3>1. state[next["producer"]] \in {"Writing", "Vacant"}
      BY <2>2 DEF ResetBlock, TagBlock, Fill, OInv, ProducerOwns, Leased, RecyclePlaces
    <3>2. \A s \in Slots : s # next["producer"] => block'[s] = block[s]
      BY <2>2, Shapes DEF ResetBlock, TagBlock, Fill, Recycled
    <3> QED BY <2>1, <3>1, <3>2, <1>a, <1>s
  <2>3. CASE UNCHANGED block BY <2>1, <2>3, <1>s
  <2> QED BY <1>2, <2>2, <2>3 DEF EndpointSteps, Announce, Recheck, Claim, LeaveFence,
             ReadGeneration, Vacate, ring, slots
<1>3. CASE TryAcquire \/ LeaseGeneration \/ CheckPublish \/ DropLease \/ StoreReady
  BY <1>3, <1>s, Shapes DEF TryAcquire, LooksOpen, LeaseGeneration, CheckPublish, DropLease,
     StoreReady, Go, ring, slots, history
<1>4. CASE SeekBlock
  BY <1>4, <1>n DEF SeekBlock, history
<1>5. CASE CheckBlock
  <2>1. active # NoBlock /\ at["consumer"] \in {"Checking", "Render"}
    BY <1>5 DEF CheckBlock, OInv, IInv, ConsumerHolds
  <2>2. active.generation = generation
    BY <2>1, <1>0 DEF HeardTo, RecyclePlaces
  <2>3. /\ at'["consumer"] \in {"Render", "Copying"}
        /\ UNCHANGED <<heard, retired, active, generation, block>>
    BY <1>5, <2>2, Shapes DEF CheckBlock, Go, ring, history
  <2> QED BY <2>1, <2>3, <1>0, HeardStays DEF RecyclePlaces
<1>6. CASE CopyFrames BY <1>6, <1>0, CopiedInLine
<1>7. CASE \E n \in 1 .. MaxRequest : StartRender(n)
  <2>1. /\ at["consumer"] = "Idle" /\ at'["consumer"] = "Render"
        /\ UNCHANGED <<heard, retired, active, generation, block>>
    BY <1>7, Shapes DEF StartRender, Go, ring, history
  <2> QED BY <2>1, <1>0, HeardStays DEF RecyclePlaces
<1>8. CASE ResetTimeline
  <2>1. /\ at["consumer"] = "Idle" /\ active # NoBlock /\ at'["consumer"] = "Recycling"
        /\ heard' = [serial |-> heard.serial, upto |-> heard.upto, ended |-> TRUE]
        /\ retired' = retired
    BY <1>8, Shapes DEF ResetTimeline, Go
  <2>2. heard.serial = t /\ block[active.slot].serial = t /\ active.consumed > 0
    BY <2>1, <1>0 DEF HeardTo, RecyclePlaces
  <2>3. t > retired BY <2>1, <2>2, <1>a DEF OInv, BlocksCurrent
  <2>4. heard'.serial = t /\ heard'.ended BY <2>1, <2>2
  <2>5. Last' = t /\ Over' BY <2>1, <2>3, <2>4 DEF Last, Over
  <2>6. at'["consumer"] \in RecyclePlaces BY <2>1 DEF RecyclePlaces
  <2> QED BY <2>5, <2>6 DEF HeardTo
<1>9. ASSUME NEW k \in Coordinators, Advance(k) PROVE HeardTo(t)'
  <2>1. CASE ClearSlot(k)
    <3>1. active = NoBlock BY <2>1, ClearingIsAlone DEF ClearSlot
    <3>2. UNCHANGED <<heard, retired, active>> BY <2>1 DEF ClearSlot, endpoints
    <3> QED BY <3>1, <3>2, <1>n
  <2>2. CASE StoreGeneration(k)
    <3>1. active = NoBlock /\ ~Taking
      BY <2>2, ClearingIsAlone DEF StoreGeneration, Taking
    <3>2. \A s \in Slots : state[s] = "Vacant"
      BY <2>2 DEF StoreGeneration, OInv, ClearedVacant
    <3>3. d = 0
      <4> SUFFICES ASSUME d # 0 PROVE FALSE OBVIOUS
      <4>1. 0 \in 0 .. d - 1 /\ Line(next["consumer"], 0) = next["consumer"]
            /\ next["consumer"] \in Slots
        BY Shapes, LineEnds
      <4> QED BY <4>1, <3>1, <3>2 DEF LineUp
    <3>4. t = published /\ Last = t /\ Over BY <3>1, <3>3, <1>0 DEF HeardTo
    <3>5. retired' = t /\ UNCHANGED <<heard, active>>
      BY <2>2, <3>4 DEF StoreGeneration, endpoints
    <3>6. heard.serial <= t BY <3>4, <1>0 DEF Last
    <3>7. Last' = t /\ Over' BY <3>5, <3>6, <1>0 DEF Last, Over
    <3> QED BY <3>1, <3>5, <3>7 DEF HeardTo
  <2> QED BY <1>9, <2>1, <2>2, <1>s DEF Advance, LockReset, CountEntries, ScanSlot, UnlockReset,
             ring, slots, endpoints, history
<1>10. ASSUME NEW k \in Coordinators, NEW g \in Generations, RequestAdvance(k, g)
       PROVE HeardTo(t)'
  BY <1>10, <1>s DEF RequestAdvance, ring, slots, endpoints, history
<1>11. CASE UNCHANGED vars
  BY <1>11, <1>s DEF vars, ring, slots, endpoints, history
<1> QED BY <1>1, <1>2, <1>3, <1>4, <1>5, <1>6, <1>7, <1>8, <1>9, <1>10, <1>11
        DEF Next, Producer, Consumer, Render

LEMMA InitFInv == Init => FInv
<1> SUFFICES ASSUME Init PROVE FInv OBVIOUS
<1>1. FramesWanted /\ FramesGiven
  BY DEF Init, FramesWanted, FramesGiven, Asking, FencePlaces, Endpoints
<1>2. LineUp(0)
  <2>1. SlotCount \in Nat /\ 0 \in Slots /\ Line(0, 0) = 0
    BY RingAssumption, ZeroIsSlot, LineEnds
  <2>2. /\ next["consumer"] = 0 /\ next["producer"] = 0 /\ published = 0 /\ ~Taking
        /\ \A s \in Slots : state[s] = "Vacant"
    BY DEF Init, Endpoints, Taking
  <2> QED BY <2>1, <2>2 DEF LineUp
<1>3. HeardTo(0) /\ published - 0 = 0
  BY DEF Init, HeardTo, Last, Over
<1> QED BY <1>1, <1>2, <1>3, InitOInv DEF FInv, InLine

LEMMA AskingStep == FInv /\ [Next]_vars => FramesWanted'
<1> SUFFICES ASSUME FInv, [Next]_vars PROVE FramesWanted' OBVIOUS
<1> USE DEF FramesWanted
<1>0. OInv /\ FramesWanted BY DEF FInv
<1>s. ASSUME wanted' = wanted,
             at'["consumer"] \in Asking => at["consumer"] \in Asking
      PROVE FramesWanted'
  BY <1>0, <1>s
<1>1. CASE EndpointSteps("consumer")
  <2>1. CASE Announce("consumer") \/ Recheck("consumer") \/ Claim("consumer")
    BY <2>1, <1>s, <1>0, Shapes DEF Announce, Recheck, Claim, Go, Asking, FencePlaces
  <2>2. CASE LeaveFence("consumer")
    <3>1. CASE at["consumer"] = "Claimed"
      BY <2>2, <3>1, <1>s, <1>0, Shapes DEF LeaveFence, Go, Asking, FencePlaces
    <3>2. CASE at["consumer"] # "Claimed"
      BY <2>2, <3>2, <1>0, Shapes DEF LeaveFence, Go, Asking, FencePlaces
    <3> QED BY <3>1, <3>2
  <2>3. CASE ReadGeneration("consumer") \/ ResetBlock("consumer")
    BY <2>3, <1>0, Shapes DEF ReadGeneration, ResetBlock, Go, Asking, FencePlaces
  <2>4. CASE Vacate("consumer")
    BY <2>4, <1>0, Shapes DEF Vacate, Go, Asking, FencePlaces
  <2> QED BY <1>1, <2>1, <2>2, <2>3, <2>4 DEF EndpointSteps
<1>2. CASE Producer
  <2>1. wanted' = wanted /\ at'["consumer"] = at["consumer"]
    BY <1>2, <1>0, Shapes DEF Producer, EndpointSteps, Announce, Recheck, Claim, LeaveFence,
       ReadGeneration, ResetBlock, Vacate, TryAcquire, LooksOpen, LeaseGeneration, TagBlock,
       CheckPublish, StoreReady, DropLease, Fill, Go
  <2> QED BY <2>1, <1>s
<1>3. CASE SeekBlock \/ TakeBlock \/ CheckBlock \/ ResetTimeline
  <2>1. CASE SeekBlock
    BY <2>1, <1>0, Shapes DEF SeekBlock, LooksOpen, Go, Asking, FencePlaces
  <2>2. CASE TakeBlock
    BY <2>2, <1>0, Shapes DEF TakeBlock, Go, Asking
  <2>3. CASE CheckBlock
    BY <2>3, <1>0, Shapes DEF CheckBlock, Go, Asking
  <2>4. CASE ResetTimeline
    BY <2>4, <1>0, Shapes DEF ResetTimeline, Go, Asking, FencePlaces
  <2> QED BY <1>3, <2>1, <2>2, <2>3, <2>4
<1>4. CASE CopyFrames
  <2> DEFINE b == block[active.slot]
             left == IF b.valid > active.consumed THEN b.valid - active.consumed ELSE 0
             copied == IF left < wanted THEN left ELSE wanted
  <2>1. wanted \in Nat /\ wanted > 0 /\ left \in Nat /\ copied <= wanted
    <3>1. active \in ActiveBlock /\ active.slot \in Slots
      BY <1>4, <1>0, Shapes, HeardShapes DEF CopyFrames, OInv, IInv, ConsumerHolds
    <3>2. b.valid \in Nat /\ active.consumed \in Nat /\ wanted \in Nat
      BY <3>1, <1>0, HeardShapes, RingAssumption DEF ActiveBlock
    <3> QED BY <1>4, <1>0, <3>2 DEF CopyFrames, Asking
  <2>2. /\ wanted' = wanted - copied
        /\ at'["consumer"] \in {"Recycling", "Idle", "Render"}
        /\ at'["consumer"] = "Render" => copied # wanted
    BY <1>4, <1>0, Shapes DEF CopyFrames, Go
  <2> HIDE DEF copied
  <2>3. copied \in Int BY <2>1 DEF copied
  <2> QED BY <2>1, <2>2, <2>3 DEF Asking, FencePlaces
<1>5. ASSUME NEW n \in 1 .. MaxRequest, StartRender(n) PROVE FramesWanted'
  BY <1>5, RingAssumption DEF StartRender
<1>6. ASSUME NEW k \in Coordinators, Advance(k) \/ \E g \in Generations : RequestAdvance(k, g)
      PROVE FramesWanted'
  BY <1>6, <1>s DEF Advance, LockReset, CountEntries, ScanSlot, ClearSlot, StoreGeneration,
     UnlockReset, RequestAdvance, endpoints
<1>7. CASE UNCHANGED vars BY <1>7, <1>s DEF vars, endpoints
<1> QED BY <1>1, <1>2, <1>3, <1>4, <1>5, <1>6, <1>7 DEF Next, Consumer, Render

LEMMA GivenStep == FInv /\ [Next]_vars => FramesGiven'
<1> SUFFICES ASSUME FInv, [Next]_vars, at'["producer"] = "Publishable"
             PROVE block'[next'["producer"]].valid > 0
  BY DEF FramesGiven
<1> DEFINE p == next["producer"]
<1>0. OInv /\ FramesGiven /\ p \in Slots BY Shapes DEF FInv
<1>1. CASE CheckPublish
  <2>1. Go("producer", "Publishable") /\ block[p].valid > 0
    BY <1>0, <1>1, Shapes DEF CheckPublish, Go
  <2> QED BY <1>1, <2>1 DEF CheckPublish, ring
<1>2. CASE at["producer"] = "Publishable" /\ ~CheckPublish
  <2>1. state[p] = "Writing" /\ block[p].valid > 0
    BY <1>0, <1>2 DEF OInv, ProducerOwns, Leased, FramesGiven
  <2>2. next'["producer"] = p
    <3>1. CASE TakeBlock BY <3>1, <1>0, Shapes DEF TakeBlock
    <3>2. ~StoreReady BY <1>0, Shapes DEF StoreReady, Go
    <3> QED BY <3>1, <3>2 DEF Next, Producer, Consumer, Render, EndpointSteps, Announce, Recheck,
       Claim, LeaveFence, ReadGeneration, ResetBlock, Vacate, TryAcquire, LeaseGeneration, TagBlock,
       CheckPublish, DropLease, Fill, SeekBlock, CheckBlock, CopyFrames, StartRender,
       ResetTimeline, Advance, LockReset, CountEntries, ScanSlot, ClearSlot, StoreGeneration,
       UnlockReset, RequestAdvance, vars, endpoints
  <2>3. CASE EndpointSteps("consumer")
    <3>1. CASE ResetBlock("consumer")
      <4>1. Recycled("consumer") = active.slot /\ active.slot \in Slots
            /\ state[active.slot] = "Reading"
        BY <3>1, <1>0, RecyclesReading DEF ResetBlock, RecyclePlaces
      <4>2. block'[p] = block[p]
        BY <3>1, <4>1, <2>1, <1>0, Shapes DEF ResetBlock
      <4> QED BY <4>2, <2>1, <2>2
    <3>2. CASE block' = block BY <3>2, <2>1, <2>2
    <3> QED BY <2>3, <3>1, <3>2 DEF EndpointSteps, Announce, Recheck, Claim, LeaveFence,
               ReadGeneration, Vacate, ring, slots
  <2>4. ASSUME NEW k \in Coordinators PROVE ~ClearSlot(k)
    BY <2>1, <1>0, ClearingIsAlone DEF ClearSlot
  <2>5. CASE block' = block BY <2>5, <2>1, <2>2
  <2> QED BY <1>2, <2>3, <2>4, <2>5 DEF Next, Producer, Consumer, Render, EndpointSteps, Announce,
             Recheck, Claim, LeaveFence, ReadGeneration, ResetBlock, Vacate, TryAcquire,
             LeaseGeneration, TagBlock, CheckPublish, StoreReady, DropLease, Fill, SeekBlock,
             TakeBlock, CheckBlock, CopyFrames, StartRender, ResetTimeline, Advance, LockReset,
             CountEntries, ScanSlot, StoreGeneration, UnlockReset, RequestAdvance, vars, ring, slots
<1>3. CASE at["producer"] # "Publishable" /\ ~CheckPublish
  <2>1. ASSUME NEW e \in Endpoints, EndpointSteps(e) PROVE FALSE
    BY <2>1, <1>0, <1>3, Shapes DEF EndpointSteps, Announce, Recheck, Claim, LeaveFence,
       ReadGeneration, ResetBlock, Vacate, Go, Endpoints
  <2>2. ~(TryAcquire \/ LeaseGeneration \/ TagBlock \/ StoreReady \/ DropLease
            \/ \E n \in 0 .. BlockFrames : Fill(n))
    BY <1>0, <1>3, Shapes DEF TryAcquire, LooksOpen, LeaseGeneration, TagBlock, StoreReady,
       DropLease, Fill, Go
  <2>3. ~(SeekBlock \/ TakeBlock \/ CheckBlock \/ CopyFrames \/ ResetTimeline
            \/ \E n \in 1 .. MaxRequest : StartRender(n))
    BY <1>0, <1>3, Shapes DEF SeekBlock, LooksOpen, TakeBlock, CheckBlock, CopyFrames,
       ResetTimeline, StartRender, Go
  <2>4. at' # at
    BY <1>3
  <2> QED BY <2>1, <2>2, <2>3, <2>4, <1>3 DEF Next, Producer, Consumer, Render, Advance, LockReset,
             CountEntries, ScanSlot, ClearSlot, StoreGeneration, UnlockReset, RequestAdvance, vars,
             endpoints, Endpoints
<1> QED BY <1>1, <1>2, <1>3

LEMMA InLineStep == FInv /\ [Next]_vars /\ ~discarded' => InLine'
<1> SUFFICES ASSUME FInv, [Next]_vars, ~discarded' PROVE InLine' OBVIOUS
<1>1. ~discarded
  BY DEF Next, Producer, Consumer, Render, EndpointSteps, Announce, Recheck, Claim, LeaveFence,
     ReadGeneration, ResetBlock, Vacate, TryAcquire, LeaseGeneration, TagBlock, CheckPublish,
     StoreReady, DropLease, Fill, SeekBlock, TakeBlock, CheckBlock, CopyFrames, StartRender,
     ResetTimeline, Advance, LockReset, CountEntries, ScanSlot, ClearSlot, StoreGeneration,
     UnlockReset, RequestAdvance, vars, history
<1>2. PICK d \in Nat : LineUp(d) /\ HeardTo(published - d)
  BY <1>1 DEF FInv, InLine
<1>3. OInv /\ FramesWanted /\ FramesGiven /\ published \in Nat
  BY Shapes DEF FInv
<1>t. PICK t \in Int : t = published - d
  BY <1>3
<1>h. HeardTo(t)
  BY <1>2, <1>t
<1>4. CASE TakeBlock
  <2>1. d > 0 /\ LineUp(d - 1)' /\ HeardTo(published - (d - 1))'
    BY <1>2, <1>3, <1>4, LineShrinks, HeardTaken
  <2> DEFINE e == d - 1
  <2>2. e \in Nat /\ LineUp(e)' /\ HeardTo(published - e)' BY <2>1
  <2> HIDE DEF e
  <2> QED BY <2>2 DEF InLine
<1>5. CASE StoreReady
  <2>1. LineUp(d + 1)' /\ published' = published + 1
    BY <1>2, <1>3, <1>5, LineGrows DEF StoreReady
  <2>2. HeardTo(t)'
    <3>1. ~TakeBlock BY <1>3, <1>5 DEF StoreReady, TakeBlock, history
    <3> QED BY <1>1, <1>2, <1>3, <1>t, <1>h, <3>1, HeardKept
  <2>3. PICK e \in Nat : e = d + 1
    OBVIOUS
  <2>4. LineUp(e)' BY <2>1, <2>3
  <2>5. published' - e = t BY <1>3, <1>t, <2>1, <2>3
  <2>6. HeardTo(published - e)' BY <2>2, <2>5
  <2> QED BY <2>4, <2>6 DEF InLine
<1>6. CASE ~TakeBlock /\ ~StoreReady
  <2>1. LineUp(d)' /\ published' = published
    BY <1>2, <1>3, <1>6, LineKept
  <2>2. HeardTo(t)' BY <1>2, <1>3, <1>6, <1>t, <1>h, HeardKept
  <2>3. published' - d = t BY <1>t, <2>1
  <2>4. HeardTo(published - d)' BY <2>2, <2>3
  <2> QED BY <2>1, <2>4 DEF InLine
<1> QED BY <1>4, <1>5, <1>6

\* As long as no advance throws ready blocks away, the blocks not yet taken stand in
\* line and what is heard comes from the block before them.
THEOREM LineStands == Spec => []FInv
<1>1. Init => FInv BY InitFInv
<1>2. OInv /\ OInv' /\ FInv /\ [Next]_vars => FInv'
  BY AskingStep, GivenStep, InLineStep DEF FInv
<1>3. FInv => OInv BY DEF FInv
<1> QED BY <1>1, <1>2, <1>3, Ownership, PTL DEF Spec

\* Frames are heard in the order in which they were published, without a gap and none
\* twice, for any slots, lengths of blocks and callbacks, and wherever the worker and
\* the callback meet an advance, as long as it throws no ready block away.
THEOREM FramesStayInOrder == Spec => FramesFollow
<1>1. FInv /\ [Next]_vars
        => [heard'.upto # heard.upto \/ heard'.serial # heard.serial
              => discarded \/ Follows]_vars
  <2> SUFFICES ASSUME FInv, [Next]_vars, ~discarded,
                      heard'.upto # heard.upto \/ heard'.serial # heard.serial
               PROVE Follows
    OBVIOUS
  <2>1. CopyFrames BY OnlyCopiesAreHeard
  <2>2. PICK d \in Nat : LineUp(d) /\ HeardTo(published - d)
    BY DEF FInv, InLine
  <2>3. OInv /\ FramesWanted /\ published - d \in Int
    BY Shapes DEF FInv
  <2> QED BY <2>1, <2>2, <2>3, CopiedInLine
<1> QED BY <1>1, LineStands, PTL DEF Spec, FramesFollow
==============================================================================
