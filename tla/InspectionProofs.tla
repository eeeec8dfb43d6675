-------------------------- MODULE InspectionProofs --------------------------
(***************************************************************************)
(* What an operator may conclude from an empty queue, for any number of    *)
(* jobs, workers, passes, deaths and inspections.                          *)
(***************************************************************************)
EXTENDS Inspection, RuntimeGridProofs, FiniteSetTheorems

\* The jobs an inspection remembers are jobs; what it said of them stays true.
DInv ==
  /\ IInv
  /\ known \subseteq Jobs
  /\ EmptyQueueMeansDone

\* A depth of zero: every entry was delivered and acknowledged.
LEMMA EmptyDepth ==
  ASSUME QueueTypeOK, consumer_group_depth = 0
  PROVE  \A i \in Entries : ~Unacked(i)
<1>1. IsFiniteSet(pel) /\ Cardinality(pel) \in Nat
  <2>1. IsFiniteSet(1 .. delivered)
    BY FS_Interval DEF QueueTypeOK
  <2> QED
    BY <2>1, FS_Subset, FS_CardinalityType DEF QueueTypeOK
<1>2. Cardinality(pel) = 0 /\ delivered = Len(stream)
  <2>1. Len(stream) \in Nat /\ delivered \in Nat /\ delivered <= Len(stream)
    BY DEF QueueTypeOK
  <2> QED
    BY <1>1, <2>1 DEF consumer_group_depth
<1>3. pel = {}
  BY <1>1, <1>2, FS_EmptySet
<1> QED
  BY <1>2, <1>3 DEF Entries, Unacked, QueueTypeOK

\* The invariant holds before anything was looked at.
LEMMA InitDInv == IInit => DInv
  BY InitIInv DEF IInit, DInv, EmptyQueueMeansDone

\* Decided jobs stay decided, and an inspection that finds nothing unacknowledged
\* finds no published job undecided, because no work is ever lost.
LEMMA NextDInv == DInv /\ [INext]_ivars => DInv'
<1> SUFFICES ASSUME DInv, [INext]_ivars PROVE DInv'
  OBVIOUS
<1>1. [Next]_vars
  BY DEF INext, ivars, inspect_queue_backpressure
<1>2. IInv'
  BY <1>1, NextIInv DEF DInv
<1>3. CASE UNCHANGED inspectionVars
  <2>1. TypeOK /\ StoreEffect
    BY <1>1, StepEffects DEF DInv, IInv
  <2>2. \A j \in Jobs : Finalized(j) => Finalized(j)'
    BY <2>1, FinalizationStays
  <2> QED
    BY <1>2, <1>3, <2>2 DEF DInv, EmptyQueueMeansDone, inspectionVars, DispatchAllowed
<1>4. CASE inspect_queue_backpressure
  <2>1. known' \subseteq Jobs
    BY <1>4 DEF inspect_queue_backpressure
  <2>2. ASSUME queue_depth' = 0, NEW j \in known', DispatchAllowed(j)
        PROVE  Finalized(j)'
    <3>1. QueueTypeOK /\ WorkNotLost /\ consumer_group_depth = 0
      BY <1>4, <2>2 DEF DInv, IInv, TypeOK, inspect_queue_backpressure
    <3>2. ~HasUnackedEntry(j)
      BY <3>1, EmptyDepth DEF HasUnackedEntry
    <3>3. Finalized(j)
      BY <1>4, <2>2, <3>1, <3>2 DEF WorkNotLost, inspect_queue_backpressure
    <3> QED
      BY <1>4, <3>3 DEF inspect_queue_backpressure, vars, storeVars, Finalized
  <2> QED
    BY <1>2, <2>1, <2>2 DEF DInv, EmptyQueueMeansDone, DispatchAllowed
<1> QED
  BY <1>3, <1>4 DEF INext, ivars

\* An inspection that reports an empty queue proves the work done: every job
\* published by then that may be dispatched is finalized, and stays so.
THEOREM EmptyQueueIsDone == ISpec => []EmptyQueueMeansDone
<1>1. DInv => EmptyQueueMeansDone
  BY DEF DInv
<1> QED
  BY <1>1, InitDInv, NextDInv, PTL DEF ISpec

=============================================================================
