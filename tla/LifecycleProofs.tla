--------------------------- MODULE LifecycleProofs ---------------------------
(***************************************************************************)
(* Two more theorems about RuntimeGrid, from the effects of a step proved  *)
(* in RuntimeGridProofs: the event log has one terminal event per decided  *)
(* job, and the runtime implements JobLifecycle.                           *)
(***************************************************************************)
EXTENDS RuntimeGridProofs

-----------------------------------------------------------------------------
(* One terminal event *)

\* The events of job k, and which of them are terminal, after an append for j.
LEMMA AppendedEvent ==
  ASSUME TypeOK, NEW j \in Jobs, NEW type \in EventTypes, NEW a \in Nat,
         NEW b \in Nat, AppendEvent(j, type, a, b), NEW k \in Jobs
  PROVE  /\ k # j => events'[k] = events[k]
         /\ k = j =>
              /\ DOMAIN events'[k] = DOMAIN events[k] \cup {Len(events[k]) + 1}
              /\ Len(events[k]) + 1 \notin DOMAIN events[k]
              /\ events'[k][Len(events[k]) + 1].type = type
              /\ \A n \in DOMAIN events[k] : events'[k][n] = events[k][n]
<1>1. events \in [Jobs -> Seq(Event)]
  BY DEF TypeOK, StoreTypeOK
<1>2. k # j => events'[k] = events[k]
  BY <1>1 DEF AppendEvent
<1>3. CASE k = j
  <2> DEFINE e == [type |-> type, attempt |-> a, by |-> b]
             s == events[k]
  <2>1. e.type = type
    OBVIOUS
  <2>2. events'[k] = Append(s, e) /\ s \in Seq(Event) /\ e \in Event
    BY <1>1, <1>3 DEF AppendEvent, Event
  <2> HIDE DEF e, s
  <2>3. /\ DOMAIN Append(s, e) = DOMAIN s \cup {Len(s) + 1}
        /\ Len(s) + 1 \notin DOMAIN s
        /\ Append(s, e)[Len(s) + 1] = e
        /\ \A n \in DOMAIN s : Append(s, e)[n] = s[n]
    BY <2>2
  <2> QED
    BY <1>3, <2>1, <2>2, <2>3 DEF s
<1> QED
  BY <1>2, <1>3

\* A step of the runtime never appends a second terminal event: finalize_job
\* finds the row of job_finalizations, or inserts it together with the event.
LEMMA NextOneTerminalEvent ==
  ASSUME TypeOK, OneTerminalEvent, StoreEffect
  PROVE  OneTerminalEvent'
<1> DEFINE P(k) ==
      /\ Finalized(k) <=> TerminalEventsOf(k) # {}
      /\ \A n, m \in TerminalEventsOf(k) : n = m
      /\ \A n \in TerminalEventsOf(k) :
           events[k][n].type = finalization[k].event_type
<1>a. /\ finalization \in [Jobs -> Finalization]
      /\ "none" \notin TERMINAL_STATUSES
      /\ TerminalEventTypes \subseteq EventTypes
      /\ "submitted" \in EventTypes \ TerminalEventTypes
      /\ 0 \in Nat
  BY DEF TypeOK, StoreTypeOK, TERMINAL_STATUSES, EventTypes, TerminalEventTypes
<1> SUFFICES ASSUME NEW k \in Jobs PROVE P(k)'
  BY DEF OneTerminalEvent
<1>b. P(k)
  BY DEF OneTerminalEvent
<1>1. CASE finalization'[k] = finalization[k] /\ events'[k] = events[k]
  BY <1>b, <1>1 DEF Finalized, TerminalEventsOf
<1>2. ASSUME finalization'[k] = finalization[k], NEW j \in Jobs,
             NEW type \in EventTypes \ TerminalEventTypes, NEW a \in Nat,
             NEW b \in Nat, AppendEvent(j, type, a, b)
      PROVE  P(k)'
  <2>1. CASE k # j
    BY <1>1, <1>2, <2>1, AppendedEvent
  <2>2. CASE k = j
    <3>1. /\ DOMAIN events'[k] = DOMAIN events[k] \cup {Len(events[k]) + 1}
          /\ events'[k][Len(events[k]) + 1].type = type
          /\ \A n \in DOMAIN events[k] : events'[k][n] = events[k][n]
      BY <1>2, <2>2, AppendedEvent
    <3>2. TerminalEventsOf(k)' = TerminalEventsOf(k)
      BY <1>2, <3>1 DEF TerminalEventsOf
    <3>3. \A n \in TerminalEventsOf(k) : events'[k][n] = events[k][n]
      BY <3>1 DEF TerminalEventsOf
    <3> QED
      BY <1>b, <1>2, <3>2, <3>3 DEF Finalized
  <2> QED
    BY <2>1, <2>2
<1>3. ASSUME NEW j \in Jobs, NEW st \in TERMINAL_STATUSES,
             NEW type \in TerminalEventTypes, NEW a \in Nat, NEW b \in Nat,
             finalize_job(j, st, type, a, b)
      PROVE  P(k)'
  <2>1. CASE Finalized(j)
    BY <1>1, <1>3, <2>1 DEF finalize_job
  <2>2. CASE ~Finalized(j)
    <3>1. /\ finalization' = [finalization EXCEPT
                                ![j] = [status |-> st, event_type |-> type]]
          /\ AppendEvent(j, type, a, b)
      BY <1>3, <2>2 DEF finalize_job
    <3>2. CASE k # j
      BY <1>a, <1>1, <1>3, <3>1, <3>2, AppendedEvent
    <3>3. CASE k = j
      <4>1. /\ DOMAIN events'[k] = DOMAIN events[k] \cup {Len(events[k]) + 1}
            /\ Len(events[k]) + 1 \notin DOMAIN events[k]
            /\ events'[k][Len(events[k]) + 1].type = type
            /\ \A n \in DOMAIN events[k] : events'[k][n] = events[k][n]
        BY <1>a, <1>3, <3>1, <3>3, AppendedEvent
      <4>2. TerminalEventsOf(k) = {}
        BY <1>b, <2>2, <3>3
      <4>3. TerminalEventsOf(k)' = {Len(events[k]) + 1}
        BY <4>1, <4>2 DEF TerminalEventsOf
      <4>4. finalization'[k].status = st /\ finalization'[k].event_type = type
        BY <1>a, <3>1, <3>3
      <4> QED
        BY <1>a, <4>1, <4>3, <4>4 DEF Finalized
    <3> QED
      BY <3>2, <3>3
  <2> QED
    BY <2>1, <2>2
<1>4. CASE TablesUnchanged
  BY <1>1, <1>4 DEF TablesUnchanged
<1>5. ASSUME NEW j \in Jobs, create_job(j) PROVE P(k)'
  BY <1>a, <1>2, <1>5 DEF create_job
<1>6. ASSUME NEW j \in Jobs, NEW st \in {"queued", "running"},
             NEW type \in EventTypes \ TerminalEventTypes, NEW a \in Nat,
             NEW b \in Nat, record_state_event(j, st, type, a, b)
      PROVE  P(k)'
  BY <1>2, <1>6 DEF record_state_event
<1> QED
  BY <1>3, <1>4, <1>5, <1>6 DEF StoreEffect

\* However finalizations race, a job is finalized exactly when its log holds a
\* terminal event, and the log never holds a second one.
THEOREM OneTerminalEventTheorem == Spec => []OneTerminalEvent
<1>1. Init => OneTerminalEvent
  <2> SUFFICES ASSUME Init, NEW j \in Jobs
               PROVE  ~Finalized(j) /\ TerminalEventsOf(j) = {}
    BY DEF OneTerminalEvent
  <2>1. events[j] = <<>> /\ finalization[j] = NotFinalized
    BY DEF Init, StoreInit
  <2>2. DOMAIN events[j] = {}
    BY <2>1
  <2> QED
    BY <2>1, <2>2 DEF TerminalEventsOf, Finalized, NotFinalized
<1>2. IInv /\ OneTerminalEvent /\ [Next]_vars => OneTerminalEvent'
  BY StepEffects, NextOneTerminalEvent DEF IInv
<1> QED
  BY <1>1, <1>2, Invariance, PTL DEF Spec

-----------------------------------------------------------------------------
(* Refinement *)

\* Which jobs are owed a look after each of the queue's commands.
LEMMA OwedAfterPublish ==
  ASSUME QueueTypeOK, QueueEffect, NEW j \in Jobs, NEW a \in Nat,
         publish_job(j, a), NEW k \in Jobs
  PROVE  HasUnackedEntry(k)' <=> HasUnackedEntry(k) \/ k = j
<1>1. PICK n \in Entries' :
        Entries' = Entries \cup {n} /\ stream'[n].job = j /\ Unacked(n)'
  BY PublishedIsUnacked
<1>2. \A i \in Entries : stream'[i] = stream[i] /\ (Unacked(i)' <=> Unacked(i))
  BY EntriesStay DEF publish_job, Unacked
<1> QED
  BY <1>1, <1>2 DEF HasUnackedEntry

\* Delivering an entry (XREADGROUP) moves it to the pending list: its job is
\* owed a look as before.
LEMMA OwedAfterLease ==
  ASSUME QueueTypeOK, lease_jobs, NEW k \in Jobs
  PROVE  HasUnackedEntry(k)' <=> HasUnackedEntry(k)
<1>1. \A i \in Entries : Unacked(i)' <=> Unacked(i)
  BY DEF QueueTypeOK, lease_jobs, Unacked, Entries
<1> QED
  BY <1>1 DEF lease_jobs, HasUnackedEntry, Entries

\* XACK releases at most the job of the entry it names.
LEMMA OwedAfterAcknowledge ==
  ASSUME QueueTypeOK, NEW i \in Entries, acknowledge(i), NEW k \in Jobs
  PROVE  /\ HasUnackedEntry(k)' => HasUnackedEntry(k)
         /\ stream[i].job # k =>
              (HasUnackedEntry(k) => HasUnackedEntry(k)')
         /\ stream[i].job = k /\ Settled(i) /\ ~Finalized(k) /\ DispatchAllowed(k)
              => HasUnackedEntry(k)'
<1>1. /\ Entries' = Entries /\ stream' = stream
      /\ \A m \in Entries : Unacked(m)' => Unacked(m)
      /\ \A m \in Entries : m # i /\ Unacked(m) => Unacked(m)'
      /\ \A m \in Entries : m > i => m # i
  BY DEF QueueTypeOK, acknowledge, Unacked, Entries
<1> QED
  BY <1>1 DEF HasUnackedEntry, Settled

\* A step of the runtime is a step of the abstract lifecycle, or none at all.
LEMMA NextLifecycle ==
  IInv /\ [Next]_vars => [Lifecycle!LNext]_(Lifecycle!lifecycleVars)
<1> DEFINE outcome == [j \in Jobs |-> finalization[j].status]
           owed == {j \in Jobs : HasUnackedEntry(j)}
<1> SUFFICES ASSUME IInv, [Next]_vars
             PROVE  Lifecycle!LNext \/ (outcome' = outcome /\ owed' = owed)
  BY DEF Lifecycle!lifecycleVars
<1>a. /\ QueueTypeOK /\ StoreEffect /\ QueueEffect
      /\ finalization \in [Jobs -> Finalization]
  BY StepEffects DEF IInv, TypeOK, StoreTypeOK
<1>1. CASE ~TablesUnchanged
  <2>1. UNCHANGED <<stream, delivered, pel>>
    BY <1>a, <1>1 DEF QueueEffect
  <2>2. owed' = owed
    BY <2>1 DEF HasUnackedEntry, Entries, Unacked
  <2>3. CASE finalization' = finalization
    BY <2>2, <2>3
  <2>4. ASSUME NEW j \in Jobs, NEW st \in TERMINAL_STATUSES, NEW type,
               ~Finalized(j),
               finalization' = [finalization EXCEPT
                                  ![j] = [status |-> st, event_type |-> type]]
        PROVE  Lifecycle!LNext
    <3>1. outcome[j] = "none"
      BY <2>4 DEF Finalized
    <3>2. outcome' = [outcome EXCEPT ![j] = st]
      BY <1>a, <2>4
    <3>3. Lifecycle!Decide(j, st)
      BY <2>2, <3>1, <3>2 DEF Lifecycle!Decide
    <3> QED
      BY <3>3 DEF Lifecycle!LNext
  <2> QED
    BY <1>a, <1>1, <2>3, <2>4
    DEF StoreEffect, create_job, record_state_event, finalize_job
<1>2. CASE TablesUnchanged
  <2>a. outcome' = outcome
    BY <1>2 DEF TablesUnchanged
  <2>1. CASE UNCHANGED <<stream, delivered, pel>>
    BY <2>a, <2>1 DEF HasUnackedEntry, Entries, Unacked
  <2>2. ASSUME NEW j \in Jobs, NEW a \in Nat, publish_job(j, a)
        PROVE  Lifecycle!LNext
    <3>1. owed' = owed \cup {j}
      BY <1>a, <2>2, OwedAfterPublish
    <3>2. Lifecycle!Accept(j)
      BY <2>a, <3>1 DEF Lifecycle!Accept
    <3> QED
      BY <3>2 DEF Lifecycle!LNext
  <2>3. CASE lease_jobs
    BY <1>a, <2>a, <2>3, OwedAfterLease
  <2>4. ASSUME NEW i \in Entries, acknowledge(i), Settled(i)
        PROVE  Lifecycle!LNext \/ owed' = owed
    <3>1. PICK j \in Jobs : j = stream[i].job
      <4>1. stream[i] \in QueueJobMessage
        BY <1>a DEF QueueTypeOK, Entries
      <4> QED
        BY <4>1 DEF QueueJobMessage
    <3>2. \A k \in Jobs \ {j} : HasUnackedEntry(k)' <=> HasUnackedEntry(k)
      BY <1>a, <2>4, <3>1, OwedAfterAcknowledge
    <3>3. CASE HasUnackedEntry(j)' <=> HasUnackedEntry(j)
      BY <3>2, <3>3
    <3>4. CASE ~HasUnackedEntry(j)'
      <4>1. owed' = owed \ {j}
        BY <3>2, <3>4
      <4>2. Finalized(j) \/ ~DispatchAllowed(j)
        BY <1>a, <2>4, <3>1, <3>4, OwedAfterAcknowledge
      <4>3. Lifecycle!Release(j)
        BY <2>a, <4>1, <4>2 DEF Lifecycle!Release, Finalized
      <4> QED
        BY <4>3 DEF Lifecycle!LNext
    <3> QED
      BY <1>a, <2>4, <3>3, <3>4, OwedAfterAcknowledge
  <2> QED
    BY <1>a, <2>a, <2>1, <2>2, <2>3, <2>4 DEF QueueEffect
<1> QED
  BY <1>1, <1>2

\* The runtime implements the abstract lifecycle: outcomes are decided once and
\* for all, and a job that may be dispatched is owed a look until it is decided.
THEOREM Refinement == Spec => ImplementsLifecycle
<1>1. Init => Lifecycle!LInit
  BY DEF Init, StoreInit, QueueInit, Lifecycle!LInit, NotFinalized,
         HasUnackedEntry, Entries
<1> QED
  BY <1>1, NextLifecycle, Invariance, PTL
  DEF Spec, ImplementsLifecycle, Lifecycle!LSpec

=============================================================================
