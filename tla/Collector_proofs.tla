-------------------------- MODULE Collector_proofs --------------------------
(***************************************************************************)
(* Safety of the collector for every log size, batch size and number of    *)
(* overlapping runs.                                                       *)
(***************************************************************************)
EXTENDS Collector, TLAPS

LEMMA InitTypeOK == Init => TypeOK
  BY EventAssumption, BoundAssumption DEF Init, TypeOK, Events

LEMMA NextTypeOK == TypeOK /\ [Next]_vars => TypeOK'
  <1> SUFFICES ASSUME TypeOK, [Next]_vars PROVE TypeOK'
    OBVIOUS
  <1> USE DEF TypeOK, runVars
  <1>1. CASE LogEvent
    BY <1>1, EventAssumption DEF LogEvent
  <1>2. CASE SwitchCollection
    BY <1>2 DEF SwitchCollection
  <1>3. ASSUME NEW r \in Runs, Run(r) PROVE TypeOK'
    <2>1. CASE Start(r)
      BY <2>1 DEF Start
    <2>2. CASE Export(r)
      <3>1. PICK B \in SUBSET InLog :
              /\ batch' = [batch EXCEPT ![r] = B]
              /\ \E n \in B \cup {base[r]} : newest' = [newest EXCEPT ![r] = n]
        BY <2>2 DEF Export
      <3>2. B \in SUBSET Events /\ B \cup {base[r]} \subseteq 0 .. LastEvent
        <4>1. InLog \subseteq Events /\ Events \subseteq 0 .. LastEvent
          BY EventAssumption DEF InLog, Events
        <4> QED
          BY <4>1
      <3>3. batch' \in [Runs -> SUBSET Events] /\ newest' \in [Runs -> 0 .. LastEvent]
        BY <3>1, <3>2
      <3> QED
        BY <2>2, <3>3 DEF Export
    <2>3. CASE Commit(r)
      BY <2>3 DEF Commit, EndRun
    <2>4. CASE CommitFails(r)
      BY <2>4 DEF CommitFails, EndRun
    <2>5. CASE RunFails(r)
      BY <2>5, BoundAssumption DEF RunFails, EndRun
    <2>6. ASSUME NEW e \in Events, Examine(r, e) PROVE TypeOK'
      <3>1. batch' \in [Runs -> SUBSET Events]
        BY <2>6 DEF Examine
      <3>2. left[r] \cup {e} \in SUBSET Events /\ added[r] \cup {e} \in SUBSET Events
        BY <1>3
      <3>3. added' \in [Runs -> SUBSET Events] /\ left' \in [Runs -> SUBSET Events]
        BY <2>6, <3>2 DEF Examine
      <3> QED
        BY <2>6, <3>1, <3>3 DEF Examine
    <2> QED
      BY <1>3, <2>1, <2>2, <2>3, <2>4, <2>5, <2>6 DEF Run
  <1>4. CASE UNCHANGED vars
    BY <1>4 DEF vars
  <1> QED
    BY <1>1, <1>2, <1>3, <1>4 DEF Next

(* The cursor and the tables keep their types: the cursor never points     *)
(* past the last event of the log.                                         *)
THEOREM TypeCorrect == Spec => []TypeOK
<1> QED
  BY InitTypeOK, NextTypeOK, PTL DEF Spec

-----------------------------------------------------------------------------
(* The inductive invariant: not only the cursor but also the value a run   *)
(* started from covers what lies below it, since a slow run may write an   *)
(* older cursor back; above it a run loses nothing up to its newest event. *)

Covered(c) == \A e \in Events : e <= c => Accounted(e)

Held(r, e) == e \in batch[r] \cup added[r] \cup left[r]

RunCovers(r) ==
    /\ Covered(base[r])
    /\ pc[r] = "examine" =>
           \A e \in Events : base[r] < e /\ e <= newest[r] => Held(r, e) \/ Accounted(e)

IInv == TypeOK /\ JobsOnce /\ CursorCovers /\ \A r \in Runs : RunCovers(r)

(* What was accounted for stays accounted for. *)
LEMMA AccountedForever ==
    ASSUME TypeOK, [Next]_vars, NEW e \in Events, Accounted(e)
    PROVE  Accounted(e)'
  <1> USE DEF Accounted, Overwritten, TypeOK, Events, runVars
  <1>1. CASE LogEvent
    BY <1>1, EventAssumption DEF LogEvent
  <1>2. CASE SwitchCollection \/ UNCHANGED vars
    BY <1>2 DEF SwitchCollection, vars
  <1>3. ASSUME NEW r \in Runs, Run(r) PROVE Accounted(e)'
    <2>1. CASE Commit(r)
      BY <2>1 DEF Commit
    <2>2. CASE UNCHANGED <<printed, jobs, passed>>
      BY <2>2
    <2> QED
      BY <1>3, <2>1, <2>2 DEF Run, Start, Export, CommitFails, RunFails, Examine
  <1> QED
    BY <1>1, <1>2, <1>3 DEF Next

(* A batch reaches up to its newest event without a gap. *)
LEMMA ExportCovers ==
    ASSUME TypeOK, NEW r \in Runs, Export(r),
           NEW e \in Events, base[r] < e, e <= newest'[r]
    PROVE  e \in batch'[r] \/ Overwritten(e)
  <1>1. PICK B \in SUBSET InLog :
          /\ IsExport(B, {k \in InLog : k > base[r]})
          /\ batch' = [batch EXCEPT ![r] = B]
          /\ \E n \in B \cup {base[r]} : /\ \A k \in B : k <= n
                                         /\ newest' = [newest EXCEPT ![r] = n]
    BY DEF Export
  <1>2. batch'[r] = B
    BY <1>1 DEF TypeOK
  <1>3. PICK n \in B \cup {base[r]} : newest'[r] = n
    BY <1>1 DEF TypeOK
  <1>4. n \in B /\ e <= n
    BY <1>3 DEF TypeOK, Events
  <1>5. n \in InLog /\ n <= printed
    BY <1>4 DEF InLog
  <1>6. CASE e \in InLog
    <2>1. e \in B \/ e < n => e \in B \/ ~(n < e)
      BY <1>4, <1>5 DEF InLog, Events
    <2>2. e \notin B => n < e
      BY <1>1, <1>4, <1>6 DEF IsExport, IsFirst
    <2> QED
      BY <1>2, <1>4, <1>5, <2>2 DEF InLog, Events
  <1>7. CASE e \notin InLog
    BY <1>4, <1>5, <1>7, EventAssumption DEF InLog, Events, TypeOK
  <1> QED
    BY <1>6, <1>7

LEMMA NextIInv == IInv /\ [Next]_vars => IInv'
  <1> SUFFICES ASSUME IInv, [Next]_vars PROVE IInv'
    OBVIOUS
  <1> USE DEF IInv, runVars
  <1>1. TypeOK'
    BY NextTypeOK
  <1>2. \A e \in Events : Accounted(e) => Accounted(e)'
    BY AccountedForever
  <1>3. \A c : Covered(c) => Covered(c)'
    BY <1>2 DEF Covered
  <1>4. CASE LogEvent \/ SwitchCollection \/ UNCHANGED vars
    <2>1. UNCHANGED <<cursor, jobs, runVars>>
      BY <1>4 DEF LogEvent, SwitchCollection, vars
    <2>2. JobsOnce' /\ CursorCovers'
      BY <1>2, <2>1 DEF JobsOnce, CursorCovers
    <2>3. \A r \in Runs : RunCovers(r)'
      BY <1>2, <2>1 DEF RunCovers, Covered, Held
    <2> QED
      BY <1>1, <2>2, <2>3
  <1>5. ASSUME NEW r \in Runs, Run(r) PROVE IInv'
    <2>1. CASE Start(r)
      <3>1. UNCHANGED <<cursor, jobs, batch, newest, added, left>> /\ pc'[r] = "export" /\ base'[r] = cursor
        BY <2>1 DEF Start, TypeOK
      <3>2. \A q \in Runs \ {r} : pc'[q] = pc[q] /\ base'[q] = base[q]
        BY <2>1 DEF Start, TypeOK
      <3>3. JobsOnce' /\ CursorCovers'
        BY <1>2, <3>1 DEF JobsOnce, CursorCovers
      <3>4. RunCovers(r)'
        BY <1>2, <3>1 DEF RunCovers, Covered, CursorCovers
      <3>5. \A q \in Runs \ {r} : RunCovers(q)'
        BY <1>2, <3>1, <3>2 DEF RunCovers, Covered, Held
      <3> QED
        BY <1>1, <3>3, <3>4, <3>5
    <2>2. CASE Export(r)
      <3>1. UNCHANGED <<printed, cursor, jobs, passed, base, added, left>>
        BY <2>2 DEF Export
      <3>2. \A q \in Runs \ {r} : pc'[q] = pc[q] /\ batch'[q] = batch[q] /\ newest'[q] = newest[q]
        BY <2>2 DEF Export, TypeOK
      <3>3. JobsOnce' /\ CursorCovers'
        BY <1>2, <3>1 DEF JobsOnce, CursorCovers
      <3>4. \A e \in Events : base[r] < e /\ e <= newest'[r] => e \in batch'[r] \/ Overwritten(e)
        BY <2>2, ExportCovers
      <3>5. RunCovers(r)'
        BY <1>2, <3>1, <3>4 DEF RunCovers, Covered, Held, Accounted, Overwritten
      <3>6. \A q \in Runs \ {r} : RunCovers(q)'
        BY <1>2, <3>1, <3>2 DEF RunCovers, Covered, Held
      <3> QED
        BY <1>1, <3>3, <3>5, <3>6
    <2>3. CASE Commit(r)
      <3>1. \A e \in Events : jobs'[e] = IF e \in added[r] THEN jobs[e] + 1 ELSE jobs[e]
        BY <2>3 DEF Commit
      <3>2. JobsOnce'
        BY <2>3, <3>1 DEF Commit, Collision, JobsOnce, TypeOK
      <3>3. \A e \in Events : Held(r, e) => Accounted(e)'
        BY <2>3, <3>1 DEF Commit, Held, Accounted, TypeOK
      <3>4. Covered(newest[r])'
        <4> SUFFICES ASSUME NEW e \in Events, e <= newest[r] PROVE Accounted(e)'
          BY <1>1, <2>3 DEF Covered, Commit, EndRun
        <4>1. CASE e <= base[r]
          BY <1>2, <4>1 DEF RunCovers, Covered
        <4>2. CASE base[r] < e
          BY <1>2, <2>3, <3>3, <4>2 DEF RunCovers, Commit
        <4> QED
          BY <4>1, <4>2 DEF TypeOK, Events
      <3>5. CursorCovers'
        BY <1>2, <2>3, <3>4 DEF Commit, EndRun, CursorCovers, Covered
      <3>6. UNCHANGED <<base, newest>> /\ pc'[r] = "idle"
        BY <2>3 DEF Commit, EndRun, TypeOK
      <3>7. \A q \in Runs \ {r} : pc'[q] = pc[q] /\ \A e \in Events : Held(q, e)' <=> Held(q, e)
        BY <2>3 DEF Commit, EndRun, Held, TypeOK
      <3>8. \A q \in Runs : RunCovers(q)'
        BY <1>2, <3>6, <3>7 DEF RunCovers, Covered
      <3> QED
        BY <1>1, <3>2, <3>5, <3>8
    <2>4. CASE CommitFails(r) \/ RunFails(r)
      <3>1. UNCHANGED <<cursor, jobs, base, newest>> /\ pc'[r] = "idle"
        BY <2>4 DEF CommitFails, RunFails, EndRun, TypeOK
      <3>2. \A q \in Runs \ {r} : pc'[q] = pc[q] /\ \A e \in Events : Held(q, e)' <=> Held(q, e)
        BY <2>4 DEF CommitFails, RunFails, EndRun, Held, TypeOK
      <3>3. JobsOnce' /\ CursorCovers'
        BY <1>2, <3>1 DEF JobsOnce, CursorCovers
      <3>4. \A q \in Runs : RunCovers(q)'
        BY <1>2, <3>1, <3>2 DEF RunCovers, Covered
      <3> QED
        BY <1>1, <3>3, <3>4
    <2>5. ASSUME NEW e \in Events, Examine(r, e) PROVE IInv'
      <3>1. UNCHANGED <<cursor, jobs, pc, base, newest>>
        BY <2>5 DEF Examine
      <3>2. \A q \in Runs, k \in Events : Held(q, k) => Held(q, k)' \/ Accounted(k)
        BY <2>5 DEF Examine, Held, Accounted, TypeOK
      <3>3. JobsOnce' /\ CursorCovers'
        BY <1>2, <3>1 DEF JobsOnce, CursorCovers
      <3>4. \A q \in Runs : RunCovers(q)'
        BY <1>2, <3>1, <3>2 DEF RunCovers, Covered
      <3> QED
        BY <1>1, <3>3, <3>4
    <2> QED
      BY <1>5, <2>1, <2>2, <2>3, <2>4, <2>5 DEF Run
  <1> QED
    BY <1>4, <1>5 DEF Next

LEMMA InitIInv == Init => IInv
  BY InitTypeOK, EventAssumption
     DEF Init, IInv, JobsOnce, CursorCovers, RunCovers, Covered, Events

(* The cursor leaves no event behind, however runs overlap, fail or write  *)
(* an older cursor back.                                                   *)
THEOREM NothingLeftBehind == Spec => []CursorCovers
<1>1. IInv => CursorCovers
  BY DEF IInv
<1> QED
  BY <1>1, InitIInv, NextIInv, PTL DEF Spec

(* No event becomes two jobs. *)
THEOREM NoEventTwice == Spec => []JobsOnce
<1>1. IInv => JobsOnce
  BY DEF IInv
<1> QED
  BY <1>1, InitIInv, NextIInv, PTL DEF Spec
=============================================================================
