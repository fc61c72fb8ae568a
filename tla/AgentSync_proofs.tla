-------------------------- MODULE AgentSync_proofs --------------------------
(***************************************************************************)
(* Safety of AgentSync for every value of its constants: type correctness, *)
(* one stored row per record_id, a delivered row is stored, and the        *)
(* refinement of JobDelivery.                                              *)
(***************************************************************************)
EXTENDS AgentSync, TLAPS

LEMMA KeyType == \A j \in Jobs : Key[j] \in Keys
  BY DEF Keys

LEMMA NoAnswerType == NoAnswer \in [Keys -> Answers]
  BY DEF NoAnswer, Answers

LEMMA FaultType == faults \in 0 .. MaxFaults /\ Fault => faults' \in 0 .. MaxFaults
  BY BoundAssumption DEF Fault

LEMMA AcknowledgeType ==
    ASSUME TypeOK, NEW h \in Handlers, NEW j \in Jobs, NEW a \in Answers,
           Acknowledge(h, j, a)
    PROVE  /\ stage' \in [Handlers -> {"idle", "received", "check", "create", "insert", "respond"}]
           /\ todo' \in [Handlers -> SUBSET Jobs]
           /\ ack' \in [Handlers -> [Keys -> Answers]]
  BY KeyType DEF TypeOK, Acknowledge

LEMMA NextTypeOK == TypeOK /\ [Next]_vars => TypeOK'
  <1> SUFFICES ASSUME TypeOK, [Next]_vars PROVE TypeOK'
    OBVIOUS
  <1> USE DEF TypeOK, outboxVars, runVars, reqVars
  <1>1. ASSUME NEW j \in Jobs, Record(j) PROVE TypeOK'
    BY <1>1 DEF Record
  <1>2. ASSUME NEW j \in Jobs, BackoffElapses(j) PROVE TypeOK'
    BY <1>2 DEF BackoffElapses
  <1>3. ASSUME NEW r \in Runs, Site(r) PROVE TypeOK'
    <2>1. CASE RetryFailed(r)
      BY <2>1 DEF RetryFailed
    <2>2. CASE Fetch(r)
      BY <2>2 DEF Fetch, DueRows
    <2>3. CASE LoseRequest(r)
      BY <2>3, FaultType DEF LoseRequest
    <2>4. CASE Timeout(r)
      BY <2>4, FaultType DEF Timeout
    <2>5. CASE ApplyAnswers(r)
      BY <2>5, NoAnswerType DEF ApplyAnswers, EndRun, Settled
    <2>6. CASE ApplyError(r)
      BY <2>6, NoAnswerType DEF ApplyError, EndRun
    <2>7. CASE CrashRun(r)
      BY <2>7, NoAnswerType, FaultType DEF CrashRun, EndRun
    <2>8. ASSUME NEW h \in Handlers, Send(r, h) PROVE TypeOK'
      BY <2>8 DEF Send
    <2> QED
      BY <1>3, <2>1, <2>2, <2>3, <2>4, <2>5, <2>6, <2>7, <2>8 DEF Site
  <1>4. ASSUME NEW h \in Handlers, Centre(h) PROVE TypeOK'
    <2>1. CASE Refuse(h)
      BY <2>1, NoAnswerType DEF Refuse, EndRequest, Notify
    <2>2. CASE Accept(h)
      BY <2>2 DEF Accept
    <2>3. ASSUME NEW j \in Jobs, Check(h, j) PROVE TypeOK'
      <3>1. CASE Exists(h, j)
        BY <2>3, <3>1, AcknowledgeType DEF Check, Answers
      <3>2. CASE ~Exists(h, j) /\ j \in Invalid
        BY <2>3, <3>2, AcknowledgeType DEF Check, Answers
      <3>3. CASE ~Exists(h, j) /\ j \notin Invalid
        BY <2>3, <3>3 DEF Check
      <3> QED
        BY <3>1, <3>2, <3>3
    <2>4. ASSUME NEW j \in Jobs, Insert(h, j) PROVE TypeOK'
      <3>1. CASE Collides(h, j)
        BY <2>4, <3>1, AcknowledgeType DEF Insert, Answers
      <3>2. CASE ~Collides(h, j)
        <4>1. mine' = [mine EXCEPT ![h] = @ \cup {j}]
          BY <2>4, <3>2 DEF Insert
        <4>2. mine[h] \cup {j} \in SUBSET Jobs
          OBVIOUS
        <4>3. mine' \in [Handlers -> SUBSET Jobs]
          BY <4>1, <4>2
        <4> QED
          BY <2>4, <3>2, <4>3, AcknowledgeType DEF Insert, Answers
      <3> QED
        BY <3>1, <3>2
    <2>5. ASSUME NEW j \in Jobs, EndDeadlock(h, j) \/ InsertFails(h, j) PROVE TypeOK'
      BY <2>5, AcknowledgeType, FaultType DEF EndDeadlock, InsertFails, Answers
    <2>6. CASE Commit(h)
      BY <2>6 DEF Commit
    <2>7. CASE Respond(h)
      BY <2>7, NoAnswerType DEF Respond, EndRequest, Notify
    <2>8. CASE CrashHandler(h)
      BY <2>8, NoAnswerType, FaultType DEF CrashHandler, EndRequest, Notify
    <2> QED
      BY <1>4, <2>1, <2>2, <2>3, <2>4, <2>5, <2>6, <2>7, <2>8 DEF Centre, ProcessEvent
  <1>5. CASE Disable
    BY <1>5, FaultType DEF Disable
  <1>6. CASE Enable
    BY <1>6 DEF Enable
  <1>7. CASE UNCHANGED vars
    BY <1>7 DEF vars
  <1> QED
    BY <1>1, <1>2, <1>3, <1>4, <1>5, <1>6, <1>7 DEF Next

(* Every step keeps every variable in its type: the program's tables never *)
(* hold a status, an answer or a batch outside those the code writes.      *)
THEOREM TypeCorrect == Spec => []TypeOK
<1>1. Init => TypeOK
  BY NoAnswerType, BoundAssumption DEF Init, TypeOK
<1> QED
  BY <1>1, NextTypeOK, PTL DEF Spec

-----------------------------------------------------------------------------
(* The inductive invariant.  DeliveredIsStored says nothing of how a row   *)
(* came to be delivered; the invariant follows the acknowledgement back:   *)
(* run, finished request, uncommitted row, table.                          *)

Recorded == {j \in Jobs : status[j] # "absent"}
Positive == {"inserted", "duplicate"}

(* Whatever travels or is stored was recorded first. *)
RecordedInv ==
    /\ \A r \in Runs : rows[r] \subseteq Recorded
    /\ \A h \in Handlers : todo[h] \subseteq Recorded /\ mine[h] \subseteq Recorded
    /\ \A j \in Jobs : stored[j] > 0 => j \in Recorded

(* An uncommitted row is nowhere else, and a finished request has none. *)
UncommittedInv ==
    /\ \A h \in Handlers : \A j \in mine[h] : stored[j] = 0
    /\ \A g, h \in Handlers : g # h => mine[g] \cap mine[h] = {}
    /\ \A h \in Handlers : stage[h] \in {"idle", "received", "respond"} => mine[h] = {}

StoredInv == \A j \in Jobs : stored[j] <= 1

(* A request acknowledges what it inserted or found; a run holds           *)
(* acknowledgements of committed rows only.                                *)
AckInv ==
    /\ \A h \in Handlers, j \in Jobs :
           ack[h][Key[j]] \in Positive => stored[j] = 1 \/ j \in mine[h]
    /\ \A r \in Runs, j \in Jobs :
           answer[r][Key[j]] \in Positive => stored[j] = 1

IInv == TypeOK /\ RecordedInv /\ UncommittedInv /\ StoredInv /\ AckInv /\ DeliveredIsStored

LEMMA NoAnswerIsNegative == \A j \in Jobs : NoAnswer[Key[j]] = "none"
  BY KeyType DEF NoAnswer

LEMMA InitIInv == Init => IInv
  <1> SUFFICES ASSUME Init PROVE IInv
    OBVIOUS
  <1>1. TypeOK
    BY NoAnswerType, BoundAssumption DEF Init, TypeOK
  <1>2. RecordedInv
    BY DEF Init, RecordedInv, Recorded
  <1>3. UncommittedInv /\ StoredInv
    BY DEF Init, UncommittedInv, StoredInv
  <1>4. AckInv
    BY NoAnswerIsNegative DEF Init, AckInv, Positive
  <1>5. DeliveredIsStored
    BY DEF Init, DeliveredIsStored
  <1> QED
    BY <1>1, <1>2, <1>3, <1>4, <1>5 DEF IInv

(* The actions of a run. *)
LEMMA SiteIInv ==
    ASSUME IInv, TypeOK', NEW r \in Runs, Site(r)
    PROVE  IInv'
  <1> USE DEF IInv, outboxVars, runVars, reqVars
  <1>1. CASE RetryFailed(r)
    BY <1>1 DEF RetryFailed, TypeOK, RecordedInv, Recorded, UncommittedInv, StoredInv,
                AckInv, DeliveredIsStored
  <1>2. CASE Fetch(r)
    BY <1>2 DEF Fetch, DueRows, TypeOK, RecordedInv, Recorded, UncommittedInv, StoredInv,
                AckInv, DeliveredIsStored
  <1>3. CASE LoseRequest(r)
    BY <1>3 DEF LoseRequest, RecordedInv, Recorded, UncommittedInv, StoredInv,
                AckInv, DeliveredIsStored
  <1>4. CASE Timeout(r)
    BY <1>4 DEF Timeout, RecordedInv, Recorded, UncommittedInv, StoredInv,
                AckInv, DeliveredIsStored
  <1>5. CASE ApplyAnswers(r)
    <2>1. RecordedInv'
      BY <1>5 DEF ApplyAnswers, EndRun, Settled, TypeOK, RecordedInv, Recorded
    <2>2. UncommittedInv' /\ StoredInv'
      BY <1>5 DEF ApplyAnswers, UncommittedInv, StoredInv
    <2>3. AckInv'
      BY <1>5, NoAnswerIsNegative DEF ApplyAnswers, EndRun, TypeOK, AckInv, Positive
    <2>4. DeliveredIsStored'
      BY <1>5 DEF ApplyAnswers, Settled, Answer, TypeOK, AckInv, Positive, DeliveredIsStored
    <2> QED
      BY <2>1, <2>2, <2>3, <2>4
  <1>6. CASE ApplyError(r)
    <2>1. RecordedInv'
      BY <1>6 DEF ApplyError, EndRun, TypeOK, RecordedInv, Recorded
    <2>2. UncommittedInv' /\ StoredInv' /\ DeliveredIsStored'
      BY <1>6 DEF ApplyError, UncommittedInv, StoredInv, DeliveredIsStored
    <2>3. AckInv'
      BY <1>6, NoAnswerIsNegative DEF ApplyError, EndRun, TypeOK, AckInv, Positive
    <2> QED
      BY <2>1, <2>2, <2>3
  <1>7. CASE CrashRun(r)
    <2>1. RecordedInv'
      BY <1>7 DEF CrashRun, EndRun, TypeOK, RecordedInv, Recorded
    <2>2. UncommittedInv' /\ StoredInv' /\ DeliveredIsStored'
      BY <1>7 DEF CrashRun, UncommittedInv, StoredInv, DeliveredIsStored
    <2>3. AckInv'
      BY <1>7, NoAnswerIsNegative DEF CrashRun, EndRun, TypeOK, AckInv, Positive
    <2> QED
      BY <2>1, <2>2, <2>3
  <1>8. ASSUME NEW h \in Handlers, Send(r, h) PROVE IInv'
    BY <1>8 DEF Send, TypeOK, RecordedInv, Recorded, UncommittedInv, StoredInv,
                AckInv, DeliveredIsStored
  <1> QED
    BY <1>1, <1>2, <1>3, <1>4, <1>5, <1>6, <1>7, <1>8 DEF Site

(* A request that ends takes nothing but its own uncommitted rows along. *)
LEMMA EndRequestIInv ==
    ASSUME IInv, TypeOK', NEW h \in Handlers, EndRequest(h), UNCHANGED <<outboxVars, rows, stored>>,
           \A r \in Runs, j \in Jobs : answer'[r][Key[j]] \in Positive => stored[j] = 1
    PROVE  IInv'
  <1> USE DEF IInv, outboxVars
  <1>1. RecordedInv'
    BY DEF EndRequest, TypeOK, RecordedInv, Recorded
  <1>2. UncommittedInv' /\ StoredInv' /\ DeliveredIsStored'
    BY DEF EndRequest, TypeOK, UncommittedInv, StoredInv, DeliveredIsStored
  <1>3. AckInv'
    BY NoAnswerIsNegative DEF EndRequest, TypeOK, AckInv, Positive
  <1> QED
    BY <1>1, <1>2, <1>3

(* An answer noted in a request is either negative or backed by a row. *)
LEMMA AcknowledgeIInv ==
    ASSUME KeysDistinct, IInv, TypeOK', NEW h \in Handlers, NEW j \in Jobs, NEW a \in Answers,
           Acknowledge(h, j, a), stage[h] \in {"check", "create", "insert"},
           UNCHANGED <<outboxVars, runVars, mine, stored>>,
           a \in Positive => stored[j] = 1 \/ j \in mine[h]
    PROVE  IInv'
  <1> USE DEF IInv, outboxVars, runVars
  <1>1. RecordedInv'
    BY DEF Acknowledge, TypeOK, RecordedInv, Recorded
  <1>2. UncommittedInv' /\ StoredInv' /\ DeliveredIsStored'
    BY DEF Acknowledge, TypeOK, UncommittedInv, StoredInv, DeliveredIsStored
  <1>3. AckInv'
    <2> SUFFICES ASSUME NEW g \in Handlers, NEW k \in Jobs, ack'[g][Key[k]] \in Positive
                 PROVE  stored[k] = 1 \/ k \in mine[g]
      BY DEF AckInv
    <2>1. CASE g = h /\ k = j
      BY <2>1, KeyType DEF Acknowledge, TypeOK
    <2>2. CASE ~(g = h /\ k = j)
      BY <2>2, KeyType DEF Acknowledge, TypeOK, AckInv, KeysDistinct
    <2> QED
      BY <2>1, <2>2
  <1> QED
    BY <1>1, <1>2, <1>3

(* A new row is inserted only when no request and no table holds its key. *)
LEMMA InsertNewIInv ==
    ASSUME KeysDistinct, IInv, TypeOK', NEW h \in Handlers, NEW j \in Jobs,
           Insert(h, j), ~Collides(h, j)
    PROVE  IInv'
  <1> USE DEF IInv, outboxVars, runVars
  <1>1. /\ stage[h] \in {"create", "insert"} /\ IsCurrent(h, j) /\ ~Blocked(h, j)
        /\ Acknowledge(h, j, "inserted")
        /\ mine' = [mine EXCEPT ![h] = @ \cup {j}]
        /\ UNCHANGED <<status, rows, answer, stored>>
    BY DEF Insert, Flushes
  <1>2. stored[j] = 0 /\ \A g \in Handlers : j \notin mine[g]
    <2>1. ~(stored[j] > 0) /\ j \notin mine[h]
      BY DEF Collides, Exists
    <2>2. stored[j] = 0
      BY <2>1 DEF TypeOK
    <2>3. ASSUME NEW g \in Handlers \ {h} PROVE j \notin mine[g]
      BY <1>1 DEF Blocked, Holds
    <2> QED
      BY <2>1, <2>2, <2>3
  <1>3. \A g \in Handlers : mine'[g] = IF g = h THEN mine[h] \cup {j} ELSE mine[g]
    BY <1>1 DEF TypeOK
  <1>4. \A g \in Handlers : /\ todo'[g] \subseteq todo[g]
                            /\ g # h => stage'[g] = stage[g]
    BY <1>1 DEF Acknowledge, TypeOK
  <1>5. stage'[h] = "check" /\ j \in todo[h]
    BY <1>1 DEF Acknowledge, IsCurrent, TypeOK
  <1>6. RecordedInv'
    BY <1>1, <1>3, <1>4, <1>5 DEF RecordedInv, Recorded
  <1>7. UncommittedInv'
    BY <1>1, <1>2, <1>3, <1>4, <1>5 DEF UncommittedInv
  <1>8. StoredInv' /\ DeliveredIsStored'
    BY <1>1 DEF StoredInv, DeliveredIsStored
  <1>9. AckInv'
    <2> SUFFICES ASSUME NEW g \in Handlers, NEW k \in Jobs, ack'[g][Key[k]] \in Positive
                 PROVE  stored[k] = 1 \/ k \in mine'[g]
      BY <1>1 DEF AckInv
    <2>1. CASE g = h /\ k = j
      BY <2>1, <1>3
    <2>2. CASE ~(g = h /\ k = j)
      <3>1. ack'[g][Key[k]] = ack[g][Key[k]]
        BY <1>1, <2>2, KeyType DEF Acknowledge, TypeOK, KeysDistinct
      <3> QED
        BY <3>1, <1>3 DEF AckInv
    <2> QED
      BY <2>1, <2>2
  <1> QED
    BY <1>6, <1>7, <1>8, <1>9

(* The commit moves a request's rows into the table and nothing else. *)
LEMMA CommitIInv ==
    ASSUME IInv, TypeOK', NEW h \in Handlers, Commit(h)
    PROVE  IInv'
  <1> USE DEF IInv, outboxVars, runVars
  <1>1. \A g \in Handlers : mine'[g] = IF g = h THEN {} ELSE mine[g]
    BY DEF Commit, TypeOK
  <1>2. \A j \in Jobs : stored'[j] = IF j \in mine[h] THEN stored[j] + 1 ELSE stored[j]
    BY DEF Commit
  <1>3. \A j \in mine[h] : stored[j] = 0 /\ stored'[j] = 1
    BY <1>2 DEF UncommittedInv, TypeOK
  <1>4. \A j \in Jobs : stored[j] = 1 => stored'[j] = 1
    BY <1>2, <1>3
  <1>5. UNCHANGED <<status, rows, answer, todo, ack>> /\ \A g \in Handlers : g # h => stage'[g] = stage[g]
    BY DEF Commit, TypeOK
  <1>6. RecordedInv'
    BY <1>1, <1>2, <1>5 DEF RecordedInv, Recorded, TypeOK
  <1>7. UncommittedInv'
    BY <1>1, <1>2, <1>5 DEF UncommittedInv, TypeOK
  <1>8. StoredInv'
    BY <1>2, <1>3 DEF StoredInv
  <1>9. AckInv' /\ DeliveredIsStored'
    BY <1>1, <1>3, <1>4, <1>5 DEF AckInv, DeliveredIsStored
  <1> QED
    BY <1>6, <1>7, <1>8, <1>9

LEMMA CentreIInv ==
    ASSUME KeysDistinct, IInv, TypeOK', NEW h \in Handlers, Centre(h)
    PROVE  IInv'
  <1> USE DEF IInv, outboxVars, runVars, reqVars
  <1>1. CASE Refuse(h)
    BY <1>1, EndRequestIInv DEF Refuse, Notify, AckInv
  <1>2. CASE Accept(h)
    BY <1>2 DEF Accept, TypeOK, RecordedInv, Recorded, UncommittedInv, StoredInv,
                AckInv, DeliveredIsStored
  <1>3. ASSUME NEW j \in Jobs, Check(h, j) PROVE IInv'
    <2>1. CASE Exists(h, j)
      <3>1. stored[j] = 1 \/ j \in mine[h]
        BY <2>1 DEF Exists, KeysDistinct, StoredInv, TypeOK
      <3>2. Acknowledge(h, j, "duplicate")
        BY <1>3, <2>1 DEF Check
      <3> QED
        BY <1>3, <3>1, <3>2, AcknowledgeIInv DEF Check, Answers
    <2>2. CASE ~Exists(h, j) /\ j \in Invalid
      <3>1. Acknowledge(h, j, "rejected")
        BY <1>3, <2>2 DEF Check
      <3> QED
        BY <1>3, <3>1, AcknowledgeIInv DEF Check, Answers, Positive
    <2>3. CASE ~Exists(h, j) /\ j \notin Invalid
      <3>1. /\ stage[h] = "check" /\ UNCHANGED <<todo, ack, mine, outboxVars, runVars, stored>>
            /\ stage' = [stage EXCEPT ![h] = IF QueueSeen(h, j) THEN "insert" ELSE "create"]
        BY <1>3, <2>3 DEF Check
      <3>2. \A g \in Handlers : stage'[g] \in {"idle", "received", "respond"} => stage'[g] = stage[g]
        BY <3>1 DEF TypeOK
      <3> QED
        BY <3>1, <3>2 DEF RecordedInv, Recorded, UncommittedInv, StoredInv, AckInv, DeliveredIsStored
    <2> QED
      BY <2>1, <2>2, <2>3
  <1>4. ASSUME NEW j \in Jobs, Insert(h, j) PROVE IInv'
    <2>1. CASE Collides(h, j)
      BY <1>4, <2>1, AcknowledgeIInv DEF Insert, Flushes, Answers, Positive
    <2>2. CASE ~Collides(h, j)
      BY <1>4, <2>2, InsertNewIInv
    <2> QED
      BY <2>1, <2>2
  <1>5. ASSUME NEW j \in Jobs, EndDeadlock(h, j) \/ InsertFails(h, j) PROVE IInv'
    BY <1>5, AcknowledgeIInv DEF EndDeadlock, InsertFails, Flushes, Answers, Positive
  <1>6. CASE Commit(h)
    BY <1>6, CommitIInv
  <1>7. CASE Respond(h)
    <2>1. \A r \in Runs, j \in Jobs : answer'[r][Key[j]] \in Positive => stored[j] = 1
      <3> SUFFICES ASSUME NEW r \in Runs, NEW j \in Jobs, answer'[r][Key[j]] \in Positive
                   PROVE  stored[j] = 1
        OBVIOUS
      <3>1. answer'[r] = IF at[r] = h THEN ack[h] ELSE answer[r]
        BY <1>7 DEF Respond
      <3>2. mine[h] = {}
        BY <1>7 DEF Respond, UncommittedInv
      <3> QED
        BY <3>1, <3>2 DEF AckInv
    <2> QED
      BY <1>7, <2>1, EndRequestIInv DEF Respond, Notify
  <1>8. CASE CrashHandler(h)
    BY <1>8, EndRequestIInv DEF CrashHandler, Notify, AckInv
  <1> QED
    BY <1>1, <1>2, <1>3, <1>4, <1>5, <1>6, <1>7, <1>8 DEF Centre, ProcessEvent

(* Whatever the overlap of runs, requests, crashes and timeouts, if no two *)
(* outbox rows share a record_id the invariant holds in every state.       *)
THEOREM InvariantHolds ==
    ASSUME KeysDistinct PROVE Spec => []IInv
<1>1. IInv /\ [Next]_vars => IInv'
  <2> SUFFICES ASSUME IInv, [Next]_vars PROVE IInv'
    OBVIOUS
  <2>1. TypeOK'
    BY NextTypeOK DEF IInv
  <2> USE DEF IInv
  <2>2. ASSUME NEW j \in Jobs, Record(j) PROVE IInv'
    BY <2>1, <2>2 DEF Record, TypeOK, RecordedInv, Recorded, UncommittedInv, StoredInv,
                AckInv, DeliveredIsStored, runVars, reqVars
  <2>3. ASSUME NEW j \in Jobs, BackoffElapses(j) PROVE IInv'
    BY <2>1, <2>3 DEF BackoffElapses, RecordedInv, Recorded, UncommittedInv, StoredInv,
                AckInv, DeliveredIsStored, runVars, reqVars
  <2>4. ASSUME NEW r \in Runs, Site(r) PROVE IInv'
    BY <2>1, <2>4, SiteIInv
  <2>5. ASSUME NEW h \in Handlers, Centre(h) PROVE IInv'
    BY <2>1, <2>5, CentreIInv
  <2>6. CASE Disable \/ Enable
    BY <2>1, <2>6 DEF Disable, Enable, RecordedInv, Recorded, UncommittedInv, StoredInv,
                AckInv, DeliveredIsStored, outboxVars, runVars, reqVars
  <2>7. CASE UNCHANGED vars
    BY <2>1, <2>7 DEF vars, RecordedInv, Recorded, UncommittedInv, StoredInv,
                AckInv, DeliveredIsStored, outboxVars, runVars, reqVars
  <2> QED
    BY <2>2, <2>3, <2>4, <2>5, <2>6, <2>7 DEF Next
<1> QED
  BY <1>1, InitIInv, PTL DEF Spec

(* A row the site will never send again is committed at the centre.        *)
THEOREM DeliveredStored ==
    ASSUME KeysDistinct PROVE Spec => []DeliveredIsStored
<1>1. IInv => DeliveredIsStored
  BY DEF IInv
<1> QED
  BY <1>1, InvariantHolds, PTL

(* No job is stored, and billed, twice.                                    *)
THEOREM NeverStoredTwice ==
    ASSUME KeysDistinct PROVE Spec => []StoredOnce
<1>1. IInv => StoredOnce
  BY DEF IInv, StoredInv, StoredOnce, KeysDistinct
<1> QED
  BY <1>1, InvariantHolds, PTL

-----------------------------------------------------------------------------
(* Refinement of JobDelivery *)

(* Whatever the outbox, the runs and the centre do, seen as recorded,      *)
(* stored and confirmed jobs it is what JobDelivery promises.              *)
THEOREM Implements ==
    ASSUME KeysDistinct PROVE Spec => DeliverySpec
<1> DEFINE Confirmed == {j \in Jobs : status[j] = "delivered"}
           Stored == {j \in Jobs : stored[j] > 0}
<1> USE DEF Delivery!vars, outboxVars, runVars, reqVars
<1>1. Init => Delivery!Init
  BY DEF Init, Delivery!Init
<1>2. IInv /\ IInv' /\ [Next]_vars => [Delivery!Next]_(Delivery!vars)
  <2> SUFFICES ASSUME IInv, IInv', [Next]_vars PROVE Delivery!Next \/ UNCHANGED Delivery!vars
    OBVIOUS
  <2> USE DEF Delivery!Next
  <2>1. ASSUME NEW j \in Jobs, Record(j) PROVE Delivery!Record
    <3>1. j \notin Recorded /\ Recorded' = Recorded \cup {j}
      BY <2>1 DEF Record, Recorded, IInv, TypeOK
    <3>2. UNCHANGED <<Stored, Confirmed>>
      BY <2>1 DEF Record, IInv, TypeOK
    <3>3. {j} \in SUBSET (Jobs \ Recorded) /\ {j} # {}
      BY <3>1
    <3> QED
      BY <3>1, <3>2, <3>3 DEF Delivery!Record, Recorded
  <2>2. ASSUME NEW h \in Handlers, Commit(h) PROVE Delivery!Store \/ UNCHANGED Delivery!vars
    <3>1. status' = status /\ \A j \in Jobs : stored'[j] > 0 <=> stored[j] > 0 \/ j \in mine[h]
      BY <2>2 DEF Commit, IInv, TypeOK
    <3>2. mine[h] \subseteq Recorded \ Stored
      BY DEF IInv, RecordedInv, UncommittedInv, Recorded
    <3>3. Stored' = Stored \cup mine[h] /\ UNCHANGED <<Recorded, Confirmed>>
      BY <3>1, <3>2 DEF Recorded
    <3>4. CASE mine[h] = {}
      BY <3>3, <3>4 DEF Recorded
    <3>5. CASE mine[h] # {}
      BY <3>2, <3>3, <3>5 DEF Delivery!Store, Recorded
    <3> QED
      BY <3>4, <3>5
  <2>3. ASSUME NEW r \in Runs, ApplyAnswers(r) PROVE Delivery!Confirm
    <3>1. UNCHANGED Stored /\ Confirmed \subseteq Stored /\ Confirmed' \subseteq Stored
      BY <2>3 DEF ApplyAnswers, IInv, DeliveredIsStored
    <3>2. UNCHANGED Recorded
      BY <2>3 DEF ApplyAnswers, Settled, IInv, TypeOK, RecordedInv, Recorded
    <3>3. Confirmed' = (Confirmed \ Confirmed) \cup Confirmed'
      OBVIOUS
    <3> QED
      BY <3>1, <3>2, <3>3 DEF Delivery!Confirm, Recorded
  <2>4. ASSUME NEW r \in Runs, RetryFailed(r) PROVE UNCHANGED Delivery!vars
    BY <2>4 DEF RetryFailed, IInv, TypeOK
  <2>5. ASSUME NEW r \in Runs, Site(r) PROVE Delivery!Next \/ UNCHANGED Delivery!vars
    <3>1. CASE UNCHANGED <<status, stored>>
      BY <3>1
    <3>2. CASE RetryFailed(r) \/ ApplyAnswers(r)
      BY <3>2, <2>3, <2>4
    <3> QED
      BY <2>5, <3>1, <3>2 DEF Site, Fetch, LoseRequest, Timeout, ApplyError, CrashRun, Send
  <2>6. ASSUME NEW h \in Handlers, Centre(h) PROVE Delivery!Next \/ UNCHANGED Delivery!vars
    <3>1. CASE UNCHANGED <<status, stored>>
      BY <3>1
    <3>2. CASE Commit(h)
      BY <3>2, <2>2
    <3> QED
      BY <2>6, <3>1, <3>2 DEF Centre, ProcessEvent, Refuse, Accept, Check, Insert, EndDeadlock, InsertFails,
                              Respond, CrashHandler
  <2>7. CASE UNCHANGED <<status, stored>>
    BY <2>7
  <2> QED
    BY <2>1, <2>5, <2>6, <2>7 DEF Next, BackoffElapses, Disable, Enable, vars
<1> QED
  BY <1>1, <1>2, InvariantHolds, PTL DEF Spec, Delivery!Spec, DeliverySpec

-----------------------------------------------------------------------------
(* Who is judged.  A run that waits finds each of its rows either still in *)
(* the batch of its request or answered, and a batch that has been         *)
(* accepted is free of malformed events.                                   *)

(* Every row that run r holds is well-formed and has an answer. *)
JudgedBatch(r) == \A j \in rows[r] : j \notin Malformed /\ Answer(r, j) # "none"

JudgedInv ==
    /\ \A r \in Runs : pc[r] # "wait" => at[r] = NoHandler
    /\ \A r \in Runs : pc[r] = "answered" => JudgedBatch(r)
    /\ \A r \in Runs, h \in Handlers : at[r] = h =>
           /\ stage[h] # "idle"
           /\ stage[h] = "received" => rows[r] \subseteq todo[h]
           /\ stage[h] # "received" => rows[r] \cap Malformed = {}
           /\ \A j \in rows[r] : j \in todo[h] \/ ack[h][Key[j]] # "none"
    /\ \A h \in Handlers : stage[h] = "respond" => todo[h] = {}

(* Steps that leave the requests alone: a run keeps what it holds, or ends *)
(* with nothing.                                                           *)
LEMMA RunJudged ==
    ASSUME TypeOK, JudgedInv, UNCHANGED reqVars,
           \A r \in Runs : \/ UNCHANGED <<pc[r], rows[r], at[r], answer[r]>>
                           \/ pc'[r] \notin {"wait", "answered"} /\ at'[r] = NoHandler
    PROVE  JudgedInv'
  BY HandlerAssumption DEF JudgedInv, JudgedBatch, Answer, reqVars

LEMMA SendJudged ==
    ASSUME TypeOK, JudgedInv, NEW r \in Runs, NEW h \in Handlers, Send(r, h)
    PROVE  JudgedInv'
  <1>1. \A q \in Runs : at[q] # h
    BY DEF JudgedInv, Send
  <1>2. /\ \A q \in Runs \ {r} : pc'[q] = pc[q] /\ at'[q] = at[q]
        /\ pc'[r] = "wait" /\ at'[r] = h /\ UNCHANGED <<rows, answer, ack>>
        /\ \A g \in Handlers \ {h} : stage'[g] = stage[g] /\ todo'[g] = todo[g]
        /\ stage'[h] = "received" /\ todo'[h] = rows[r]
    BY DEF Send, TypeOK
  <1> QED
    BY <1>1, <1>2 DEF JudgedInv, JudgedBatch, Answer

(* An answer to one event; the batch has been accepted. *)
LEMMA AcknowledgeJudged ==
    ASSUME TypeOK, JudgedInv, NEW h \in Handlers, NEW j \in Jobs,
           NEW a \in Answers \ {"none"}, Acknowledge(h, j, a),
           stage[h] \notin {"idle", "received"}, UNCHANGED runVars
    PROVE  JudgedInv'
  <1>1. /\ \A g \in Handlers \ {h} : UNCHANGED <<stage[g], todo[g], ack[g]>>
        /\ stage'[h] = "check" /\ todo'[h] = todo[h] \ {j}
        /\ \A k \in Jobs : ack'[h][Key[k]] = IF Key[k] = Key[j] THEN a ELSE ack[h][Key[k]]
    BY KeyType DEF Acknowledge, TypeOK
  <1>2. \A r \in Runs : rows[r] \subseteq Jobs
    BY DEF TypeOK
  <1> QED
    BY <1>1, <1>2 DEF JudgedInv, JudgedBatch, Answer, runVars

(* The request ends; who waited for it goes on, with an answer only if it  *)
(* has answered.                                                           *)
LEMMA EndRequestJudged ==
    ASSUME TypeOK, JudgedInv, NEW h \in Handlers, NEW p, EndRequest(h), Notify(h, p),
           \/ p = "error" /\ UNCHANGED answer
           \/ /\ p = "answered" /\ stage[h] = "respond"
              /\ answer' = [r \in Runs |-> IF at[r] = h THEN ack[h] ELSE answer[r]]
    PROVE  JudgedInv'
  <1>1. /\ \A g \in Handlers \ {h} : UNCHANGED <<stage[g], todo[g], ack[g]>>
        /\ stage'[h] = "idle"
    BY DEF EndRequest, TypeOK
  <1>2. \A r \in Runs : /\ at[r] = h => pc'[r] = p /\ at'[r] = NoHandler
                        /\ at[r] # h => UNCHANGED <<pc[r], at[r], answer[r]>>
                        /\ UNCHANGED rows[r]
    BY DEF Notify
  <1>3. \A r \in Runs : at[r] = h /\ p = "answered" => JudgedBatch(r)'
    BY <1>2 DEF JudgedInv, JudgedBatch, Answer
  <1> QED
    BY <1>1, <1>2, <1>3, HandlerAssumption DEF JudgedInv, JudgedBatch, Answer

LEMMA CentreJudged ==
    ASSUME TypeOK, JudgedInv, NEW h \in Handlers, Centre(h)
    PROVE  JudgedInv'
  <1>1. CASE Refuse(h) \/ CrashHandler(h)
    BY <1>1, EndRequestJudged DEF Refuse, CrashHandler
  <1>2. CASE Accept(h)
    <2>1. /\ \A g \in Handlers \ {h} : stage'[g] = stage[g]
          /\ stage[h] = "received" /\ stage'[h] = "check"
          /\ todo[h] \cap Malformed = {} /\ UNCHANGED <<pc, rows, at, answer, todo, ack>>
      BY <1>2 DEF Accept, TypeOK, runVars
    <2> QED
      BY <2>1 DEF JudgedInv, JudgedBatch, Answer
  <1>3. ASSUME NEW j \in Jobs, Check(h, j) PROVE JudgedInv'
    <2>1. CASE /\ stage' = [stage EXCEPT ![h] = IF QueueSeen(h, j) THEN "insert" ELSE "create"]
               /\ UNCHANGED <<todo, ack>>
      <3>1. /\ \A g \in Handlers \ {h} : stage'[g] = stage[g]
            /\ stage[h] = "check" /\ stage'[h] \in {"insert", "create"}
            /\ UNCHANGED <<pc, rows, at, answer, todo, ack>>
        BY <1>3, <2>1 DEF Check, TypeOK, runVars
      <3> QED
        BY <3>1 DEF JudgedInv, JudgedBatch, Answer
    <2>2. CASE Acknowledge(h, j, "duplicate") \/ Acknowledge(h, j, "rejected")
      BY <1>3, <2>2, AcknowledgeJudged DEF Check, Answers
    <2> QED
      BY <1>3, <2>1, <2>2 DEF Check
  <1>4. ASSUME NEW j \in Jobs, Insert(h, j) \/ EndDeadlock(h, j) \/ InsertFails(h, j) PROVE JudgedInv'
    BY <1>4, AcknowledgeJudged DEF Insert, EndDeadlock, InsertFails, Flushes, Answers
  <1>5. CASE Commit(h)
    <2>1. /\ \A g \in Handlers \ {h} : stage'[g] = stage[g]
          /\ stage[h] = "check" /\ stage'[h] = "respond" /\ todo[h] = {}
          /\ UNCHANGED <<pc, rows, at, answer, todo, ack>>
      BY <1>5 DEF Commit, TypeOK, runVars
    <2> QED
      BY <2>1 DEF JudgedInv, JudgedBatch, Answer
  <1>6. CASE Respond(h)
    BY <1>6, EndRequestJudged DEF Respond
  <1> QED
    BY <1>1, <1>2, <1>3, <1>4, <1>5, <1>6 DEF Centre, ProcessEvent

LEMMA SiteJudged ==
    ASSUME TypeOK, JudgedInv, NEW r \in Runs, Site(r)
    PROVE  JudgedInv'
  <1>1. CASE \E h \in Handlers : Send(r, h)
    BY <1>1, SendJudged
  <1>2. CASE RetryFailed(r) \/ Fetch(r) \/ LoseRequest(r) \/ Timeout(r)
    <2>1. /\ UNCHANGED reqVars
          /\ \A q \in Runs \ {r} : UNCHANGED <<pc[q], rows[q], at[q], answer[q]>>
          /\ pc'[r] \notin {"wait", "answered"}
      BY <1>2 DEF RetryFailed, Fetch, LoseRequest, Timeout, TypeOK
    <2>2. at'[r] = NoHandler
      BY <1>2 DEF RetryFailed, Fetch, LoseRequest, Timeout, TypeOK, JudgedInv
    <2> QED
      BY <2>1, <2>2, RunJudged
  <1>3. CASE ApplyAnswers(r) \/ ApplyError(r) \/ CrashRun(r)
    <2>1. UNCHANGED reqVars /\ EndRun(r)
      BY <1>3 DEF ApplyAnswers, ApplyError, CrashRun
    <2>2. /\ \A q \in Runs \ {r} : UNCHANGED <<pc[q], rows[q], at[q], answer[q]>>
          /\ pc'[r] = "idle" /\ at'[r] = NoHandler
      BY <2>1 DEF EndRun, TypeOK
    <2> QED
      BY <2>1, <2>2, RunJudged
  <1> QED
    BY <1>1, <1>2, <1>3 DEF Site

LEMMA NextJudged == TypeOK /\ JudgedInv /\ [Next]_vars => JudgedInv'
  <1> SUFFICES ASSUME TypeOK, JudgedInv, [Next]_vars PROVE JudgedInv'
    OBVIOUS
  <1>1. CASE UNCHANGED <<runVars, reqVars>>
    BY <1>1, RunJudged DEF runVars
  <1>2. CASE Disable \/ Enable \/ UNCHANGED vars \/ \E j \in Jobs : Record(j) \/ BackoffElapses(j)
    BY <1>1, <1>2 DEF Disable, Enable, Record, BackoffElapses, vars
  <1> QED
    BY <1>2, SiteJudged, CentreJudged DEF Next

(* A row becomes failed only by a run that holds an answer for every row   *)
(* of its batch, a refusal for this one, and no malformed row: for any     *)
(* overlap of runs, and whatever record_ids the rows have.                 *)
THEOREM FailuresWereJudged == Spec => FailedWasJudged
<1>1. Init => JudgedInv
  BY HandlerAssumption DEF Init, JudgedInv
<1>2. TypeOK /\ JudgedInv /\ [Next]_vars =>
        [\A j \in Jobs :
            status[j] # "failed" /\ status'[j] = "failed" =>
                \E r \in Runs :
                    /\ j \in rows[r] /\ Answer(r, j) = "rejected"
                    /\ \A k \in rows[r] : k \notin Malformed /\ Answer(r, k) # "none"]_vars
  <2> SUFFICES ASSUME TypeOK, JudgedInv, [Next]_vars, NEW j \in Jobs,
                      status[j] # "failed", status'[j] = "failed"
               PROVE  \E r \in Runs : /\ j \in rows[r] /\ Answer(r, j) = "rejected"
                                      /\ JudgedBatch(r)
    BY DEF JudgedBatch
  <2>1. PICK r \in Runs : ApplyAnswers(r)
    <3>1. CASE UNCHANGED status
      BY <3>1
    <3>2. ASSUME NEW k \in Jobs, Record(k) PROVE FALSE
      BY <3>2 DEF Record, TypeOK
    <3>3. ASSUME NEW r \in Runs, RetryFailed(r) PROVE FALSE
      BY <3>3 DEF RetryFailed
    <3> QED
      BY <3>1, <3>2, <3>3
      DEF Next, Site, Centre, ProcessEvent, BackoffElapses, Fetch, Send, LoseRequest, Timeout,
          ApplyError, CrashRun, Refuse, Accept, Check, Insert, EndDeadlock, InsertFails, Commit,
          Respond, CrashHandler, Disable, Enable, outboxVars, vars
  <2>2. j \in rows[r] /\ Answer(r, j) = "rejected"
    BY <2>1 DEF ApplyAnswers, Settled
  <2>3. JudgedBatch(r)
    BY <2>1 DEF ApplyAnswers, JudgedInv
  <2> QED
    BY <2>2, <2>3
<1> QED
  BY <1>1, <1>2, NextJudged, TypeCorrect, PTL DEF Spec, FailedWasJudged

-----------------------------------------------------------------------------
(* One run at a time *)

SerialRuns == \A q, r \in Runs : q = r

(* A run holds pending rows only: nobody else writes them while it works. *)
OwnRows ==
    \A r \in Runs : /\ pc[r] \in {"idle", "reset"} => rows[r] = {}
                    /\ \A j \in rows[r] : status[j] = "pending"

(* If runs of the synchroniser never overlap, as the scheduled task is     *)
(* registered to ignore new instances, "delivered" is terminal.            *)
THEOREM SerialRunsDeliverForGood ==
    ASSUME SerialRuns PROVE Spec => DeliveredIsFinal
<1> USE DEF outboxVars, runVars, reqVars
<1>1. Init => OwnRows
  BY DEF Init, OwnRows
<1>2. TypeOK /\ OwnRows /\ [Next]_vars => OwnRows'
  <2> SUFFICES ASSUME TypeOK, OwnRows, [Next]_vars PROVE OwnRows'
    OBVIOUS
  <2>1. ASSUME NEW j \in Jobs, Record(j) PROVE OwnRows'
    BY <2>1 DEF Record, TypeOK, OwnRows
  <2>2. ASSUME NEW r \in Runs, Site(r) PROVE OwnRows'
    <3>1. CASE RetryFailed(r)
      <4>1. rows'[r] = {} /\ \A q \in Runs : q = r
        BY <3>1 DEF RetryFailed, OwnRows, SerialRuns
      <4> QED
        BY <4>1 DEF OwnRows
    <3>2. CASE Fetch(r)
      <4>1. PICK B \in SUBSET DueRows : /\ rows' = [rows EXCEPT ![r] = B]
                                        /\ pc' = [pc EXCEPT ![r] = IF B = {} THEN "idle" ELSE "send"]
        BY <3>2 DEF Fetch
      <4>2. UNCHANGED status /\ \A q \in Runs : q = r
        BY <3>2 DEF Fetch, SerialRuns
      <4> QED
        BY <4>1, <4>2 DEF DueRows, TypeOK, OwnRows
    <3>3. CASE LoseRequest(r) \/ Timeout(r)
      BY <3>3 DEF LoseRequest, Timeout, TypeOK, OwnRows
    <3>4. CASE ApplyAnswers(r) \/ ApplyError(r) \/ CrashRun(r)
      <4>1. rows'[r] = {} /\ \A q \in Runs : q = r
        BY <2>2, <3>4 DEF ApplyAnswers, ApplyError, CrashRun, EndRun, TypeOK, SerialRuns
      <4> QED
        BY <4>1 DEF OwnRows
    <3>5. ASSUME NEW h \in Handlers, Send(r, h) PROVE OwnRows'
      BY <3>5 DEF Send, TypeOK, OwnRows
    <3> QED
      BY <2>2, <3>1, <3>2, <3>3, <3>4, <3>5 DEF Site
  <2>3. ASSUME NEW h \in Handlers, Centre(h) PROVE OwnRows'
    <3>1. UNCHANGED <<status, rows>>
      BY <2>3 DEF Centre, ProcessEvent, Refuse, Accept, Check, Insert, EndDeadlock, InsertFails, Commit,
                  Respond, CrashHandler, Notify
    <3>2. \A r \in Runs : pc'[r] \in {"idle", "reset"} => pc[r] \in {"idle", "reset"}
      BY <2>3 DEF Centre, ProcessEvent, Refuse, Accept, Check, Insert, EndDeadlock, InsertFails, Commit,
                  Respond, CrashHandler, Notify
    <3> QED
      BY <3>1, <3>2 DEF OwnRows
  <2>4. CASE UNCHANGED <<status, pc, rows>>
    BY <2>4 DEF OwnRows
  <2> QED
    BY <2>1, <2>2, <2>3, <2>4 DEF Next, BackoffElapses, Disable, Enable, vars
<1>3. TypeOK /\ OwnRows /\ [Next]_vars
        => [\A j \in Jobs : status[j] = "delivered" => status'[j] = "delivered"]_vars
  <2> SUFFICES ASSUME TypeOK, OwnRows, [Next]_vars, NEW j \in Jobs, status[j] = "delivered"
               PROVE  status'[j] = "delivered"
    OBVIOUS
  <2>1. ASSUME NEW k \in Jobs, Record(k) PROVE status'[j] = "delivered"
    BY <2>1 DEF Record, TypeOK
  <2>2. ASSUME NEW r \in Runs, Site(r) PROVE status'[j] = "delivered"
    <3>1. CASE RetryFailed(r)
      BY <3>1 DEF RetryFailed
    <3>2. CASE ApplyAnswers(r)
      BY <2>2, <3>2 DEF ApplyAnswers, OwnRows
    <3>3. CASE UNCHANGED status
      BY <3>3
    <3> QED
      BY <2>2, <3>1, <3>2, <3>3 DEF Site, Fetch, LoseRequest, Timeout, ApplyError, CrashRun, Send
  <2>3. ASSUME NEW h \in Handlers, Centre(h) PROVE UNCHANGED status
    BY <2>3 DEF Centre, ProcessEvent, Refuse, Accept, Check, Insert, EndDeadlock, InsertFails, Commit,
                Respond, CrashHandler
  <2>4. CASE UNCHANGED status
    BY <2>4
  <2> QED
    BY <2>1, <2>2, <2>3, <2>4 DEF Next, BackoffElapses, Disable, Enable, vars
<1> QED
  BY <1>1, <1>2, <1>3, TypeCorrect, PTL DEF Spec, DeliveredIsFinal
=============================================================================
