------------------------ MODULE EndpointAgent_proofs ------------------------
(***************************************************************************)
(* Safety of the endpoint agent and the site server for every value of the *)
(* constants: type correctness, a cursor that leaves nothing behind, one   *)
(* job per event, a sent event is stored, and the refinement of            *)
(* JobDelivery.                                                            *)
(***************************************************************************)
EXTENDS EndpointAgent, TLAPS

LEMMA NoAnswerType == NoAnswer \in [Events -> Answers]
  BY DEF NoAnswer, Answers

LEMMA EventsType == Events \subseteq 0 .. LastEvent /\ 0 \in 0 .. LastEvent
  BY EventAssumption DEF Events

LEMMA FaultType == faults \in 0 .. MaxFaults /\ Fault => faults' \in 0 .. MaxFaults
  BY BoundAssumption DEF Fault

LEMMA InitTypeOK == Init => TypeOK
  BY NoAnswerType, EventsType, BoundAssumption DEF Init, TypeOK

LEMMA AcknowledgeType ==
    ASSUME TypeOK, NEW h \in Handlers, NEW e \in Events, NEW a \in Answers,
           Acknowledge(h, e, a)
    PROVE  /\ stage' \in [Handlers -> {"idle", "received", "check", "create", "insert", "respond"}]
           /\ todo' \in [Handlers -> SUBSET Events]
           /\ ack' \in [Handlers -> [Events -> Answers]]
  BY DEF TypeOK, Acknowledge

(* What the capture of a batch does to the types. *)
LEMMA CaptureType ==
    ASSUME TypeOK, NEW a \in Agents, Capture(a) PROVE TypeOK'
  <1> USE DEF TypeOK, pcVars, agentVars, reqVars
  <1>1. PICK B \in SUBSET Events :
          IF B \cap Poison # {}
          THEN pc' = [pc EXCEPT ![a] = "raised"] /\ UNCHANGED <<newest, status>>
          ELSE /\ pc' = [pc EXCEPT ![a] = IF B = {} THEN "fetch" ELSE "cursor"]
               /\ \E n \in 0 .. LastEvent : newest' = [newest EXCEPT ![a] = n]
               /\ status' = [e \in Events |->
                      IF e \in B \ Skipped /\ status[e] = "absent" THEN "pending" ELSE status[e]]
    BY DEF Capture
  <1>2. newest' \in [Agents -> 0 .. LastEvent]
    BY <1>1
  <1>3. status' \in [Events -> {"absent", "pending", "sent", "failed"}]
    BY <1>1
  <1>4. pc' \in [Agents -> {"idle", "capture", "cursor", "fetch", "send",
                            "wait", "apply", "retry", "raised"}]
    BY <1>1
  <1> QED
    BY <1>2, <1>3, <1>4 DEF Capture

LEMMA NextTypeOK == TypeOK /\ [Next]_vars => TypeOK'
  <1> SUFFICES ASSUME TypeOK, [Next]_vars PROVE TypeOK'
    OBVIOUS
  <1> USE DEF TypeOK, pcVars, agentVars, reqVars
  <1>1. CASE LogEvent
    BY <1>1, EventAssumption DEF LogEvent
  <1>2. ASSUME NEW e \in Events, BackoffElapses(e) PROVE TypeOK'
    BY <1>2 DEF BackoffElapses
  <1>3. ASSUME NEW a \in Agents, Cycle(a) PROVE TypeOK'
    <2>1. CASE Begin(a)
      BY <2>1 DEF Begin
    <2>2. CASE Capture(a)
      BY <2>2, CaptureType
    <2>3. CASE SetCursor(a)
      BY <2>3 DEF SetCursor
    <2>4. CASE FetchDue(a)
      BY <2>4, EventsType DEF FetchDue, DueRows
    <2>5. CASE Rest(a)
      BY <2>5, EventsType DEF Rest
    <2>6. CASE Finish(a)
      BY <2>6, NoAnswerType, EventsType DEF Finish, EndCycle
    <2>7. ASSUME NEW e \in Events, ApplyRow(a, e) PROVE TypeOK'
      <3>1. Outcome(a, e) \in {"absent", "pending", "sent", "failed"}
        BY DEF Outcome
      <3>2. status' \in [Events -> {"absent", "pending", "sent", "failed"}]
        BY <2>7, <3>1 DEF ApplyRow
      <3>3. due' = [due EXCEPT ![e] = due[e] /\ answer[a][e] # "none"]
        BY <2>7 DEF ApplyRow
      <3>4. due' \in [Events -> BOOLEAN]
        BY <3>3
      <3> QED
        BY <2>7, <3>2, <3>4 DEF ApplyRow
    <2>8. ASSUME NEW e \in Events, RetryRow(a, e) PROVE TypeOK'
      BY <2>8 DEF RetryRow
    <2> QED
      BY <1>3, <2>1, <2>2, <2>3, <2>4, <2>5, <2>6, <2>7, <2>8 DEF Cycle
  <1>4. ASSUME NEW a \in Agents, Disturb(a) PROVE TypeOK'
    <2>1. CASE CaptureFails(a) \/ LoseRequest(a)
      BY <2>1, FaultType DEF CaptureFails, LoseRequest
    <2>2. CASE Timeout(a)
      BY <2>2, FaultType, NoAnswerType, EventsType DEF Timeout, EndCycle
    <2>3. CASE CrashAgent(a)
      BY <2>3, FaultType, NoAnswerType, EventsType DEF CrashAgent, EndCycle
    <2> QED
      BY <1>4, <2>1, <2>2, <2>3 DEF Disturb
  <1>5. ASSUME NEW a \in Agents, NEW h \in Handlers, Send(a, h) PROVE TypeOK'
    BY <1>5 DEF Send
  <1>6. ASSUME NEW h \in Handlers, Serve(h) PROVE TypeOK'
    <2>1. CASE Refuse(h)
      BY <2>1, NoAnswerType DEF Refuse, EndRequest, Notify
    <2>2. CASE Accept(h)
      BY <2>2 DEF Accept
    <2>3. CASE Commit(h)
      BY <2>3 DEF Commit, StoreMine
    <2>4. CASE Respond(h)
      BY <2>4, NoAnswerType DEF Respond, EndRequest, Notify
    <2>5. ASSUME NEW e \in Events, Check(h, e) PROVE TypeOK'
      <3>1. CASE Acknowledge(h, e, "duplicate")
        BY <2>5, <3>1, AcknowledgeType DEF Check, Answers
      <3>2. CASE ~Exists(h, e)
        BY <2>5, <3>2 DEF Check
      <3> QED
        BY <2>5, <3>1, <3>2 DEF Check
    <2>6. ASSUME NEW e \in Events, Insert(h, e) PROVE TypeOK'
      <3>1. Acknowledge(h, e, "rejected") \/ Acknowledge(h, e, "inserted")
        BY <2>6 DEF Insert
      <3>2. mine[h] \cup {e} \in SUBSET Events
        OBVIOUS
      <3>3. mine' \in [Handlers -> SUBSET Events]
        BY <2>6, <3>2 DEF Insert
      <3> QED
        BY <2>6, <3>1, <3>3, AcknowledgeType DEF Insert, Answers
    <2> QED
      BY <1>6, <2>1, <2>2, <2>3, <2>4, <2>5, <2>6 DEF Serve
  <1>7. ASSUME NEW h \in Handlers, Release(h) PROVE TypeOK'
    BY <1>7 DEF Release, StoreMine
  <1>8. ASSUME NEW h \in Handlers, CrashHandler(h) PROVE TypeOK'
    BY <1>8, NoAnswerType, FaultType DEF CrashHandler, EndRequest, Notify
  <1>9. ASSUME NEW h \in Handlers, NEW e \in Events, EndDeadlock(h, e) \/ InsertFails(h, e)
        PROVE  TypeOK'
    BY <1>9, AcknowledgeType, FaultType DEF EndDeadlock, InsertFails, Answers
  <1>10. CASE Disable \/ Enable
    BY <1>10, FaultType DEF Disable, Enable
  <1>11. CASE UNCHANGED vars
    BY <1>11 DEF vars
  <1> QED
    BY <1>1, <1>2, <1>3, <1>4, <1>5, <1>6, <1>7, <1>8, <1>9, <1>10, <1>11 DEF Next

(* The tables and the agent's memory hold only what the code writes there; *)
(* the cursor never points past the end of the log.                        *)
THEOREM TypeCorrect == Spec => []TypeOK
<1> QED
  BY InitTypeOK, NextTypeOK, PTL DEF Spec

-----------------------------------------------------------------------------
(* The cursor.  A process may write an old cursor back over a newer one;   *)
(* what is invariant is that every value a process holds covers what lies  *)
(* below it.                                                               *)

Done(e) == status[e] # "absent" \/ e \in Skipped
Covered(c) == \A e \in Events : e <= c => Done(e)
CursorInv == CursorCovers /\ \A a \in Agents : Covered(newest[a])

LEMMA CaptureCovers ==
    ASSUME TypeOK, CursorInv, NEW a \in Agents, Capture(a), NEW e \in Events, e <= newest'[a]
    PROVE  Done(e)'
  <1> USE DEF TypeOK, Done
  <1>1. \A k \in Events : Done(k) => Done(k)'
    BY DEF Capture
  <1>2. CASE e <= newest[a]
    BY <1>1, <1>2 DEF CursorInv, Covered
  <1>3. CASE newest[a] < e
    <2>1. PICK B \in SUBSET Events :
            /\ IsFirst(B, {k \in Events : newest[a] < k /\ k <= printed}, MaxEvents)
            /\ IF B \cap Poison # {}
               THEN UNCHANGED newest
               ELSE /\ \E n \in 0 .. LastEvent :
                        IsNewest(n, B, newest[a]) /\ newest' = [newest EXCEPT ![a] = n]
                    /\ status' = [k \in Events |->
                           IF k \in B \ Skipped /\ status[k] = "absent" THEN "pending" ELSE status[k]]
      BY DEF Capture
    <2>2. newest'[a] # newest[a]
      BY <1>3, EventsType
    <2>3. PICK n \in 0 .. LastEvent : IsNewest(n, B, newest[a]) /\ newest'[a] = n
      BY <2>1, <2>2
    <2>4. n \in B
      BY <2>2, <2>3 DEF IsNewest
    <2>5. n <= printed /\ ~(n < e)
      BY <2>1, <2>3, <2>4, EventsType DEF IsFirst, Events
    <2>6. e \in {k \in Events : newest[a] < k /\ k <= printed}
      BY <1>3, <2>3, <2>5, EventsType DEF Events
    <2>7. e \in B
      BY <2>1, <2>4, <2>5, <2>6 DEF IsFirst
    <2> QED
      BY <2>1, <2>2, <2>7
  <1> QED
    BY <1>2, <1>3, EventsType DEF Events

(* What was captured stays captured. *)
LEMMA DoneForever ==
    ASSUME TypeOK, [Next]_vars, NEW e \in Events, Done(e) PROVE Done(e)'
  <1> USE DEF Done, TypeOK, pcVars
  <1>1. ASSUME NEW a \in Agents, Capture(a) PROVE Done(e)'
    BY <1>1 DEF Capture
  <1>2. ASSUME NEW a \in Agents, NEW k \in Events, ApplyRow(a, k) PROVE Done(e)'
    BY <1>2 DEF ApplyRow, Outcome
  <1>3. CASE UNCHANGED status
    BY <1>3
  <1> QED
    BY <1>1, <1>2, <1>3
    DEF Next, vars, LogEvent, BackoffElapses, Cycle, Disturb, Begin, SetCursor, FetchDue, Rest,
        Finish, RetryRow, CaptureFails, LoseRequest, Timeout, CrashAgent, Send, Serve, Release,
        CrashHandler, EndDeadlock, InsertFails, Disable, Enable, Refuse, Accept, Commit, Respond, Check, Insert

LEMMA NextCursorInv == TypeOK /\ CursorInv /\ [Next]_vars => CursorInv'
  <1> SUFFICES ASSUME TypeOK, CursorInv, [Next]_vars PROVE CursorInv'
    OBVIOUS
  <1> USE DEF TypeOK, pcVars, agentVars
  <1>1. \A c : Covered(c) => Covered(c)'
    BY DoneForever DEF Covered
  <1>2. ASSUME NEW a \in Agents, Capture(a) PROVE CursorInv'
    <2>1. cursor' = cursor /\ \A b \in Agents \ {a} : newest'[b] = newest[b]
      BY <1>2 DEF Capture
    <2>2. \A e \in Events : e <= newest'[a] => Done(e)'
      BY <1>2, CaptureCovers
    <2> QED
      BY <1>1, <2>1, <2>2 DEF CursorInv, CursorCovers, Covered, Done
  <1>3. ASSUME NEW a \in Agents, Begin(a) \/ SetCursor(a) PROVE CursorInv'
    <2>1. /\ cursor' \in {cursor, newest[a]}
          /\ \A b \in Agents : newest'[b] \in {newest[b], cursor}
      BY <1>3 DEF Begin, SetCursor
    <2> QED
      BY <1>1, <2>1 DEF CursorInv, CursorCovers, Covered, Done
  <1>4. CASE cursor' = cursor /\ \A a \in Agents : newest'[a] \in {newest[a], 0}
    <2>1. Covered(0)
      BY EventAssumption DEF Covered, Events
    <2> QED
      BY <1>1, <1>4, <2>1 DEF CursorInv, CursorCovers, Covered, Done
  <1> QED
    BY <1>2, <1>3, <1>4
    DEF Next, vars, LogEvent, BackoffElapses, Cycle, Disturb, FetchDue, Rest, EndCycle, Notify,
        Finish, ApplyRow, RetryRow, CaptureFails, LoseRequest, Timeout, CrashAgent, Send, Serve,
        Release, CrashHandler, EndDeadlock, InsertFails, Disable, Enable, Refuse, Accept, Commit,
        Respond, Check, Insert

(* Nothing the agent should capture is left behind its cursor, whatever    *)
(* cycles overlap or die.                                                  *)
THEOREM NothingLeftBehind == Spec => []CursorCovers
<1>1. Init => CursorInv
  BY EventAssumption DEF Init, CursorInv, CursorCovers, Covered, Events
<1>2. CursorInv => CursorCovers
  BY DEF CursorInv
<1> QED
  BY <1>1, <1>2, InitTypeOK, NextTypeOK, NextCursorInv, PTL DEF Spec

-----------------------------------------------------------------------------
(* The data.  The invariant follows an acknowledgement back from the       *)
(* outbox: agent, finished request, uncommitted row, table.                *)

Captured == {e \in Events : status[e] # "absent"}
Positive == {"inserted", "duplicate"}

(* Whatever travels or is stored was captured first. *)
CapturedInv ==
    /\ \A a \in Agents : rows[a] \subseteq Captured
    /\ \A h \in Handlers : todo[h] \subseteq Captured /\ mine[h] \subseteq Captured
    /\ \A e \in Events : stored[e] > 0 => e \in Captured

(* An uncommitted row is nowhere else, and a finished request has none. *)
UncommittedInv ==
    /\ \A h \in Handlers : \A e \in mine[h] : stored[e] = 0
    /\ \A g, h \in Handlers : g # h => mine[g] \cap mine[h] = {}
    /\ \A h \in Handlers : stage[h] \in {"idle", "received", "respond"} => mine[h] = {}

AckInv ==
    /\ \A h \in Handlers, e \in Events :
           ack[h][e] \in Positive => stored[e] = 1 \/ e \in mine[h]
    /\ \A a \in Agents, e \in Events : answer[a][e] \in Positive => stored[e] = 1

DataInv == CapturedInv /\ UncommittedInv /\ StoredOnce /\ AckInv /\ SentIsStored

IInv == TypeOK /\ DataInv

LEMMA NoAnswerIsNegative == \A e \in Events : NoAnswer[e] \notin Positive
  BY DEF NoAnswer, Positive

LEMMA InitDataInv == Init => DataInv
  BY NoAnswerIsNegative
     DEF Init, DataInv, CapturedInv, Captured, UncommittedInv, StoredOnce, AckInv, SentIsStored

(* Steps that leave the server and every answer alone: they preserve the   *)
(* invariant if no row becomes sent, absent or fetched without ground.     *)
LEMMA AgentDataInv ==
    ASSUME IInv, UNCHANGED <<mine, ack, stored>>,
           \A h \in Handlers : stage'[h] \in {"idle", "respond"} => stage'[h] = stage[h],
           \A h \in Handlers : todo'[h] \subseteq todo[h] \cup Captured,
           \A h \in Handlers : stage'[h] = "received" => stage[h] \in {"idle", "received"},
           \A a \in Agents : rows'[a] \subseteq Captured,
           \A a \in Agents, e \in Events : answer'[a][e] \in Positive => answer[a][e] \in Positive,
           \A e \in Events : /\ status[e] # "absent" => status'[e] # "absent"
                             /\ status'[e] = "sent" => status[e] = "sent" \/ stored[e] = 1
    PROVE  DataInv'
  <1> USE DEF IInv, DataInv
  <1>1. Captured \subseteq Captured'
    BY DEF Captured
  <1>2. CapturedInv'
    BY <1>1 DEF CapturedInv
  <1>3. UncommittedInv'
    BY DEF UncommittedInv
  <1>4. StoredOnce' /\ AckInv' /\ SentIsStored'
    BY DEF StoredOnce, AckInv, SentIsStored
  <1> QED
    BY <1>2, <1>3, <1>4

LEMMA CycleDataInv ==
    ASSUME IInv, TypeOK', NEW a \in Agents, Cycle(a) \/ Disturb(a)
    PROVE  DataInv'
  <1> USE DEF pcVars, agentVars, reqVars
  <1>1. UNCHANGED <<reqVars, stored>>
    BY DEF Cycle, Disturb, Begin, Capture, SetCursor, FetchDue, Rest, Finish, ApplyRow, RetryRow,
           CaptureFails, LoseRequest, Timeout, CrashAgent
  <1>2. \A b \in Agents : rows'[b] \subseteq Captured
    <2>1. CASE FetchDue(a)
      BY <2>1 DEF FetchDue, DueRows, IInv, TypeOK, DataInv, CapturedInv, Captured
    <2>2. CASE \E R \in SUBSET rows[a] : rows' = [rows EXCEPT ![a] = R]
      BY <2>2 DEF IInv, TypeOK, DataInv, CapturedInv
    <2>3. CASE rows' = rows
      BY <2>3 DEF IInv, DataInv, CapturedInv
    <2>4. CASE Finish(a) \/ Timeout(a) \/ CrashAgent(a)
      BY <2>2, <2>4 DEF Finish, Timeout, CrashAgent, EndCycle
    <2>5. CASE \E e \in Events : ApplyRow(a, e) \/ RetryRow(a, e)
      <3>1. \A e \in Events : rows[a] \ {e} \in SUBSET rows[a]
        OBVIOUS
      <3> QED
        BY <2>2, <2>5, <3>1 DEF ApplyRow, RetryRow
    <2> QED
      BY <2>1, <2>3, <2>4, <2>5
      DEF Cycle, Disturb, Begin, Capture, SetCursor, Rest, CaptureFails, LoseRequest
  <1>3. \A b \in Agents, e \in Events : answer'[b][e] \in Positive => answer[b][e] \in Positive
    <2>1. CASE answer' = answer
      BY <2>1
    <2>2. CASE answer' = [answer EXCEPT ![a] = NoAnswer]
      BY <2>2, NoAnswerIsNegative DEF IInv, TypeOK
    <2> QED
      BY <2>1, <2>2 DEF Cycle, Disturb, Begin, Capture, SetCursor, FetchDue, Rest, Finish, ApplyRow,
                        RetryRow, CaptureFails, LoseRequest, Timeout, CrashAgent, EndCycle
  <1>4. \A e \in Events : /\ status[e] # "absent" => status'[e] # "absent"
                          /\ status'[e] = "sent" => status[e] = "sent" \/ stored[e] = 1
    <2>1. CASE Capture(a)
      BY <2>1 DEF Capture
    <2>2. ASSUME NEW k \in Events, ApplyRow(a, k)
          PROVE  \A e \in Events : /\ status[e] # "absent" => status'[e] # "absent"
                                   /\ status'[e] = "sent" => status[e] = "sent" \/ stored[e] = 1
      <3>1. status' = [status EXCEPT ![k] = Outcome(a, k)]
        BY <2>2 DEF ApplyRow
      <3>2. status[k] # "absent" => Outcome(a, k) # "absent"
        BY DEF Outcome
      <3>3. Outcome(a, k) = "sent" => status[k] = "sent" \/ stored[k] = 1
        BY DEF Outcome, IInv, DataInv, AckInv, Positive
      <3> QED
        BY <3>1, <3>2, <3>3 DEF IInv, TypeOK
    <2>3. CASE status' = status
      BY <2>3
    <2> QED
      BY <2>1, <2>2, <2>3 DEF Cycle, Disturb, Begin, SetCursor, FetchDue, Rest, Finish, RetryRow,
                        CaptureFails, LoseRequest, Timeout, CrashAgent
  <1> QED
    BY <1>1, <1>2, <1>3, <1>4, AgentDataInv

LEMMA SendDataInv ==
    ASSUME IInv, NEW a \in Agents, NEW h \in Handlers, Send(a, h)
    PROVE  DataInv'
  <1>1. \A g \in Handlers : /\ stage'[g] = stage[g] \/ (stage[g] = "idle" /\ stage'[g] = "received")
                            /\ todo'[g] \subseteq todo[g] \cup rows[a]
    BY DEF Send, IInv, TypeOK
  <1>2. UNCHANGED <<mine, ack, stored, rows, answer, status>>
    BY DEF Send, pcVars
  <1>3. \A b \in Agents : rows[b] \subseteq Captured
    BY DEF IInv, DataInv, CapturedInv
  <1> QED
    BY <1>1, <1>2, <1>3, AgentDataInv

(* A request that ends takes nothing but its own uncommitted rows along. *)
LEMMA EndRequestDataInv ==
    ASSUME IInv, NEW h \in Handlers, EndRequest(h), UNCHANGED <<status, stored>>,
           \A a \in Agents : rows'[a] \subseteq rows[a],
           \A a \in Agents, e \in Events : answer'[a][e] \in Positive => stored[e] = 1
    PROVE  DataInv'
  <1> USE DEF IInv, DataInv
  <1>1. CapturedInv'
    BY DEF EndRequest, TypeOK, CapturedInv, Captured
  <1>2. UncommittedInv' /\ StoredOnce' /\ SentIsStored'
    BY DEF EndRequest, TypeOK, UncommittedInv, StoredOnce, SentIsStored
  <1>3. AckInv'
    BY NoAnswerIsNegative DEF EndRequest, TypeOK, AckInv
  <1> QED
    BY <1>1, <1>2, <1>3

(* An answer noted in a request is negative, or backed by a row, new or    *)
(* old; a new row is one that no table and no other request holds.         *)
LEMMA AcknowledgeDataInv ==
    ASSUME IInv, NEW h \in Handlers, NEW e \in Events, NEW a \in Answers,
           Acknowledge(h, e, a), stage[h] \in {"check", "create", "insert"}, e \in todo[h],
           NEW M \in SUBSET {e}, mine' = [mine EXCEPT ![h] = mine[h] \cup M],
           UNCHANGED <<status, rows, answer, stored>>,
           M # {} => stored[e] = 0 /\ \A g \in Handlers \ {h} : e \notin mine[g],
           a \in Positive => stored[e] = 1 \/ e \in mine[h] \cup M
    PROVE  DataInv'
  <1> USE DEF IInv, DataInv
  <1>1. \A g \in Handlers : mine'[g] = IF g = h THEN mine[h] \cup M ELSE mine[g]
    BY DEF TypeOK
  <1>2. \A g \in Handlers : /\ todo'[g] \subseteq todo[g]
                            /\ stage'[g] = IF g = h THEN "check" ELSE stage[g]
    BY DEF Acknowledge, TypeOK
  <1>3. CapturedInv'
    BY <1>1, <1>2 DEF CapturedInv, Captured
  <1>4. UncommittedInv'
    BY <1>1, <1>2 DEF UncommittedInv
  <1>5. StoredOnce' /\ SentIsStored'
    BY DEF StoredOnce, SentIsStored
  <1>6. \A g \in Handlers, k \in Events :
            ack'[g][k] = IF g = h /\ k = e THEN a ELSE ack[g][k]
    BY DEF Acknowledge, TypeOK
  <1>7. AckInv'
    BY <1>1, <1>6 DEF AckInv
  <1> QED
    BY <1>3, <1>4, <1>5, <1>7

LEMMA AnswerDataInv ==
    ASSUME IInv, NEW h \in Handlers, NEW e \in Events, NEW a \in Answers,
           Acknowledge(h, e, a), stage[h] \in {"check", "create", "insert"}, e \in todo[h],
           UNCHANGED <<status, rows, answer, mine, stored>>,
           a \in Positive => stored[e] = 1 \/ e \in mine[h]
    PROVE  DataInv'
  <1>1. {} \in SUBSET {e} /\ mine' = [mine EXCEPT ![h] = mine[h] \cup {}]
    BY DEF IInv, TypeOK
  <1> QED
    BY <1>1, AcknowledgeDataInv

(* A commit moves a request's rows into the table and nothing else. *)
LEMMA StoreMineDataInv ==
    ASSUME IInv, NEW h \in Handlers, StoreMine(h),
           UNCHANGED <<status, rows, answer, todo, ack>>,
           \A g \in Handlers \ {h} : stage'[g] = stage[g]
    PROVE  DataInv'
  <1> USE DEF IInv, DataInv
  <1>1. \A g \in Handlers : mine'[g] = IF g = h THEN {} ELSE mine[g]
    BY DEF StoreMine, TypeOK
  <1>2. \A e \in Events : stored'[e] = IF e \in mine[h] THEN stored[e] + 1 ELSE stored[e]
    BY DEF StoreMine
  <1>3. \A e \in mine[h] : e \in Events /\ stored[e] = 0 /\ stored'[e] = 1
    BY <1>2 DEF UncommittedInv, TypeOK
  <1>4. \A e \in Events : stored[e] = 1 => stored'[e] = 1
    BY <1>2, <1>3
  <1>5. CapturedInv'
    BY <1>1, <1>2 DEF CapturedInv, Captured, TypeOK
  <1>6. UncommittedInv'
    BY <1>1, <1>2 DEF UncommittedInv, TypeOK
  <1>7. StoredOnce'
    BY <1>2, <1>3 DEF StoredOnce
  <1>8. AckInv' /\ SentIsStored'
    BY <1>1, <1>3, <1>4 DEF AckInv, SentIsStored
  <1> QED
    BY <1>5, <1>6, <1>7, <1>8

LEMMA ServerDataInv ==
    ASSUME IInv, NEW h \in Handlers,
           \/ Serve(h) \/ Release(h) \/ CrashHandler(h)
           \/ \E e \in Events : EndDeadlock(h, e) \/ InsertFails(h, e)
    PROVE  DataInv'
  <1> USE DEF pcVars, agentVars, reqVars
  <1>1. CASE Refuse(h)
    BY <1>1, EndRequestDataInv DEF Refuse, IInv, DataInv, AckInv
  <1>2. CASE Accept(h)
    <2>1. \A g \in Handlers : stage'[g] = stage[g] \/ stage'[g] = "check"
      BY <1>2 DEF Accept, IInv, TypeOK
    <2> QED
      BY <1>2, <2>1, AgentDataInv DEF Accept, IInv, DataInv, CapturedInv
  <1>3. CASE Commit(h)
    BY <1>3, StoreMineDataInv DEF Commit, IInv, TypeOK
  <1>4. CASE Release(h)
    BY <1>4, StoreMineDataInv DEF Release
  <1>5. CASE Respond(h)
    <2>1. \A a \in Agents, e \in Events : answer'[a][e] \in Positive => stored[e] = 1
      <3> SUFFICES ASSUME NEW a \in Agents, NEW e \in Events, answer'[a][e] \in Positive
                   PROVE  stored[e] = 1
        OBVIOUS
      <3>1. answer'[a] = IF at[a] = h THEN ack[h] ELSE answer[a]
        BY <1>5 DEF Respond
      <3>2. mine[h] = {}
        BY <1>5 DEF Respond, IInv, DataInv, UncommittedInv
      <3> QED
        BY <3>1, <3>2 DEF IInv, DataInv, AckInv
    <2> QED
      BY <1>5, <2>1, EndRequestDataInv DEF Respond
  <1>6. CASE CrashHandler(h)
    BY <1>6, EndRequestDataInv DEF CrashHandler, IInv, DataInv, AckInv
  <1>7. ASSUME NEW e \in Events, Check(h, e) PROVE DataInv'
    <2>1. CASE Exists(h, e) /\ Acknowledge(h, e, "duplicate")
      <3>1. stored[e] = 1 \/ e \in mine[h]
        BY <2>1 DEF Exists, IInv, TypeOK, DataInv, StoredOnce
      <3> QED
        BY <1>7, <2>1, <3>1, AnswerDataInv DEF Check, IsCurrent, Answers
    <2>2. CASE /\ stage' = [stage EXCEPT ![h] = IF QueueSeen(h, e) THEN "insert" ELSE "create"]
               /\ UNCHANGED <<todo, ack>>
      <3>1. \A g \in Handlers : stage'[g] = stage[g] \/ stage'[g] \in {"insert", "create"}
        BY <2>2 DEF IInv, TypeOK
      <3> QED
        BY <1>7, <2>2, <3>1, AgentDataInv DEF Check, IInv, DataInv, CapturedInv
    <2> QED
      BY <1>7, <2>1, <2>2 DEF Check
  <1>8. ASSUME NEW e \in Events, Insert(h, e) PROVE DataInv'
    <2>1. CASE Collides(h, e)
      BY <1>8, <2>1, AnswerDataInv DEF Insert, Flushes, IsCurrent, Answers, Positive
    <2>2. CASE ~Collides(h, e)
      <3>1. stored[e] = 0
        BY <2>2 DEF Collides, IInv, TypeOK
      <3>2. \A g \in Handlers \ {h} : e \notin mine[g]
        BY <1>8 DEF Insert, Holds
      <3>3. mine' = [mine EXCEPT ![h] = mine[h] \cup {e}]
        BY <1>8, <2>2 DEF Insert
      <3> QED
        BY <1>8, <2>2, <3>1, <3>2, <3>3, AcknowledgeDataInv
        DEF Insert, Flushes, IsCurrent, Answers, Positive
    <2> QED
      BY <2>1, <2>2
  <1>9. ASSUME NEW e \in Events, EndDeadlock(h, e) \/ InsertFails(h, e) PROVE DataInv'
    BY <1>9, AnswerDataInv DEF EndDeadlock, InsertFails, Flushes, IsCurrent, Answers, Positive
  <1> QED
    BY <1>1, <1>2, <1>3, <1>4, <1>5, <1>6, <1>7, <1>8, <1>9 DEF Serve

(* The invariant holds in every state: whatever cycles, requests, crashes  *)
(* and time-outs overlap.                                                  *)
THEOREM InvariantHolds == Spec => []IInv
<1>1. IInv /\ [Next]_vars => IInv'
  <2> SUFFICES ASSUME IInv, [Next]_vars PROVE IInv'
    OBVIOUS
  <2>1. TypeOK'
    BY NextTypeOK DEF IInv
  <2>2. ASSUME NEW a \in Agents, Cycle(a) \/ Disturb(a) PROVE DataInv'
    BY <2>1, <2>2, CycleDataInv
  <2>3. ASSUME NEW a \in Agents, NEW h \in Handlers, Send(a, h) PROVE DataInv'
    BY <2>3, SendDataInv
  <2>4. ASSUME NEW h \in Handlers,
               \/ Serve(h) \/ Release(h) \/ CrashHandler(h)
               \/ \E e \in Events : EndDeadlock(h, e) \/ InsertFails(h, e)
        PROVE  DataInv'
    BY <2>4, ServerDataInv
  <2>5. CASE UNCHANGED <<status, agentVars, reqVars, stored>>
    BY <2>1, <2>5 DEF IInv, DataInv, CapturedInv, Captured, UncommittedInv, StoredOnce, AckInv,
                      SentIsStored, agentVars, reqVars
  <2>6. CASE LogEvent \/ Disable \/ Enable \/ UNCHANGED vars \/ \E e \in Events : BackoffElapses(e)
    BY <2>5, <2>6 DEF LogEvent, Disable, Enable, BackoffElapses, vars, pcVars, agentVars, reqVars
  <2> QED
    BY <2>1, <2>2, <2>3, <2>4, <2>6 DEF Next, IInv
<1>2. Init => IInv
  BY InitTypeOK, InitDataInv DEF IInv
<1> QED
  BY <1>1, <1>2, PTL DEF Spec

(* An event the agent will never send again is committed at the site. *)
THEOREM SentStored == Spec => []SentIsStored
<1>1. IInv => SentIsStored
  BY DEF IInv, DataInv
<1> QED
  BY <1>1, InvariantHolds, PTL

(* No event becomes two jobs of the site. *)
THEOREM NeverStoredTwice == Spec => []StoredOnce
<1>1. IInv => StoredOnce
  BY DEF IInv, DataInv
<1> QED
  BY <1>1, InvariantHolds, PTL

-----------------------------------------------------------------------------
(* Refinement of JobDelivery *)

(* Seen as captured, stored and sent events, the agent and the server do   *)
(* what JobDelivery promises.                                              *)
THEOREM Implements == Spec => DeliverySpec
<1> DEFINE Sent == {e \in Events : status[e] = "sent"}
           Stored == {e \in Events : stored[e] > 0}
<1> USE DEF Delivery!vars, pcVars, agentVars, reqVars
<1>1. Init => Delivery!Init
  BY DEF Init, Delivery!Init
<1>2. IInv /\ IInv' /\ [Next]_vars => [Delivery!Next]_(Delivery!vars)
  <2> SUFFICES ASSUME IInv, IInv', [Next]_vars PROVE Delivery!Next \/ UNCHANGED Delivery!vars
    OBVIOUS
  <2> USE DEF Delivery!Next
  <2>1. ASSUME NEW a \in Agents, Capture(a) PROVE Delivery!Record \/ UNCHANGED Delivery!vars
    <3>1. UNCHANGED <<Stored, Sent>> /\ Captured \subseteq Captured'
      BY <2>1 DEF Capture, Captured, IInv, TypeOK
    <3>2. Captured' = Captured \cup (Captured' \ Captured)
          /\ Captured' \ Captured \in SUBSET (Events \ Captured)
      BY <3>1 DEF Captured
    <3>3. CASE Captured' = Captured
      BY <3>1, <3>3 DEF Captured
    <3>4. CASE Captured' \ Captured # {}
      BY <3>1, <3>2, <3>4 DEF Delivery!Record, Captured
    <3> QED
      BY <3>2, <3>3, <3>4
  <2>2. ASSUME NEW h \in Handlers, StoreMine(h), UNCHANGED status
        PROVE  Delivery!Store \/ UNCHANGED Delivery!vars
    <3>1. \A e \in Events : stored'[e] > 0 <=> stored[e] > 0 \/ e \in mine[h]
      BY <2>2 DEF StoreMine, IInv, TypeOK
    <3>2. mine[h] \subseteq Captured \ Stored
      BY DEF IInv, DataInv, CapturedInv, UncommittedInv, Captured
    <3>3. Stored' = Stored \cup mine[h] /\ UNCHANGED <<Captured, Sent>>
      BY <2>2, <3>1, <3>2 DEF Captured
    <3>4. CASE mine[h] = {}
      BY <3>3, <3>4 DEF Captured
    <3>5. CASE mine[h] # {}
      BY <3>2, <3>3, <3>5 DEF Delivery!Store, Captured
    <3> QED
      BY <3>4, <3>5
  <2>3. ASSUME NEW a \in Agents, NEW e \in Events, ApplyRow(a, e) PROVE Delivery!Confirm
    <3>1. UNCHANGED Stored /\ Sent \subseteq Stored /\ Sent' \subseteq Stored
      BY <2>3 DEF ApplyRow, IInv, DataInv, SentIsStored
    <3>2. e \in Captured
      BY <2>3 DEF ApplyRow, IsNextRow, IInv, DataInv, CapturedInv
    <3>3. UNCHANGED Captured
      BY <2>3, <3>2 DEF ApplyRow, Outcome, IInv, TypeOK, Captured
    <3>4. Sent' = (Sent \ Sent) \cup Sent'
      OBVIOUS
    <3> QED
      BY <3>1, <3>3, <3>4 DEF Delivery!Confirm, Captured
  <2>4. CASE UNCHANGED <<status, stored>>
    BY <2>4
  <2> QED
    BY <2>1, <2>2, <2>3, <2>4
    DEF Next, vars, LogEvent, BackoffElapses, Cycle, Disturb, Begin, SetCursor, FetchDue, Rest,
        Finish, RetryRow, CaptureFails, LoseRequest, Timeout, CrashAgent, Send, Serve, Release,
        CrashHandler, EndDeadlock, InsertFails, Disable, Enable, Refuse, Accept, Commit, Respond, Check, Insert
<1> QED
  BY <1>1, <1>2, InvariantHolds, PTL DEF Spec, Delivery!Spec, DeliverySpec

-----------------------------------------------------------------------------
(* Who is judged.  An agent that waits finds each of its rows either still *)
(* in the batch of its request or answered, and a batch that has been      *)
(* accepted is free of malformed events.                                   *)

(* Every row that agent a still has to write back is well-formed and has   *)
(* an answer.                                                              *)
JudgedBatch(a) == \A k \in rows[a] : k \notin Malformed /\ answer[a][k] # "none"

JudgedInv ==
    /\ \A a \in Agents : pc[a] # "wait" => at[a] = NoHandler
    /\ \A a \in Agents : pc[a] = "apply" => JudgedBatch(a)
    /\ \A a \in Agents, h \in Handlers : at[a] = h =>
           /\ stage[h] # "idle"
           /\ stage[h] = "received" => rows[a] \subseteq todo[h]
           /\ stage[h] # "received" => rows[a] \cap Malformed = {}
           /\ \A e \in rows[a] : e \in todo[h] \/ ack[h][e] # "none"
    /\ \A h \in Handlers : stage[h] = "respond" => todo[h] = {}

(* Steps that leave the requests alone: an agent keeps what it holds,      *)
(* drops rows, or goes on without an answer.                               *)
LEMMA AgentJudged ==
    ASSUME TypeOK, JudgedInv, UNCHANGED <<stage, todo, ack>>,
           \A a \in Agents : \/ /\ UNCHANGED <<pc[a], at[a], answer[a]>>
                                /\ rows'[a] \subseteq rows[a]
                             \/ pc'[a] \notin {"wait", "apply"} /\ at'[a] = NoHandler
    PROVE  JudgedInv'
  BY HandlerAssumption DEF JudgedInv, JudgedBatch

LEMMA CycleJudged ==
    ASSUME TypeOK, JudgedInv, NEW a \in Agents, Cycle(a) \/ Disturb(a)
    PROVE  JudgedInv'
  <1> USE DEF TypeOK, agentVars, reqVars
  <1>1. ASSUME NEW e \in Events, ApplyRow(a, e) \/ RetryRow(a, e) PROVE JudgedInv'
    <2>1. /\ UNCHANGED <<stage, todo, ack, pc, at, answer>>
          /\ \A b \in Agents : rows'[b] \subseteq rows[b]
      BY <1>1 DEF ApplyRow, RetryRow
    <2> QED
      BY <2>1, AgentJudged
  <1>2. CASE Begin(a) \/ Capture(a) \/ SetCursor(a) \/ FetchDue(a) \/ Rest(a)
             \/ CaptureFails(a) \/ LoseRequest(a)
    <2>1. /\ UNCHANGED <<stage, todo, ack, at>>
          /\ \A b \in Agents \ {a} : UNCHANGED <<pc[b], rows[b], answer[b]>>
          /\ pc[a] # "wait" /\ pc'[a] \notin {"wait", "apply"}
      BY <1>2 DEF Begin, Capture, SetCursor, FetchDue, Rest, CaptureFails, LoseRequest
    <2>2. at[a] = NoHandler
      BY <2>1 DEF JudgedInv
    <2> QED
      BY <2>1, <2>2, AgentJudged
  <1>3. CASE Finish(a) \/ Timeout(a) \/ CrashAgent(a)
    <2>1. UNCHANGED <<stage, todo, ack>> /\ (EndCycle(a, "idle") \/ EndCycle(a, "raised"))
      BY <1>3 DEF Finish, Timeout, CrashAgent
    <2>2. /\ \A b \in Agents \ {a} : UNCHANGED <<pc[b], rows[b], at[b], answer[b]>>
          /\ pc'[a] \in {"idle", "raised"} /\ at'[a] = NoHandler
      BY <2>1 DEF EndCycle
    <2> QED
      BY <2>1, <2>2, AgentJudged
  <1> QED
    BY <1>1, <1>2, <1>3 DEF Cycle, Disturb

LEMMA SendJudged ==
    ASSUME TypeOK, JudgedInv, NEW a \in Agents, NEW h \in Handlers, Send(a, h)
    PROVE  JudgedInv'
  <1>1. \A b \in Agents : at[b] # h
    BY DEF JudgedInv, Send
  <1>2. /\ \A b \in Agents \ {a} : pc'[b] = pc[b] /\ at'[b] = at[b]
        /\ pc'[a] = "wait" /\ at'[a] = h /\ UNCHANGED <<rows, answer, ack>>
        /\ \A g \in Handlers \ {h} : stage'[g] = stage[g] /\ todo'[g] = todo[g]
        /\ stage'[h] = "received" /\ todo'[h] = rows[a]
    BY DEF Send, TypeOK
  <1> QED
    BY <1>1, <1>2 DEF JudgedInv, JudgedBatch

(* An answer to one event; the batch has been accepted. *)
LEMMA AcknowledgeJudged ==
    ASSUME TypeOK, JudgedInv, NEW h \in Handlers, NEW e \in Events,
           NEW x \in Answers \ {"none"}, Acknowledge(h, e, x),
           stage[h] \notin {"idle", "received"}, UNCHANGED agentVars
    PROVE  JudgedInv'
  <1>1. /\ \A g \in Handlers \ {h} : UNCHANGED <<stage[g], todo[g], ack[g]>>
        /\ stage'[h] = "check" /\ todo'[h] = todo[h] \ {e}
        /\ \A k \in Events : ack'[h][k] = IF k = e THEN x ELSE ack[h][k]
    BY DEF Acknowledge, TypeOK
  <1>2. \A a \in Agents : rows[a] \subseteq Events
    BY DEF TypeOK
  <1> QED
    BY <1>1, <1>2 DEF JudgedInv, JudgedBatch, agentVars

(* The request ends; who waited for it goes on, with an answer only if the *)
(* request has been answered.                                              *)
LEMMA EndRequestJudged ==
    ASSUME TypeOK, JudgedInv, NEW h \in Handlers, NEW p, EndRequest(h), Notify(h, p),
           \A a \in Agents : rows'[a] \subseteq rows[a],
           \/ p \in {"retry", "raised"} /\ UNCHANGED answer
           \/ /\ p = "apply" /\ stage[h] = "respond"
              /\ answer' = [a \in Agents |-> IF at[a] = h THEN ack[h] ELSE answer[a]]
    PROVE  JudgedInv'
  <1>1. /\ \A g \in Handlers \ {h} : UNCHANGED <<stage[g], todo[g], ack[g]>>
        /\ stage'[h] = "idle"
    BY DEF EndRequest, TypeOK
  <1>2. \A a \in Agents : /\ at[a] = h => pc'[a] = p /\ at'[a] = NoHandler
                          /\ at[a] # h => UNCHANGED <<pc[a], at[a], answer[a]>>
    BY DEF Notify
  <1>3. \A a \in Agents : at[a] = h /\ p = "apply" => JudgedBatch(a)'
    BY DEF JudgedInv, JudgedBatch
  <1> QED
    BY <1>1, <1>2, <1>3, HandlerAssumption DEF JudgedInv, JudgedBatch

LEMMA ServerJudged ==
    ASSUME TypeOK, JudgedInv, NEW h \in Handlers,
           \/ Serve(h) \/ Release(h) \/ CrashHandler(h)
           \/ \E e \in Events : EndDeadlock(h, e) \/ InsertFails(h, e)
    PROVE  JudgedInv'
  <1>1. CASE Refuse(h) \/ CrashHandler(h)
    <2>1. EndRequest(h) /\ UNCHANGED answer /\ \A a \in Agents : rows'[a] \subseteq rows[a]
      BY <1>1 DEF Refuse, CrashHandler
    <2>2. Notify(h, "retry") \/ Notify(h, "raised")
      BY <1>1 DEF Refuse, CrashHandler
    <2> QED
      BY <2>1, <2>2, EndRequestJudged
  <1>2. CASE Accept(h)
    <2>1. /\ \A g \in Handlers \ {h} : stage'[g] = stage[g]
          /\ stage[h] = "received" /\ stage'[h] = "check"
          /\ todo[h] \cap Malformed = {} /\ UNCHANGED <<pc, rows, at, answer, todo, ack>>
      BY <1>2 DEF Accept, TypeOK, agentVars
    <2> QED
      BY <2>1 DEF JudgedInv, JudgedBatch
  <1>3. ASSUME NEW e \in Events, Check(h, e) PROVE JudgedInv'
    <2>1. CASE /\ stage' = [stage EXCEPT ![h] = IF QueueSeen(h, e) THEN "insert" ELSE "create"]
               /\ UNCHANGED <<todo, ack>>
      <3>1. /\ \A g \in Handlers \ {h} : stage'[g] = stage[g]
            /\ stage[h] = "check" /\ stage'[h] \in {"insert", "create"}
            /\ UNCHANGED <<pc, rows, at, answer, todo, ack>>
        BY <1>3, <2>1 DEF Check, TypeOK, agentVars
      <3> QED
        BY <3>1 DEF JudgedInv, JudgedBatch
    <2>2. CASE Acknowledge(h, e, "duplicate")
      BY <1>3, <2>2, AcknowledgeJudged DEF Check, Answers
    <2> QED
      BY <1>3, <2>1, <2>2 DEF Check
  <1>4. ASSUME NEW e \in Events, Insert(h, e) \/ EndDeadlock(h, e) \/ InsertFails(h, e)
        PROVE  JudgedInv'
    <2>1. Acknowledge(h, e, "rejected") \/ Acknowledge(h, e, "inserted")
      BY <1>4 DEF Insert, EndDeadlock, InsertFails
    <2>2. stage[h] \notin {"idle", "received"} /\ UNCHANGED agentVars
      BY <1>4 DEF Insert, EndDeadlock, InsertFails, Flushes
    <2> QED
      BY <2>1, <2>2, AcknowledgeJudged DEF Answers
  <1>5. CASE Commit(h) \/ Release(h)
    <2>1. /\ \A g \in Handlers \ {h} : stage'[g] = stage[g]
          /\ stage[h] = "check"
          /\ stage'[h] = "check" \/ (stage'[h] = "respond" /\ todo[h] = {})
          /\ UNCHANGED <<pc, rows, at, answer, todo, ack>>
      BY <1>5 DEF Commit, Release, TypeOK, agentVars
    <2> QED
      BY <2>1 DEF JudgedInv, JudgedBatch
  <1>6. CASE Respond(h)
    <2>1. \A a \in Agents : rows'[a] \subseteq rows[a]
      BY <1>6 DEF Respond
    <2> QED
      BY <1>6, <2>1, EndRequestJudged DEF Respond
  <1> QED
    BY <1>1, <1>2, <1>3, <1>4, <1>5, <1>6 DEF Serve

LEMMA NextJudged == TypeOK /\ JudgedInv /\ [Next]_vars => JudgedInv'
  <1> SUFFICES ASSUME TypeOK, JudgedInv, [Next]_vars PROVE JudgedInv'
    OBVIOUS
  <1>1. CASE UNCHANGED <<agentVars, reqVars>>
    BY <1>1, AgentJudged DEF agentVars, reqVars
  <1>2. CASE LogEvent \/ Disable \/ Enable \/ UNCHANGED vars \/ \E e \in Events : BackoffElapses(e)
    BY <1>1, <1>2 DEF LogEvent, Disable, Enable, BackoffElapses, vars
  <1> QED
    BY <1>2, CycleJudged, SendJudged, ServerJudged DEF Next

(* A row becomes failed only by a cycle that received a refusal of that    *)
(* very row and an answer for every row it still has to write back, none   *)
(* of them malformed: whatever cycles, requests and processes overlap.     *)
THEOREM FailuresWereJudged == Spec => FailedWasJudged
<1>1. Init => JudgedInv
  BY HandlerAssumption DEF Init, JudgedInv
<1>2. TypeOK /\ JudgedInv /\ [Next]_vars =>
        [\A e \in Events :
            status[e] # "failed" /\ status'[e] = "failed" =>
                \E a \in Agents :
                    /\ e \in rows[a] /\ answer[a][e] = "rejected"
                    /\ \A k \in rows[a] : k \notin Malformed /\ answer[a][k] # "none"]_vars
  <2> SUFFICES ASSUME TypeOK, JudgedInv, [Next]_vars, NEW e \in Events,
                      status[e] # "failed", status'[e] = "failed"
               PROVE  \E a \in Agents : /\ e \in rows[a] /\ answer[a][e] = "rejected"
                                        /\ JudgedBatch(a)
    BY DEF JudgedBatch
  <2>1. PICK a \in Agents, k \in Events : ApplyRow(a, k)
    <3>1. CASE UNCHANGED status
      BY <3>1
    <3>2. ASSUME NEW a \in Agents, Capture(a) PROVE FALSE
      BY <3>2 DEF Capture
    <3> QED
      BY <3>1, <3>2
      DEF Next, vars, pcVars, LogEvent, BackoffElapses, Cycle, Disturb, Begin, SetCursor, FetchDue,
          Rest, Finish, RetryRow, CaptureFails, LoseRequest, Timeout, CrashAgent, Send, Serve,
          Release, CrashHandler, EndDeadlock, InsertFails, Disable, Enable, Refuse, Accept, Commit,
          Respond, Check, Insert
  <2>2. status' = [status EXCEPT ![k] = Outcome(a, k)] /\ k \in rows[a] /\ pc[a] = "apply"
    BY <2>1 DEF ApplyRow, IsNextRow
  <2>3. e = k /\ Outcome(a, e) = "failed"
    BY <2>2 DEF TypeOK
  <2>4. answer[a][e] = "rejected"
    BY <2>3 DEF Outcome
  <2> QED
    BY <2>2, <2>3, <2>4 DEF JudgedInv
<1> QED
  BY <1>1, <1>2, NextJudged, TypeCorrect, PTL DEF Spec, FailedWasJudged
=============================================================================
