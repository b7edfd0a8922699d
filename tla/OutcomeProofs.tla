---------------------------- MODULE OutcomeProofs ----------------------------
(***************************************************************************)
(* Outcome prediction, its two sides.  OutcomeService answers requests: the *)
(* argument is in the history, where append keeps one run of valid         *)
(* snapshots, and so every window of it is one.  OutcomeTraining makes the *)
(* models: the argument is in what a script in progress holds, which nothing *)
(* changes under it but the collection, and in the lock of the test.       *)
(***************************************************************************)
EXTENDS OutcomeService, OutcomeTraining, FiniteSetTheorems, SequenceTheorems, TLAPS

-----------------------------------------------------------------------------
(* The history buffer.                                                     *)

\* Push appends the entry to the buffer, or to its tail.
LEMMA PushIs ==
  ASSUME NEW S, NEW buffer \in Seq(S), NEW entry \in S, Len(buffer) <= Capacity
  PROVE  /\ Push(buffer, entry) \in Seq(S)
         /\ Len(Push(buffer, entry)) \in 1 .. Capacity
         /\ LatestOf(Push(buffer, entry)) = entry
         /\ \E d \in {0, 1} :
              /\ Len(Push(buffer, entry)) = Len(buffer) + 1 - d
              /\ \A i \in 1 .. Len(Push(buffer, entry)) - 1 :
                   Push(buffer, entry)[i] = buffer[i + d]
<1>1. Capacity \in Nat /\ Capacity > 0 /\ Len(buffer) \in Nat
  BY HistoryAssumption DEF Capacity
<1>2. CASE Len(buffer) = Capacity
  <2>1. Tail(buffer) \in Seq(S) /\ Len(Tail(buffer)) = Len(buffer) - 1
    BY <1>1, <1>2
  <2>2. \A i \in 1 .. Len(Tail(buffer)) : Tail(buffer)[i] = buffer[i + 1]
    BY <1>1, <1>2
  <2>3. Push(buffer, entry) = Append(Tail(buffer), entry)
    BY <1>2 DEF Push
  <2>4. Len(Push(buffer, entry)) = Len(buffer)
    BY <1>1, <2>1, <2>3
  <2>5. \A i \in 1 .. Len(buffer) - 1 : Push(buffer, entry)[i] = buffer[i + 1]
    BY <1>1, <2>1, <2>2, <2>3
  <2>6. Push(buffer, entry)[Len(buffer)] = entry
    BY <1>1, <2>1, <2>3
  <2>. QED
    BY <1>1, <1>2, <2>1, <2>3, <2>4, <2>5, <2>6 DEF LatestOf
<1>3. CASE Len(buffer) # Capacity
  <2>1. Push(buffer, entry) = Append(buffer, entry)
    BY <1>3 DEF Push
  <2>2. Len(Push(buffer, entry)) = Len(buffer) + 1 /\ Push(buffer, entry) \in Seq(S)
    BY <1>1, <2>1
  <2>3. \A i \in 1 .. Len(buffer) : Push(buffer, entry)[i] = buffer[i + 0]
    BY <1>1, <2>1
  <2>4. Push(buffer, entry)[Len(buffer) + 1] = entry
    BY <1>1, <2>1
  <2>. QED
    BY <1>1, <1>3, <2>2, <2>3, <2>4 DEF LatestOf
<1>. QED
  BY <1>2, <1>3

\* An entry that follows the latest one extends the run.
LEMMA PushKeepsRun ==
  ASSUME NEW S, NEW buffer \in Seq(S), NEW entry \in S, Len(buffer) <= Capacity,
         OneRun(buffer), buffer # <<>> => Follows(LatestOf(buffer), entry)
  PROVE  OneRun(Push(buffer, entry))
<1>. DEFINE new == Push(buffer, entry)
<1>1. PICK d \in {0, 1} :
        /\ Len(new) = Len(buffer) + 1 - d
        /\ \A i \in 1 .. Len(new) - 1 : new[i] = buffer[i + d]
  BY PushIs
<1>2. LatestOf(new) = entry /\ Len(new) \in Nat /\ Len(buffer) \in Nat
  <2>1. LatestOf(new) = entry /\ new \in Seq(S)
    BY PushIs
  <2>. QED
    BY <2>1
<1>. SUFFICES ASSUME NEW i \in 1 .. Len(new) - 1
              PROVE  Follows(new[i], new[i + 1])
  BY DEF OneRun
<1>3. new[i] = buffer[i + d] /\ i + d \in 1 .. Len(buffer)
  BY <1>1, <1>2
<1>4. CASE i + 1 = Len(new)
  <2>1. new[i + 1] = entry
    BY <1>2, <1>4 DEF LatestOf
  <2>2. i + d = Len(buffer) /\ buffer # <<>>
    BY <1>1, <1>2, <1>3, <1>4
  <2>. QED
    BY <1>3, <2>1, <2>2 DEF LatestOf
<1>5. CASE i + 1 # Len(new)
  <2>1. new[i + 1] = buffer[(i + d) + 1] /\ i + d \in 1 .. Len(buffer) - 1
    BY <1>1, <1>2, <1>5
  <2>. QED
    BY <1>3, <2>1 DEF OneRun
<1>. QED
  BY <1>4, <1>5

\* Whatever append answers, a run of valid entries stays one.
LEMMA StoredIsOneRun ==
  ASSUME NEW S, \A x \in S : x.time \in Int,
         NEW buffer \in Seq(S), NEW entry \in S, NEW valid \in BOOLEAN,
         Len(buffer) <= Capacity, OneRun(buffer)
  PROVE  LET new == Stored(buffer, entry, AppendStatus(buffer, entry, valid))
         IN  /\ new \in Seq(S)
             /\ Len(new) <= Capacity
             /\ OneRun(new)
             /\ new = buffer \/ valid
             /\ \A i \in DOMAIN new : new[i] = entry \/ \E j \in DOMAIN buffer : new[i] = buffer[j]
<1>. DEFINE status == AppendStatus(buffer, entry, valid)
            new == Stored(buffer, entry, status)
<1>. SUFFICES /\ new \in Seq(S)
              /\ Len(new) <= Capacity
              /\ OneRun(new)
              /\ new = buffer \/ valid
              /\ \A i \in DOMAIN new : new[i] = entry \/ \E j \in DOMAIN buffer : new[i] = buffer[j]
  OBVIOUS
<1>. HIDE DEF status, new
<1>1. Capacity \in Nat /\ Capacity > 0 /\ MaxGap \in Nat /\ Len(buffer) \in Nat
  BY HistoryAssumption DEF Capacity
<1>2. CASE status = "APPENDED"
  <2>1. valid /\ new = Push(buffer, entry)
    BY <1>2 DEF status, new, AppendStatus, Stored
  <2>2. ASSUME buffer # <<>> PROVE Follows(LatestOf(buffer), entry)
    <3>1. LatestOf(buffer) \in S
      BY <2>2 DEF LatestOf
    <3>2. LET delta == entry.time - LatestOf(buffer).time
          IN  delta # 0 /\ ~(delta < 0) /\ ~(delta > MaxGap)
      BY <1>2, <2>2 DEF status, AppendStatus
    <3>. QED
      BY <1>1, <3>1, <3>2 DEF Follows
  <2>3. OneRun(new)
    BY <2>1, <2>2, PushKeepsRun
  <2>4. new \in Seq(S) /\ Len(new) <= Capacity /\ LatestOf(new) = entry /\ Len(new) \in Nat
    <3>1. /\ Push(buffer, entry) \in Seq(S)
          /\ Len(Push(buffer, entry)) \in 1 .. Capacity
          /\ LatestOf(Push(buffer, entry)) = entry
      BY PushIs
    <3>. QED
      BY <1>1, <2>1, <3>1
  <2>5. PICK d \in {0, 1} :
          /\ Len(new) = Len(buffer) + 1 - d
          /\ \A i \in 1 .. Len(new) - 1 : new[i] = buffer[i + d]
    <3>1. \E d \in {0, 1} :
            /\ Len(Push(buffer, entry)) = Len(buffer) + 1 - d
            /\ \A i \in 1 .. Len(Push(buffer, entry)) - 1 :
                 Push(buffer, entry)[i] = buffer[i + d]
      BY PushIs
    <3>. QED
      BY <2>1, <3>1
  <2>6. ASSUME NEW i \in DOMAIN new
        PROVE  new[i] = entry \/ \E j \in DOMAIN buffer : new[i] = buffer[j]
    <3>1. i \in 1 .. Len(new)
      BY <2>4
    <3>2. CASE i = Len(new)
      BY <2>4, <3>2 DEF LatestOf
    <3>3. CASE i # Len(new)
      <4>1. new[i] = buffer[i + d] /\ i + d \in 1 .. Len(buffer)
        <5>1. i \in 1 .. Len(new) - 1
          BY ONLY <2>4, <3>1, <3>3
        <5>2. new[i] = buffer[i + d]
          BY ONLY <2>5, <5>1
        <5>3. Len(buffer) \in Nat
          BY <1>1
        <5>4. i + d \in 1 .. Len(buffer)
          BY ONLY <2>4, <2>5, <5>1, <5>3, d \in {0, 1}
        <5>. QED
          BY ONLY <5>2, <5>4
      <4>. QED
        BY <4>1
    <3>. QED
      BY <3>2, <3>3
  <2>. QED
    BY <2>1, <2>3, <2>4, <2>6
<1>3. CASE status \in {"RESET_GAP", "RESET_OUT_OF_ORDER"}
  <2>1. valid /\ new = <<entry>>
    BY <1>3 DEF status, new, AppendStatus, Stored
  <2>2. new \in Seq(S) /\ Len(new) = 1 /\ new[1] = entry /\ DOMAIN new = {1}
    BY <2>1
  <2>3. OneRun(new)
    BY <2>2 DEF OneRun
  <2>. QED
    BY <1>1, <2>1, <2>2, <2>3
<1>4. CASE status \notin {"APPENDED", "RESET_GAP", "RESET_OUT_OF_ORDER"}
  <2>1. new = buffer
    BY <1>4 DEF new, Stored
  <2>. QED
    BY <1>1, <2>1
<1>. QED
  BY <1>2, <1>3, <1>4

\* A window of a run is a run.
LEMMA WindowIsOneRun ==
  ASSUME NEW S, NEW buffer \in Seq(S), HasHistory(buffer), OneRun(buffer)
  PROVE  /\ History(buffer) \in Seq(S)
         /\ Len(History(buffer)) = HistorySteps
         /\ OneRun(History(buffer))
         /\ \A i \in DOMAIN History(buffer) : \E j \in DOMAIN buffer : History(buffer)[i] = buffer[j]
<1>. DEFINE first == Len(buffer) - HistorySteps + 1
            window == SubSeq(buffer, first, Len(buffer))
<1>1. Len(buffer) \in Nat /\ HistorySteps \in Nat /\ first \in 1 .. Len(buffer)
  BY HistoryAssumption DEF HasHistory
<1>2. /\ window \in Seq(S)
      /\ Len(window) = HistorySteps
      /\ \A i \in 1 .. HistorySteps : window[i] = buffer[first + i - 1]
  <2>1. /\ window \in Seq(S)
        /\ Len(window) = Len(buffer) - first + 1
        /\ \A i \in 1 .. Len(buffer) - first + 1 : window[i] = buffer[first + i - 1]
    BY <1>1, SubSeqProperties
  <2>. QED
    BY <1>1, <2>1
<1>3. History(buffer) = window
  BY DEF History
<1>. HIDE DEF window
<1>4. OneRun(window)
  <2>. SUFFICES ASSUME NEW i \in 1 .. Len(window) - 1
                PROVE  Follows(window[i], window[i + 1])
    BY DEF OneRun
  <2>1. window[i] = buffer[first + i - 1] /\ window[i + 1] = buffer[first + i - 1 + 1]
    BY <1>1, <1>2
  <2>2. first + i - 1 \in 1 .. Len(buffer) - 1
    BY <1>1, <1>2
  <2>. QED
    BY <2>1, <2>2 DEF OneRun
<1>5. ASSUME NEW i \in DOMAIN window
      PROVE  \E j \in DOMAIN buffer : window[i] = buffer[j]
  <2>1. i \in 1 .. HistorySteps
    BY <1>1, <1>2, <1>5
  <2>2. first + i - 1 \in DOMAIN buffer
    BY <1>1, <2>1
  <2>. QED
    BY <1>2, <2>1, <2>2
<1>. QED
  BY <1>2, <1>3, <1>4, <1>5

-----------------------------------------------------------------------------
(* The service.                                                            *)

LEMMA SnapshotTimes == \A x \in Snapshot : x.time \in Int
  BY OutcomeAssumption DEF Snapshot

\* The telemetry thread leaves requests alone, the requests its state.
LEMMA TelemetryStep ==
  ASSUME OutcomeInvariant, UNCHANGED <<request, answer>>,
         twin' \in Snapshot \cup {NoTwin}, pending' \in BOOLEAN,
         pending' => twin' \in Snapshot,
         observed' \in Seq(Snapshot), Len(observed') <= Capacity, HistoryIsOneRun'
  PROVE  OutcomeInvariant'
<1>1. OutcomeTypeOK'
  BY DEF OutcomeInvariant, OutcomeTypeOK
<1>2. CheckedRequestIsOwned' /\ ReadyAnswerIsOwned'
  BY DEF OutcomeInvariant, CheckedRequestIsOwned, ReadyAnswerIsOwned
<1>. QED
  BY <1>1, <1>2 DEF OutcomeInvariant

LEMMA PublishInvariant ==
  ASSUME OutcomeInvariant,
         NEW time \in 0 .. MaxTime, NEW ownership \in [Switch -> Controller],
         NEW valid \in BOOLEAN, Publish(time, ownership, valid)
  PROVE  OutcomeInvariant'
<1>1. Published \in 0 .. MaxSnapshots
  <2>1. twin \in Snapshot \cup {NoTwin} /\ MaxSnapshots \in Nat
    BY OutcomeAssumption DEF OutcomeInvariant, OutcomeTypeOK
  <2>2. CASE twin = NoTwin
    BY <2>1, <2>2 DEF Published
  <2>3. CASE twin # NoTwin
    <3>1. twin.id \in 1 .. MaxSnapshots
      BY <2>1, <2>3 DEF Snapshot
    <3>. QED
      BY <2>1, <2>3, <3>1 DEF Published
  <2>. QED
    BY <2>2, <2>3
<1>2. Published + 1 \in 1 .. MaxSnapshots
  BY <1>1, OutcomeAssumption DEF Publish
<1>3. twin' \in Snapshot
  BY <1>2 DEF Publish, Snapshot
<1>4. HistoryIsOneRun'
  BY DEF Publish, OutcomeInvariant, HistoryIsOneRun
<1>. QED
  BY <1>3, <1>4, TelemetryStep DEF Publish, OutcomeInvariant, OutcomeTypeOK

LEMMA ObserveInvariant ==
  ASSUME OutcomeInvariant, Observe
  PROVE  OutcomeInvariant'
<1>1. twin \in Snapshot /\ twin.valid \in BOOLEAN
  BY DEF OutcomeInvariant, OutcomeTypeOK, Observe, Snapshot
<1>2. /\ observed \in Seq(Snapshot) /\ Len(observed) <= Capacity /\ OneRun(observed)
      /\ \A j \in DOMAIN observed : observed[j].valid
  BY DEF OutcomeInvariant, OutcomeTypeOK, HistoryIsOneRun
<1>3. /\ observed' \in Seq(Snapshot)
      /\ Len(observed') <= Capacity
      /\ OneRun(observed')
      /\ observed' = observed \/ twin.valid
      /\ \A i \in DOMAIN observed' :
           observed'[i] = twin \/ \E j \in DOMAIN observed : observed'[i] = observed[j]
  BY <1>1, <1>2, SnapshotTimes, StoredIsOneRun DEF Observe
<1>4. HistoryIsOneRun'
  BY <1>2, <1>3 DEF HistoryIsOneRun, OneRun
<1>. QED
  BY <1>1, <1>3, <1>4, TelemetryStep DEF Observe, OutcomeInvariant, OutcomeTypeOK

LEMMA WriteFailsInvariant ==
  ASSUME OutcomeInvariant, WriteFails
  PROVE  OutcomeInvariant'
<1>1. HistoryIsOneRun'
  BY DEF WriteFails, OutcomeInvariant, HistoryIsOneRun
<1>. QED
  BY <1>1, TelemetryStep DEF WriteFails, OutcomeInvariant, OutcomeTypeOK

\* What is left to show of a step of a request.
LEMMA RequestStep ==
  ASSUME OutcomeInvariant, UNCHANGED telemetryVars,
         \/ request' = [at |-> "idle"]
         \/ request' \in [at : {"checks", "window"}, action : Action, twin : Snapshot \cup {NoTwin}],
         \/ answer' \in [reason : NotReadyReason \cup {"none", "HTTP 500"}]
         \/ /\ answer'.reason = "READY"
            /\ answer'.action \in Action /\ answer'.twin \in Snapshot
            /\ answer'.window \in Seq(Snapshot),
         CheckedRequestIsOwned', ReadyAnswerIsOwned'
  PROVE  OutcomeInvariant'
<1>1. OutcomeTypeOK' /\ HistoryIsOneRun'
  BY DEF OutcomeInvariant, OutcomeTypeOK, HistoryIsOneRun, telemetryVars
<1>. QED
  BY <1>1 DEF OutcomeInvariant

LEMMA AnswersInvariant ==
  ASSUME OutcomeInvariant, UNCHANGED telemetryVars,
         NEW reason \in NotReadyReason \cup {"HTTP 500"}, Answers(reason)
  PROVE  OutcomeInvariant'
<1>1. reason # "READY"
  BY DEF NotReadyReason
<1>2. CheckedRequestIsOwned' /\ ReadyAnswerIsOwned'
  BY <1>1 DEF Answers, CheckedRequestIsOwned, ReadyAnswerIsOwned
<1>. QED
  BY <1>2, RequestStep DEF Answers

LEMMA ReadTwinInvariant ==
  ASSUME OutcomeInvariant, NEW action \in Action, ReadTwin(action)
  PROVE  OutcomeInvariant'
<1>1. request' \in [at : {"checks", "window"}, action : Action, twin : Snapshot \cup {NoTwin}]
  BY DEF ReadTwin, OutcomeInvariant, OutcomeTypeOK
<1>2. CheckedRequestIsOwned' /\ ReadyAnswerIsOwned'
  BY DEF ReadTwin, CheckedRequestIsOwned, ReadyAnswerIsOwned
<1>. QED
  BY <1>1, <1>2, RequestStep DEF ReadTwin

\* The checks that find no problem have found the source to be the owner.
LEMMA NoProblemIsOwned ==
  ASSUME NEW state \in Snapshot \cup {NoTwin}, NEW action,
         "none" \in FirstProblem(state, action)
  PROVE  state \in Snapshot /\ state.ownership[action.switch] = action.source
BY DEF FirstProblem

\* A request that is not idle has read a state for an action.
LEMMA RequestIs ==
  ASSUME OutcomeTypeOK, request.at # "idle"
  PROVE  request \in [at : {"checks", "window"}, action : Action, twin : Snapshot \cup {NoTwin}]
<1>1. request # [at |-> "idle"]
  OBVIOUS
<1>. QED
  BY <1>1 DEF OutcomeTypeOK

LEMMA CheckProblemsInvariant ==
  ASSUME OutcomeInvariant, CheckProblems
  PROVE  OutcomeInvariant'
<1>1. PICK reason \in FirstProblem(request.twin, request.action) :
        IF reason = "none"
        THEN request' = [request EXCEPT !.at = "window"] /\ UNCHANGED answer
        ELSE Answers(reason)
  BY DEF CheckProblems
<1>2. request \in [at : {"checks", "window"}, action : Action, twin : Snapshot \cup {NoTwin}]
  BY RequestIs DEF CheckProblems, OutcomeInvariant
<1>3. CASE reason = "none"
  <2>1. request' = [request EXCEPT !.at = "window"] /\ answer' = answer
    BY <1>1, <1>3
  <2>2. request.twin \in Snapshot
        /\ request.twin.ownership[request.action.switch] = request.action.source
    BY <1>2, <1>3, NoProblemIsOwned
  <2>3. /\ request' \in [at : {"checks", "window"}, action : Action, twin : Snapshot \cup {NoTwin}]
        /\ request'.twin = request.twin /\ request'.action = request.action
    BY <1>2, <2>1
  <2>4. CheckedRequestIsOwned'
    BY <2>2, <2>3 DEF CheckedRequestIsOwned
  <2>5. ReadyAnswerIsOwned'
    BY <2>1 DEF OutcomeInvariant, ReadyAnswerIsOwned
  <2>. QED
    BY <2>1, <2>3, <2>4, <2>5, RequestStep DEF CheckProblems, OutcomeInvariant, OutcomeTypeOK
<1>4. CASE reason # "none"
  <2>1. reason \in NotReadyReason
    BY <1>1, <1>4 DEF FirstProblem, NotReadyReason
  <2>2. Answers(reason)
    BY <1>1, <1>4
  <2>. QED
    BY <2>1, <2>2, AnswersInvariant DEF CheckProblems
<1>. QED
  BY <1>3, <1>4

LEMMA PredictReadyInvariant ==
  ASSUME OutcomeInvariant, PredictReady
  PROVE  OutcomeInvariant'
<1>. DEFINE window == History(observed)
<1>1. /\ request.action \in Action /\ request.twin \in Snapshot
      /\ request.twin.ownership[request.action.switch] = request.action.source
  <2>1. request.action \in Action
    BY RequestIs DEF PredictReady, OutcomeInvariant
  <2>. QED
    BY <2>1 DEF PredictReady, OutcomeInvariant, CheckedRequestIsOwned
<1>2. /\ window \in Seq(Snapshot) /\ Len(window) = HistorySteps /\ OneRun(window)
      /\ LatestOf(window).ownership[request.action.switch] = request.action.source
      /\ \A i \in DOMAIN window : window[i].valid
  <2>1. window \in Seq(Snapshot) /\ Len(window) = HistorySteps /\ OneRun(window)
    BY WindowIsOneRun DEF PredictReady, OutcomeInvariant, OutcomeTypeOK, HistoryIsOneRun
  <2>. QED
    BY <2>1 DEF PredictReady, CheckWindow
<1>3. /\ answer' = [reason |-> "READY", action |-> request.action,
                   twin |-> request.twin, window |-> window]
      /\ request' = [at |-> "idle"]
  BY DEF PredictReady
<1>. HIDE DEF window
<1>4. CheckedRequestIsOwned'
  BY <1>3 DEF CheckedRequestIsOwned
<1>5. ReadyAnswerIsOwned'
  BY <1>1, <1>2, <1>3 DEF ReadyAnswerIsOwned, LatestOf
<1>6. /\ answer'.reason = "READY"
      /\ answer'.action \in Action /\ answer'.twin \in Snapshot
      /\ answer'.window \in Seq(Snapshot)
  BY <1>1, <1>2, <1>3
<1>. QED
  BY <1>3, <1>4, <1>5, <1>6, RequestStep DEF PredictReady

(* The history stays one run of valid snapshots whatever is published,     *)
(* observed or lost (twin/outcome/history.py), and a request that passed   *)
(* _first_problem keeps an owner it checked.                               *)
THEOREM OutcomeInvariantHolds == OutcomeSpec => []OutcomeInvariant
<1>1. OutcomeInit => OutcomeInvariant
  <2>. SUFFICES ASSUME OutcomeInit PROVE OutcomeInvariant
    OBVIOUS
  <2>1. Len(<<>>) <= Capacity
    BY HistoryAssumption DEF Capacity
  <2>2. OutcomeTypeOK
    <3>1. twin \in Snapshot \cup {NoTwin} /\ pending = FALSE /\ request = [at |-> "idle"]
      BY DEF OutcomeInit
    <3>2. observed \in Seq(Snapshot) /\ Len(observed) <= Capacity
      BY <2>1 DEF OutcomeInit
    <3>3. answer \in [reason : NotReadyReason \cup {"none", "HTTP 500"}]
      BY DEF OutcomeInit
    <3>. QED
      BY <3>1, <3>2, <3>3 DEF OutcomeTypeOK
  <2>3. HistoryIsOneRun
    BY DEF OutcomeInit, HistoryIsOneRun, OneRun
  <2>4. CheckedRequestIsOwned /\ ReadyAnswerIsOwned
    BY DEF OutcomeInit, CheckedRequestIsOwned, ReadyAnswerIsOwned
  <2>. QED
    BY <2>2, <2>3, <2>4 DEF OutcomeInvariant
<1>2. OutcomeInvariant /\ [OutcomeNext]_outcomeVars => OutcomeInvariant'
  <2>. SUFFICES ASSUME OutcomeInvariant, [OutcomeNext]_outcomeVars PROVE OutcomeInvariant'
    OBVIOUS
  <2>1. ASSUME NEW time \in 0 .. MaxTime, NEW ownership \in [Switch -> Controller],
               NEW valid \in BOOLEAN, Publish(time, ownership, valid)
        PROVE  OutcomeInvariant'
    BY <2>1, PublishInvariant
  <2>2. CASE Observe
    BY <2>2, ObserveInvariant
  <2>3. CASE WriteFails
    BY <2>3, WriteFailsInvariant
  <2>4. ASSUME NEW action \in Action, ReadTwin(action) PROVE OutcomeInvariant'
    BY <2>4, ReadTwinInvariant
  <2>5. CASE CheckProblems
    BY <2>5, CheckProblemsInvariant
  <2>6. CASE PredictReady
    BY <2>6, PredictReadyInvariant
  <2>7. CASE PredictMissing
    BY <2>7, AnswersInvariant DEF PredictMissing, NotReadyReason
  <2>8. CASE PredictRaises
    BY <2>8, AnswersInvariant DEF PredictRaises
  <2>9. CASE UNCHANGED outcomeVars
    BY <2>9 DEF outcomeVars, OutcomeInvariant, OutcomeTypeOK, HistoryIsOneRun,
       CheckedRequestIsOwned, ReadyAnswerIsOwned
  <2>. QED
    BY <2>1, <2>2, <2>3, <2>4, <2>5, <2>6, <2>7, <2>8, <2>9 DEF OutcomeNext
<1>. QED
  BY <1>1, <1>2, PTL DEF OutcomeSpec

(* Every answer and every request of the service, and the bound of the     *)
(* history, are of the types of the code.                                  *)
THEOREM OutcomeTypeCorrect == OutcomeSpec => []OutcomeTypeOK
<1>1. OutcomeInvariant => OutcomeTypeOK
  BY DEF OutcomeInvariant
<1>. QED
  BY <1>1, OutcomeInvariantHolds, PTL

(* A READY prediction is for the owner of the switch, in the state it is   *)
(* labelled with and in the window it is computed from, and the window is  *)
(* consecutive and valid: for any number of snapshots, any clock.          *)
THEOREM ReadyAnswerIsOwnedHolds == OutcomeSpec => []ReadyAnswerIsOwned
<1>1. OutcomeInvariant => ReadyAnswerIsOwned
  BY DEF OutcomeInvariant
<1>. QED
  BY <1>1, OutcomeInvariantHolds, PTL

(***************************************************************************)
(* OutcomeTraining, over OutcomeCollection.                                *)
(***************************************************************************)
(* What the rows of a dataset, and a selection, are. *)

SplitByRepeat(rows) ==
  \A r, q \in rows : r.attempt.repeat = q.attempt.repeat => r.split = q.split
Measured(rows, with) == \A r \in rows : r.raw = with
OneMeasure(rows) == \A r, q \in rows : r.raw = q.raw

\* Residual models of the utilization from one stage, chosen with the validation rows and
\* the features of the selection.
Whole(sel) ==
  LET residual == sel.reports["hybrid"] IN
  /\ residual["rf_u"] = residual["xgb_u"]
  /\ residual["rf_u"].validation = Part(sel.csv.data, "validation")
  /\ residual["rf_u"].features = sel.schema.features

\* What is left of the files of a script when the first k are written.
Left(files, k) == SubSeq(files, k + 1, Len(files))

(* The collection. *)

ScriptShape ==
  script = Idle \/ script = [name |-> script.name, todo |-> script.todo, mem |-> script.mem]

\* Unless a file was edited under an attempt, its metadata name what it ran with, and so
\* will those of the attempt in progress.
MetadataTold ==
  ~raced =>
    /\ MetadataTellsVersions
    /\ script.name = "collect" => script.mem.plan = matrix
    /\ Collecting("started") => script.mem.version = capacity
    /\ Collecting("running") => script.mem.version = script.mem.raw

GateTold ==
  gate = "passed" => \A a, b \in Present : FreezeKeys(a) = FreezeKeys(b)

SplitsFollowRepeats ==
  \A a, b \in DOMAIN splits : a.repeat = b.repeat => splits[a] = splits[b]

Collected ==
  /\ root = [a \in Attempts |-> root[a]]
  /\ MetadataTold /\ GateTold /\ SplitsFollowRepeats

(* The dataset. *)

DatasetScript ==
  script.name = "dataset" =>
    /\ SplitByRepeat(script.mem.data) /\ Measured(script.mem.data, script.mem.capacity)
    /\ \E k \in 0 .. 3 :
         /\ script.todo = Left(DatasetOrder, k)
         /\ k > 0 => dataset["csv"] = [data |-> script.mem.data]
         /\ k = 3 => dataset["manifest"] =
                       [data |-> script.mem.data, capacity |-> script.mem.capacity]
         /\ k < 3 /\ ~script.mem.forced => dataset["manifest"] = None

\* A finished dataset is of one build, but for a forced one that stopped half way.
DatasetAgrees ==
  script.name # "dataset" /\ ~forcedStop /\ dataset["manifest"] # None =>
    /\ dataset["manifest"].data = dataset["csv"].data
    /\ Measured(dataset["csv"].data, dataset["manifest"].capacity)

DatasetPart ==
  /\ dataset = [f \in {"csv", "schema", "manifest"} |-> dataset[f]]
  /\ DatasetScript /\ DatasetAgrees /\ RowsKeepTheirMeasure

(* The test. *)

LockTells ==
  /\ lock.status \in {"none", "opened", "completed", "torn"}
  /\ lock.status = "none" => tested = {}
  /\ lock.status \in {"opened", "completed"} =>
       /\ lock = [status |-> lock.status, selection |-> lock.selection]
       /\ tested = {lock.selection}
  /\ \A s, t \in tested : s = t
  /\ \A s \in tested : Whole(s)

TestDone ==
  lock.status = "completed" =>
    \A f \in {"selection", "validation_metrics", "test_metrics"} : final[f] = lock.selection

TestScripts ==
  /\ script.name \in {"select", "open"} =>
       CheckCanOpen(script.mem.selection) /\ Whole(script.mem.selection)
  /\ script.name \in {"open", "outputs"} => final["selection"] = script.mem.selection
  /\ script.name = "outputs" =>
       /\ lock = [status |-> "opened", selection |-> script.mem.selection]
       /\ \E k \in 0 .. 2 :
            /\ script.todo = Left(OutputOrder, k)
            /\ \A i \in 1 .. k : final[OutputOrder[i]] = script.mem.selection

TestPart ==
  /\ final = [f \in FinalFiles |-> final[f]]
  /\ LockTells /\ TestDone /\ TestScripts

(* The artifact. *)

ExportScripts ==
  /\ script.name \in {"margin", "artifact"} =>
       artifact = None /\ LoadFrozen /\ script.mem.selection = final["selection"]
  /\ script.name = "artifact" =>
       /\ final["margin"] = script.mem.selection
       /\ tmp = [f \in {"models", "metrics", "manifest"} |-> tmp[f]]
       /\ \E k \in 0 .. 3 :
            /\ script.todo = Left(ArtifactOrder, k)
            /\ k > 0 => tmp["models"] = reports["hybrid"]
            /\ k > 1 => tmp["metrics"] = [test |-> final["test_metrics"], margin |-> final["margin"]]
            /\ k > 2 => /\ dataset["manifest"] # None
                        /\ tmp["manifest"] =
                             [data |-> dataset["manifest"].data,
                              capacity |-> dataset["manifest"].capacity,
                              selection |-> script.mem.selection]

(* The inductive invariant. *)

OutcomeTrainingInvariant ==
  /\ ScriptShape
  /\ Collected
  /\ DatasetPart /\ TestPart
  /\ ExportScripts /\ ArtifactIsTheTestedOne

-----------------------------------------------------------------------------
(* The files of a script, one after the other.                             *)

LEMMA LeftIsWritten ==
  ASSUME NEW S, NEW files \in Seq(S), NEW k \in 0 .. Len(files)
  PROVE  /\ Left(files, k) \in Seq(S)
         /\ Left(files, k) = <<>> => k = Len(files)
         /\ Left(files, k) # <<>> =>
              /\ k + 1 \in 1 .. Len(files)
              /\ Head(Left(files, k)) = files[k + 1]
              /\ Head(Left(files, k)) \in S
              /\ Tail(Left(files, k)) = Left(files, k + 1)
<1>1. \A i \in k + 1 .. Len(files) : files[i] \in S
  OBVIOUS
<1>2. /\ Left(files, k) \in Seq(S)
      /\ Len(Left(files, k)) = IF k + 1 <= Len(files) THEN Len(files) - (k + 1) + 1 ELSE 0
      /\ \A i \in 1 .. Len(files) - (k + 1) + 1 : Left(files, k)[i] = files[k + 1 + i - 1]
  BY <1>1, SubSeqProperties DEF Left
<1>3. Left(files, k) = <<>> => k = Len(files)
  BY <1>2
<1>4. ASSUME Left(files, k) # <<>>
      PROVE  /\ k + 1 \in 1 .. Len(files)
             /\ Head(Left(files, k)) = files[k + 1]
             /\ Head(Left(files, k)) \in S
             /\ Tail(Left(files, k)) = Left(files, k + 1)
  <2>1. k + 1 \in 1 .. Len(files)
    BY <1>2, <1>4
  <2>2. Head(Left(files, k)) = files[k + 1] /\ files[k + 1] \in S
    BY <1>2, <1>4, <2>1
  <2>3. \A n \in 1 .. Len(files) + 1 : n = k + 1 /\ n <= Len(files) =>
          Tail(SubSeq(files, n, Len(files))) = SubSeq(files, n + 1, Len(files))
    BY HeadTailOfSubSeq
  <2>. QED
    BY <2>1, <2>2, <2>3 DEF Left
<1>. QED
  BY <1>2, <1>3, <1>4

\* A script begins with all its files, and what it writes next is the first of the rest.
LEMMA LeftAtStart ==
  ASSUME NEW S, NEW files \in Seq(S)
  PROVE  Left(files, 0) = files
<1>1. Len(files) \in Nat
  OBVIOUS
<1>2. /\ Left(files, 0) \in Seq(S)
      /\ Len(Left(files, 0)) = Len(files)
      /\ \A i \in 1 .. Len(files) : Left(files, 0)[i] = files[i]
  BY <1>1, SubSeqProperties DEF Left
<1>. QED
  BY <1>2, SeqEqual

LEMMA Orders ==
  /\ DatasetOrder \in Seq({"csv", "schema", "manifest"}) /\ Len(DatasetOrder) = 3
  /\ DatasetOrder[1] = "csv" /\ DatasetOrder[2] = "schema" /\ DatasetOrder[3] = "manifest"
  /\ OutputOrder \in Seq(FinalFiles) /\ Len(OutputOrder) = 2
  /\ OutputOrder[1] = "validation_metrics" /\ OutputOrder[2] = "test_metrics"
  /\ ArtifactOrder \in Seq({"models", "metrics", "manifest"}) /\ Len(ArtifactOrder) = 3
  /\ ArtifactOrder[1] = "models" /\ ArtifactOrder[2] = "metrics"
  /\ ArtifactOrder[3] = "manifest"
BY DEF DatasetOrder, OutputOrder, ArtifactOrder, FinalFiles

\* Where each script stands, and what it writes next.
LEMMA DatasetNext ==
  ASSUME NEW k \in 0 .. 3
  PROVE  /\ Left(DatasetOrder, k) = <<>> => k = 3
         /\ Left(DatasetOrder, k) # <<>> =>
              /\ k + 1 \in 1 .. 3
              /\ Head(Left(DatasetOrder, k)) = DatasetOrder[k + 1]
              /\ Tail(Left(DatasetOrder, k)) = Left(DatasetOrder, k + 1)
<1>1. PICK S : DatasetOrder \in Seq(S)
  BY Orders
<1>2. Len(DatasetOrder) = 3 /\ k \in 0 .. Len(DatasetOrder)
  BY Orders
<1>. QED
  BY <1>1, <1>2, LeftIsWritten

LEMMA OutputNext ==
  ASSUME NEW k \in 0 .. 2
  PROVE  /\ Left(OutputOrder, k) = <<>> => k = 2
         /\ Left(OutputOrder, k) # <<>> =>
              /\ k + 1 \in 1 .. 2
              /\ Head(Left(OutputOrder, k)) = OutputOrder[k + 1]
              /\ Tail(Left(OutputOrder, k)) = Left(OutputOrder, k + 1)
<1>1. PICK S : OutputOrder \in Seq(S)
  BY Orders
<1>2. Len(OutputOrder) = 2 /\ k \in 0 .. Len(OutputOrder)
  BY Orders
<1>. QED
  BY <1>1, <1>2, LeftIsWritten

LEMMA ArtifactNext ==
  ASSUME NEW k \in 0 .. 3
  PROVE  /\ Left(ArtifactOrder, k) = <<>> => k = 3
         /\ Left(ArtifactOrder, k) # <<>> =>
              /\ k + 1 \in 1 .. 3
              /\ Head(Left(ArtifactOrder, k)) = ArtifactOrder[k + 1]
              /\ Tail(Left(ArtifactOrder, k)) = Left(ArtifactOrder, k + 1)
<1>1. PICK S : ArtifactOrder \in Seq(S)
  BY Orders
<1>2. Len(ArtifactOrder) = 3 /\ k \in 0 .. Len(ArtifactOrder)
  BY Orders
<1>. QED
  BY <1>1, <1>2, LeftIsWritten

LEMMA AllAreLeft ==
  /\ DatasetOrder = Left(DatasetOrder, 0)
  /\ OutputOrder = Left(OutputOrder, 0)
  /\ ArtifactOrder = Left(ArtifactOrder, 0)
BY Orders, LeftAtStart

\* A file with content is a file that is there.
LEMMA ContentIsThere ==
  /\ \A d : [data |-> d] # None
  /\ \A d, c : [data |-> d, capacity |-> c] # None
BY DEF None

-----------------------------------------------------------------------------
(* What a step of another part leaves as it was.                           *)

LEMMA CollectedStays ==
  ASSUME Collected, UNCHANGED <<matrix, capacity, root, splits, gate, raced>>,
         script'.name # "collect" \/ script' = script
  PROVE  Collected'
<1>1. MetadataTold'
  BY DEF Collected, MetadataTold, MetadataTellsVersions, Collecting, Present
<1>2. GateTold' /\ SplitsFollowRepeats'
  BY DEF Collected, GateTold, SplitsFollowRepeats, FreezeKeys, Present
<1>. QED
  BY <1>1, <1>2 DEF Collected

LEMMA DatasetStays ==
  ASSUME DatasetPart, UNCHANGED dataset, forcedStop => forcedStop',
         script.name # "dataset", script'.name # "dataset"
  PROVE  DatasetPart'
BY DEF DatasetPart, DatasetScript, DatasetAgrees, RowsKeepTheirMeasure

LEMMA TestStays ==
  ASSUME TestPart, UNCHANGED <<lock, tested, final>>,
         script'.name \notin {"select", "open", "outputs"}
  PROVE  TestPart'
BY DEF TestPart, LockTells, TestDone, TestScripts

LEMMA ArtifactStays ==
  ASSUME ArtifactIsTheTestedOne, UNCHANGED artifact, tested \subseteq tested',
         forcedStop => forcedStop'
  PROVE  ArtifactIsTheTestedOne'
BY DEF ArtifactIsTheTestedOne

LEMMA NoExport ==
  ASSUME script'.name \notin {"margin", "artifact"}
  PROVE  ExportScripts'
BY DEF ExportScripts

-----------------------------------------------------------------------------
(* The collection.                                                         *)

LEMMA ScriptShapeStep ==
  ASSUME ScriptShape, [Next]_vars
  PROVE  ScriptShape'
<1>1. CASE UNCHANGED script
  BY <1>1 DEF ScriptShape, Idle
<1>2. CASE script' = Idle
  BY <1>2 DEF ScriptShape, Idle
<1>3. CASE \E name, todo, mem : Start(name, todo, mem)
  BY <1>3 DEF ScriptShape, Start, Idle
<1>4. CASE script' = NextAttempt
  BY <1>4 DEF ScriptShape, NextAttempt
<1>5. CASE \E todo : script.name # "idle" /\ script' = [script EXCEPT !.todo = todo]
  BY <1>5 DEF ScriptShape, Idle
<1>6. CASE \E mem : script.name # "idle" /\ script' = [script EXCEPT !.mem = mem]
  BY <1>6 DEF ScriptShape, Idle
<1>7. Collection => UNCHANGED script \/ script' = Idle
                    \/ (\E name, todo, mem : Start(name, todo, mem))
                    \/ script' = NextAttempt
                    \/ (\E mem : script.name # "idle" /\ script' = [script EXCEPT !.mem = mem])
  <2>. SUFFICES ASSUME CollectionNext
                PROVE  \/ UNCHANGED script
                       \/ script' = Idle
                       \/ \E name, todo, mem : Start(name, todo, mem)
                       \/ script' = NextAttempt
                       \/ \E mem : script.name # "idle" /\ script' = [script EXCEPT !.mem = mem]
    BY DEF Collection
  <2>1. CASE \/ EditMatrix \/ Recalibrate \/ ReportPilot \/ ReportDataset
             \/ \E a \in Attempts : MoveAway(a)
    BY <2>1 DEF EditMatrix, Recalibrate, ReportPilot, ReportDataset, MoveAway
  <2>2. CASE \E repeats \in SUBSET ToSet(Repeats), keep \in BOOLEAN,
               actions \in {{"MIGRATE"}, {"NO_OP"}, {"MIGRATE", "NO_OP"}} :
               StartCollection(repeats, actions, keep)
    BY <2>2 DEF StartCollection
  <2>3. CASE SkipExisting \/ AttemptFails \/ EndCollection \/ \E kind \in Kinds : WriteAttempt(kind)
    BY <2>3 DEF SkipExisting, AttemptFails, EndCollection, WriteAttempt
  <2>4. CASE StartAttempt \/ LoadCapacity
    BY <2>4 DEF StartAttempt, LoadCapacity, Collecting
  <2>. QED
    BY <2>1, <2>2, <2>3, <2>4 DEF CollectionNext
<1>. QED
  BY <1>1, <1>2, <1>3, <1>4, <1>5, <1>6, <1>7 DEF Next, vars, EditConfig, BuildDataset, WriteDataset,
     Stage, WriteReport, SelectAndTest, WriteSelection, OpenTest, WriteOutput, CompleteTest,
     TornLock, Export, WriteMargin, WriteArtifact, MoveIntoPlace, Done, Stop, Advance, Writes, Stages

LEMMA CollectedStep ==
  ASSUME ScriptShape, Collected, CollectionNext
  PROVE  Collected'
<1>1. CASE EditMatrix
  <2>1. ~raced' => ~raced /\ script.name = "idle"
    <3>1. raced' = (raced \/ script # Idle)
      BY <1>1 DEF EditMatrix
    <3>2. ~raced' => ~raced /\ script = Idle
      BY <3>1, Zenon
    <3>. QED
      BY <3>2 DEF Idle
  <2>2. MetadataTold'
    BY <1>1, <2>1 DEF EditMatrix, Collected, MetadataTold, MetadataTellsVersions, Collecting,
       Present
  <2>. QED
    BY <1>1, <2>2 DEF EditMatrix, Collected, GateTold, FreezeKeys, Present, SplitsFollowRepeats
<1>2. CASE Recalibrate
  BY <1>2 DEF Recalibrate, Collected, MetadataTold, MetadataTellsVersions, Collecting, Present,
     GateTold, FreezeKeys, SplitsFollowRepeats
<1>3. ASSUME NEW a \in Attempts, MoveAway(a)
      PROVE  Collected'
  <2>1. root' = [x \in Attempts |-> IF x = a THEN None ELSE root[x]]
    BY <1>3 DEF MoveAway, Collected
  <2>2. Present' \subseteq Present /\ \A x \in Present' : root'[x] = root[x]
    BY <2>1 DEF Present
  <2>3. MetadataTold'
    BY <1>3, <2>2 DEF MoveAway, Collected, MetadataTold, MetadataTellsVersions, Collecting, Idle
  <2>. QED
    BY <1>3, <2>1, <2>3 DEF MoveAway, Collected, GateTold, SplitsFollowRepeats
<1>4. ASSUME NEW repeats, NEW actions, NEW keep, StartCollection(repeats, actions, keep)
      PROVE  Collected'
  <2>1. MetadataTold'
    BY <1>4 DEF StartCollection, Start, collectionVars, Collected, MetadataTold,
       MetadataTellsVersions, Collecting, Present
  <2>. QED
    BY <1>4, <2>1 DEF StartCollection, collectionVars, Collected, GateTold, FreezeKeys, Present,
       SplitsFollowRepeats
<1>5. CASE SkipExisting \/ StartAttempt \/ LoadCapacity \/ AttemptFails \/ EndCollection
  <2>1. UNCHANGED collectionVars
    BY <1>5 DEF SkipExisting, StartAttempt, LoadCapacity, AttemptFails, EndCollection
  <2>2. (script.name = "collect" => script.mem.plan = matrix) =>
          (script'.name = "collect" => script'.mem.plan = matrix')
    BY <1>5, <2>1 DEF SkipExisting, StartAttempt, LoadCapacity, AttemptFails, EndCollection,
       NextAttempt, Collecting, Idle, ScriptShape, collectionVars
  <2>3. /\ Collecting("started")' => script'.mem.version = capacity'
        /\ Collecting("running")' => Collecting("started") /\ script'.mem.version = script.mem.version
                                     /\ script'.mem.raw = capacity
    BY <1>5, <2>1 DEF SkipExisting, StartAttempt, LoadCapacity, AttemptFails, EndCollection,
       NextAttempt, Collecting, Idle, ScriptShape, collectionVars
  <2>4. MetadataTold'
    BY <2>1, <2>2, <2>3 DEF Collected, MetadataTold, MetadataTellsVersions, Present, collectionVars
  <2>. QED
    BY <2>1, <2>4 DEF collectionVars, Collected, GateTold, FreezeKeys, Present,
       SplitsFollowRepeats
<1>6. ASSUME NEW kind \in Kinds, WriteAttempt(kind)
      PROVE  Collected'
  <2>1. PICK a : a = Head(script.todo)
    OBVIOUS
  <2>a. PICK record : record = [kind |-> kind, take |-> takes[a] + 1,
                                raw |-> script.mem.raw, plan |-> script.mem.plan,
                                version |-> Metadata.version, config |-> Metadata.config]
    OBVIOUS
  <2>2. /\ root' = [root EXCEPT ![a] = record]
        /\ record.raw = script.mem.raw /\ record.plan = script.mem.plan
        /\ record.version = script.mem.version /\ record.config = matrix
    BY <1>6, <2>1, <2>a DEF WriteAttempt, Metadata
  <2>3. root' = [x \in Attempts |-> IF x = a THEN record ELSE root[x]]
    BY <2>2 DEF Collected
  <2>4. \A x \in Present' : x # a => x \in Present /\ root'[x] = root[x]
    BY <2>3 DEF Present
  <2>5. MetadataTellsVersions' \/ raced'
    BY <1>6, <2>2, <2>3, <2>4 DEF Collected, MetadataTold, MetadataTellsVersions, WriteAttempt,
       Present, Collecting
  <2>6. MetadataTold'
    BY <1>6, <2>5 DEF Collected, MetadataTold, WriteAttempt, NextAttempt, Collecting, ScriptShape,
       Idle
  <2>. QED
    BY <1>6, <2>3, <2>6 DEF WriteAttempt, Collected, GateTold, SplitsFollowRepeats
<1>7. CASE ReportPilot
  <2>1. GateTold'
    BY <1>7 DEF ReportPilot, GatePasses, GateTold, FreezeKeys, Present
  <2>. QED
    BY <1>7, <2>1 DEF ReportPilot, Collected, MetadataTold, MetadataTellsVersions, Collecting,
       Present, SplitsFollowRepeats
<1>8. CASE ReportDataset
  <2>1. SplitsFollowRepeats'
    BY <1>8 DEF ReportDataset, SplitManifest, SplitNow, SplitsFollowRepeats
  <2>. QED
    BY <1>8, <2>1 DEF ReportDataset, Collected, MetadataTold, MetadataTellsVersions, Collecting,
       Present, GateTold, FreezeKeys
<1>. QED
  BY <1>1, <1>2, <1>3, <1>4, <1>5, <1>6, <1>7, <1>8 DEF CollectionNext

\* The collection runs when no script of the training does.
LEMMA CollectionIsElsewhere ==
  ASSUME ScriptShape, CollectionNext
  PROVE  script.name \in {"idle", "collect"} /\ script'.name \in {"idle", "collect"}
<1>1. CASE \/ EditMatrix \/ Recalibrate \/ ReportPilot \/ ReportDataset
           \/ \E a \in Attempts : MoveAway(a)
  BY <1>1 DEF EditMatrix, Recalibrate, ReportPilot, ReportDataset, MoveAway, MayEdit, Idle
<1>2. CASE \E repeats \in SUBSET ToSet(Repeats), keep \in BOOLEAN,
             actions \in {{"MIGRATE"}, {"NO_OP"}, {"MIGRATE", "NO_OP"}} :
             StartCollection(repeats, actions, keep)
  BY <1>2 DEF StartCollection, Start, Idle
<1>3. CASE SkipExisting \/ AttemptFails \/ EndCollection \/ \E kind \in Kinds : WriteAttempt(kind)
  <2>1. script.name = "collect"
    BY <1>3 DEF SkipExisting, AttemptFails, EndCollection, WriteAttempt, Collecting
  <2>2. script' = NextAttempt \/ script' = Idle
    BY <1>3 DEF SkipExisting, AttemptFails, EndCollection, WriteAttempt
  <2>. QED
    BY <2>1, <2>2 DEF NextAttempt, Idle
<1>4. CASE StartAttempt \/ LoadCapacity
  BY <1>4 DEF StartAttempt, LoadCapacity, Collecting, ScriptShape, Idle
<1>. QED
  BY <1>1, <1>2, <1>3, <1>4 DEF CollectionNext

-----------------------------------------------------------------------------
(* The dataset.                                                            *)

LEMMA RowsAreMeasured ==
  ASSUME SplitsFollowRepeats, CanBuildRows
  PROVE  SplitByRepeat(RowsOf) /\ Measured(RowsOf, capacity)
<1>1. \A r \in RowsOf : /\ r.attempt \in Considered /\ r.attempt \in DOMAIN splits
                        /\ r.split = splits[r.attempt] /\ r.raw = root[r.attempt].raw
                        /\ r.raw = capacity
  BY DEF RowsOf, CanBuildRows, CapacityFits
<1>. QED
  BY <1>1 DEF SplitByRepeat, Measured, SplitsFollowRepeats

LEMMA BuildDatasetStep ==
  ASSUME DatasetPart, SplitsFollowRepeats, NEW force, BuildDataset(force)
  PROVE  DatasetPart'
<1>1. SplitByRepeat(RowsOf) /\ Measured(RowsOf, capacity)
  BY RowsAreMeasured DEF BuildDataset
<1>2. /\ script' = [name |-> "dataset", todo |-> DatasetOrder,
                   mem |-> [data |-> RowsOf, capacity |-> capacity,
                            forced |-> dataset["manifest"] # None]]
      /\ UNCHANGED <<dataset, forcedStop>>
  BY DEF BuildDataset, Start, trainingVars
<1>3. /\ script'.name = "dataset" /\ script'.todo = Left(DatasetOrder, 0)
      /\ script'.mem.data = RowsOf /\ script'.mem.capacity = capacity
      /\ ~script'.mem.forced => dataset["manifest"] = None
  BY <1>2, AllAreLeft
<1>4. DatasetScript'
  <2>1. \E k \in 0 .. 3 :
          /\ script'.todo = Left(DatasetOrder, k)
          /\ k > 0 => dataset'["csv"] = [data |-> script'.mem.data]
          /\ k = 3 => dataset'["manifest"] =
                        [data |-> script'.mem.data, capacity |-> script'.mem.capacity]
          /\ k < 3 /\ ~script'.mem.forced => dataset'["manifest"] = None
    <3>. WITNESS 0 \in 0 .. 3
    <3>. QED
      BY <1>2, <1>3
  <2>2. SplitByRepeat(script'.mem.data) /\ Measured(script'.mem.data, script'.mem.capacity)
    BY <1>1, <1>3
  <2>. QED
    BY <2>1, <2>2 DEF DatasetScript
<1>. QED
  BY <1>2, <1>3, <1>4 DEF DatasetPart, DatasetAgrees, RowsKeepTheirMeasure

LEMMA WriteDatasetStep ==
  ASSUME ScriptShape, DatasetPart, WriteDataset
  PROVE  DatasetPart' /\ script'.name = "dataset"
<1>1. script.name = "dataset" /\ script.todo # <<>>
  BY DEF WriteDataset, Writes
<1>2. PICK k \in 0 .. 3 :
         /\ script.todo = Left(DatasetOrder, k)
         /\ k > 0 => dataset["csv"] = [data |-> script.mem.data]
         /\ k = 3 => dataset["manifest"] =
                       [data |-> script.mem.data, capacity |-> script.mem.capacity]
         /\ k < 3 /\ ~script.mem.forced => dataset["manifest"] = None
  BY <1>1 DEF DatasetPart, DatasetScript
<1>3. /\ k \in 0 .. 2 /\ Head(script.todo) = DatasetOrder[k + 1]
      /\ Tail(script.todo) = Left(DatasetOrder, k + 1)
  BY <1>1, <1>2, DatasetNext
<1>4. script'.name = "dataset" /\ script'.todo = Left(DatasetOrder, k + 1) /\ script'.mem = script.mem
  BY <1>1, <1>3 DEF WriteDataset, Advance, ScriptShape, Idle
<1>5. PICK f, content : /\ f = DatasetOrder[k + 1]
                        /\ content = DatasetContent(f, script.mem)
  OBVIOUS
<1>6. dataset' = [dataset EXCEPT ![f] = content]
  BY <1>3, <1>5 DEF WriteDataset
<1>7. /\ dataset' = [x \in {"csv", "schema", "manifest"} |-> dataset'[x]]
      /\ f \in {"csv", "schema", "manifest"} => dataset'[f] = content
      /\ \A x \in {"csv", "schema", "manifest"} : x # f => dataset'[x] = dataset[x]
  BY <1>6 DEF DatasetPart
<1>8. /\ k = 0 => f = "csv" /\ content = [data |-> script.mem.data]
      /\ k = 1 => f = "schema"
      /\ k = 2 => /\ f = "manifest"
                  /\ content = [data |-> script.mem.data, capacity |-> script.mem.capacity]
  BY <1>5, Orders DEF DatasetContent
<1>9. k = 0 \/ k = 1 \/ k = 2
  BY <1>3
<1>10. DatasetScript'
  <2>1. \E j \in 0 .. 3 :
          /\ script'.todo = Left(DatasetOrder, j)
          /\ j > 0 => dataset'["csv"] = [data |-> script'.mem.data]
          /\ j = 3 => dataset'["manifest"] =
                        [data |-> script'.mem.data, capacity |-> script'.mem.capacity]
          /\ j < 3 /\ ~script'.mem.forced => dataset'["manifest"] = None
    <3>. SUFFICES /\ script'.todo = Left(DatasetOrder, k + 1)
                  /\ k + 1 > 0 => dataset'["csv"] = [data |-> script'.mem.data]
                  /\ k + 1 = 3 => dataset'["manifest"] =
                        [data |-> script'.mem.data, capacity |-> script'.mem.capacity]
                  /\ k + 1 < 3 /\ ~script'.mem.forced => dataset'["manifest"] = None
      BY <1>3
    <3>1. dataset'["csv"] = [data |-> script.mem.data]
      BY <1>2, <1>7, <1>8, <1>9
    <3>2. k + 1 = 3 => dataset'["manifest"] =
                        [data |-> script.mem.data, capacity |-> script.mem.capacity]
      BY <1>7, <1>8, <1>9
    <3>3. k + 1 < 3 /\ ~script.mem.forced => dataset'["manifest"] = None
      BY <1>2, <1>7, <1>8, <1>9
    <3>. QED
      BY <1>3, <1>4, <3>1, <3>2, <3>3
  <2>. QED
    BY <1>1, <1>4, <2>1 DEF DatasetPart, DatasetScript
<1>11. RowsKeepTheirMeasure'
  <2>1. OneMeasure(script.mem.data) /\ SplitByRepeat(script.mem.data)
    BY <1>1 DEF DatasetPart, DatasetScript, Measured, OneMeasure
  <2>2. CASE k = 0
    <3>1. dataset'["csv"].data = script.mem.data
      BY <1>7, <1>8, <2>2
    <3>. QED
      BY <2>1, <3>1 DEF RowsKeepTheirMeasure, OneMeasure, SplitByRepeat
  <2>3. CASE k # 0
    <3>1. dataset'["csv"] = dataset["csv"]
      BY <1>7, <1>8, <1>9, <2>3
    <3>. QED
      BY <3>1 DEF DatasetPart, RowsKeepTheirMeasure
  <2>. QED
    BY <2>2, <2>3
<1>. QED
  BY <1>4, <1>7, <1>10, <1>11 DEF DatasetPart, DatasetAgrees

\* A build that is at its end, or a stop that is remembered, leaves a dataset that agrees.
LEMMA DatasetScriptEnds ==
  ASSUME DatasetPart, script.name = "dataset", script' = Idle, UNCHANGED dataset,
         forcedStop => forcedStop',
         script.todo = <<>> \/ (script.mem.forced => forcedStop')
  PROVE  DatasetPart'
<1>1. PICK k \in 0 .. 3 :
         /\ script.todo = Left(DatasetOrder, k)
         /\ k > 0 => dataset["csv"] = [data |-> script.mem.data]
         /\ k = 3 => dataset["manifest"] =
                       [data |-> script.mem.data, capacity |-> script.mem.capacity]
         /\ k < 3 /\ ~script.mem.forced => dataset["manifest"] = None
  BY DEF DatasetPart, DatasetScript
<1>2. script.todo = <<>> => k = 3
  BY <1>1, DatasetNext
<1>3. CASE k = 3
  <2>1. /\ dataset["csv"].data = script.mem.data
        /\ dataset["manifest"].data = script.mem.data
        /\ dataset["manifest"].capacity = script.mem.capacity
    BY <1>1, <1>3
  <2>2. DatasetAgrees'
    BY <2>1 DEF DatasetPart, DatasetScript, DatasetAgrees
  <2>. QED
    BY <2>2 DEF DatasetPart, DatasetScript, RowsKeepTheirMeasure, Idle
<1>4. CASE k # 3
  <2>1. forcedStop' \/ dataset["manifest"] = None
    BY <1>1, <1>2, <1>4
  <2>. QED
    BY <2>1 DEF DatasetPart, DatasetScript, DatasetAgrees, RowsKeepTheirMeasure, Idle
<1>. QED
  BY <1>3, <1>4

-----------------------------------------------------------------------------
(* The test.                                                               *)

LEMMA SelectAndTestStep ==
  ASSUME TestPart, SelectAndTest
  PROVE  TestPart' /\ script'.name = "select"
<1>1. PICK sel : sel = FrozenFiles
  OBVIOUS
<1>2. /\ script' = [name |-> "select", todo |-> <<"selection">>, mem |-> [selection |-> sel]]
      /\ UNCHANGED <<final, lock, tested>> /\ CheckCanOpen(sel)
  BY <1>1 DEF SelectAndTest, Start
<1>3. Whole(sel)
  <2>1. ScoresReproduce
    BY DEF SelectAndTest
  <2>2. /\ sel.csv = dataset["csv"] /\ sel.schema = dataset["schema"]
        /\ \A f \in ScoredFiles : sel.reports["hybrid"][f] = reports["hybrid"][f]
    BY <1>1 DEF FrozenFiles, Stages, ScoredFiles, ModelFiles
  <2>3. PICK own : /\ \A f \in ScoredFiles : reports["hybrid"][f] = own
                   /\ own.validation = Part(dataset["csv"].data, "validation")
                   /\ own.features = dataset["schema"].features
    BY <2>1 DEF ScoresReproduce
  <2>. QED
    BY <2>2, <2>3 DEF Whole, ScoredFiles
<1>. QED
  BY <1>2, <1>3 DEF TestPart, LockTells, TestDone, TestScripts, CheckCanOpen

LEMMA WriteSelectionStep ==
  ASSUME TestPart, WriteSelection
  PROVE  TestPart' /\ script'.name = "open"
<1>1. /\ script.name = "select"
      /\ script' = [name |-> "open", todo |-> <<"lock">>, mem |-> script.mem]
      /\ UNCHANGED <<lock, tested>>
  BY DEF WriteSelection, Writes, Start
<1>2. final' = [f \in FinalFiles |-> IF f = "selection" THEN script.mem.selection ELSE final[f]]
  BY DEF WriteSelection, TestPart
<1>3. CheckCanOpen(script.mem.selection) /\ Whole(script.mem.selection)
  BY <1>1 DEF TestPart, TestScripts
<1>4. lock.status # "completed"
  BY <1>3 DEF CheckCanOpen
<1>5. TestScripts'
  <2>1. script'.name = "open" /\ script'.mem = script.mem
    BY <1>1
  <2>2. final'["selection"] = script.mem.selection
    BY <1>2 DEF FinalFiles
  <2>. QED
    BY <1>1, <1>3, <2>1, <2>2 DEF TestScripts, CheckCanOpen
<1>. QED
  BY <1>1, <1>2, <1>4, <1>5 DEF TestPart, LockTells, TestDone

LEMMA OpenTestStep ==
  ASSUME TestPart, OpenTest
  PROVE  /\ TestPart' /\ script'.name = "outputs" /\ tested \subseteq tested'
         /\ lock.status # "completed"
<1>1. PICK sel : sel = script.mem.selection
  OBVIOUS
<1>2. /\ script.name = "open" /\ CheckCanOpen(sel)
      /\ lock' = [status |-> "opened", selection |-> sel]
      /\ tested' = tested \cup {sel} /\ UNCHANGED final
      /\ script'.name = "outputs" /\ script'.todo = OutputOrder /\ script'.mem = script.mem
  BY <1>1 DEF OpenTest, Writes, Start
<1>3. Whole(sel) /\ final["selection"] = sel
  BY <1>1, <1>2 DEF TestPart, TestScripts
<1>4. tested \subseteq {sel}
  BY <1>2 DEF CheckCanOpen, TestPart, LockTells
<1>5. LockTells'
  <2>1. lock'.status = "opened" /\ lock'.selection = sel
    BY <1>2
  <2>2. tested' = {sel}
    BY <1>2, <1>4
  <2>. QED
    BY <1>2, <1>3, <2>1, <2>2 DEF LockTells
<1>6. TestScripts'
  <2>1. \E k \in 0 .. 2 :
          /\ script'.todo = Left(OutputOrder, k)
          /\ \A i \in 1 .. k : final'[OutputOrder[i]] = script'.mem.selection
    <3>. WITNESS 0 \in 0 .. 2
    <3>. QED
      BY <1>2, AllAreLeft
  <2>2. /\ final'["selection"] = script'.mem.selection
        /\ lock' = [status |-> "opened", selection |-> script'.mem.selection]
    BY <1>1, <1>2, <1>3
  <2>. QED
    BY <1>2, <2>1, <2>2 DEF TestScripts
<1>. QED
  BY <1>2, <1>5, <1>6 DEF TestPart, TestDone, CheckCanOpen

LEMMA WriteOutputStep ==
  ASSUME ScriptShape, TestPart, WriteOutput
  PROVE  TestPart' /\ script'.name = "outputs"
<1>1. /\ script.name = "outputs" /\ script.todo # <<>>
      /\ UNCHANGED <<lock, tested>>
  BY DEF WriteOutput, Writes
<1>2. PICK k \in 0 .. 2 :
         /\ script.todo = Left(OutputOrder, k)
         /\ \A i \in 1 .. k : final[OutputOrder[i]] = script.mem.selection
  BY <1>1 DEF TestPart, TestScripts
<1>3. /\ k \in 0 .. 1 /\ Head(script.todo) = OutputOrder[k + 1]
      /\ Tail(script.todo) = Left(OutputOrder, k + 1)
  BY <1>1, <1>2, OutputNext
<1>4. /\ script'.name = "outputs" /\ script'.mem = script.mem
      /\ script'.todo = Left(OutputOrder, k + 1)
  BY <1>1, <1>3 DEF WriteOutput, Advance, ScriptShape, Idle
<1>5. PICK f : f = OutputOrder[k + 1]
  OBVIOUS
<1>6. final' = [x \in FinalFiles |-> IF x = f THEN script.mem.selection ELSE final[x]]
  BY <1>3, <1>5 DEF WriteOutput, TestPart
<1>7. final["selection"] = script.mem.selection /\ lock.status = "opened"
  BY <1>1 DEF TestPart, TestScripts
<1>8. \A i \in 1 .. k + 1 : final'[OutputOrder[i]] = script.mem.selection
  <2>1. \A i \in 1 .. k + 1 : i \in {1, 2} /\ (i # k + 1 => i \in 1 .. k)
    BY <1>3
  <2>2. \A i \in {1, 2} : OutputOrder[i] \in FinalFiles
    BY Orders DEF FinalFiles
  <2>. QED
    BY <1>2, <1>5, <1>6, <2>1, <2>2
<1>9. TestScripts'
  <2>1. k + 1 \in 0 .. 2
    BY <1>3
  <2>2. \E j \in 0 .. 2 :
          /\ script'.todo = Left(OutputOrder, j)
          /\ \A i \in 1 .. j : final'[OutputOrder[i]] = script'.mem.selection
    BY <1>4, <1>8, <2>1
  <2>3. /\ final'["selection"] = script'.mem.selection
        /\ lock' = [status |-> "opened", selection |-> script'.mem.selection]
    BY <1>1, <1>4, <1>6, <1>7 DEF TestPart, TestScripts, FinalFiles
  <2>. QED
    BY <1>4, <2>2, <2>3 DEF TestScripts
<1>. QED
  BY <1>1, <1>4, <1>6, <1>7, <1>9 DEF TestPart, LockTells, TestDone

LEMMA CompleteTestStep ==
  ASSUME TestPart, CompleteTest
  PROVE  TestPart'
<1>1. /\ script.name = "outputs" /\ script.todo = <<>> /\ script' = Idle
      /\ UNCHANGED <<final, tested>>
  BY DEF CompleteTest
<1>2. PICK k \in 0 .. 2 :
         /\ script.todo = Left(OutputOrder, k)
         /\ \A i \in 1 .. k : final[OutputOrder[i]] = script.mem.selection
  BY <1>1 DEF TestPart, TestScripts
<1>3. k = 2
  BY <1>1, <1>2, OutputNext
<1>4. PICK sel : sel = script.mem.selection
  OBVIOUS
<1>5. lock = [status |-> "opened", selection |-> sel] /\ final["selection"] = sel
  BY <1>1, <1>4 DEF TestPart, TestScripts
<1>6. lock' = [status |-> "completed", selection |-> sel]
  BY <1>5 DEF CompleteTest
<1>7. LockTells'
  BY <1>1, <1>5, <1>6 DEF TestPart, LockTells
<1>8. TestDone'
  <2>1. \A i \in {1, 2} : final[OutputOrder[i]] = sel
    BY <1>2, <1>3, <1>4
  <2>. QED
    BY <1>1, <1>5, <1>6, <2>1, Orders DEF TestDone
<1>. QED
  BY <1>1, <1>7, <1>8 DEF TestPart, TestScripts, Idle

LEMMA TornLockStep ==
  ASSUME TestPart, TornLock
  PROVE  TestPart' /\ lock.status # "completed"
<1>1. lock.status # "completed"
  BY DEF TornLock, TestPart, TestScripts, CheckCanOpen
<1>2. lock'.status = "torn" /\ script'.name = "idle" /\ UNCHANGED <<final, tested>>
  BY DEF TornLock, Idle
<1>. QED
  BY <1>1, <1>2 DEF TestPart, LockTells, TestDone, TestScripts

-----------------------------------------------------------------------------
(* The artifact.                                                           *)

LEMMA ExportStep ==
  ASSUME Export
  PROVE  ExportScripts' /\ script'.name = "margin"
<1>1. /\ script' = [name |-> "margin", todo |-> <<"margin">>,
                   mem |-> [selection |-> final["selection"]]]
      /\ artifact = None /\ LoadFrozen
      /\ UNCHANGED <<config, dataset, reports, final, lock, artifact>>
  BY DEF Export, Start
<1>2. LoadFrozen'
  BY <1>1 DEF LoadFrozen, FrozenFiles
<1>. QED
  BY <1>1, <1>2 DEF ExportScripts

LEMMA WriteMarginStep ==
  ASSUME TestPart, ExportScripts, WriteMargin
  PROVE  /\ TestPart' /\ ExportScripts'
         /\ script'.name \in {"artifact", "idle"}
<1>1. /\ script.name = "margin"
      /\ UNCHANGED <<config, dataset, reports, lock, artifact, tested>>
      /\ \/ /\ script'.name = "artifact" /\ script'.todo = ArtifactOrder
            /\ script'.mem = script.mem /\ tmp' = NoFiles(ArtifactOrder)
         \/ script'.name = "idle"
  BY DEF WriteMargin, Writes, Start, Idle
<1>2. final' = [f \in FinalFiles |-> IF f = "margin" THEN script.mem.selection ELSE final[f]]
  BY DEF WriteMargin, TestPart
<1>3. \A f \in {"selection", "validation_metrics", "test_metrics"} : final'[f] = final[f]
  BY <1>2 DEF FinalFiles
<1>4. TestPart'
  <2>1. LockTells' /\ TestDone'
    BY <1>1, <1>3 DEF TestPart, LockTells, TestDone
  <2>. QED
    BY <1>1, <1>2, <2>1 DEF TestPart, TestScripts
<1>5. artifact = None /\ LoadFrozen /\ script.mem.selection = final["selection"]
  BY <1>1 DEF ExportScripts
<1>6. LoadFrozen'
  <2>1. FrozenFiles' = FrozenFiles
    BY <1>1 DEF FrozenFiles
  <2>. QED
    BY <1>1, <1>3, <1>5, <2>1 DEF LoadFrozen
<1>7. CASE script'.name = "artifact"
  <2>1. /\ script'.todo = Left(ArtifactOrder, 0) /\ script'.mem = script.mem
        /\ tmp' = NoFiles(ArtifactOrder)
    BY <1>1, <1>7, AllAreLeft
  <2>2. tmp' = [f \in {"models", "metrics", "manifest"} |-> tmp'[f]]
    <3>1. {ArtifactOrder[i] : i \in DOMAIN ArtifactOrder} = {"models", "metrics", "manifest"}
      <4>1. DOMAIN ArtifactOrder = {1, 2, 3}
        BY Orders
      <4>. QED
        BY <4>1, Orders
    <3>. QED
      BY <2>1, <3>1 DEF NoFiles
  <2>3. final'["margin"] = script'.mem.selection
    BY <1>2, <2>1 DEF FinalFiles
  <2>4. \E k \in 0 .. 3 :
          /\ script'.todo = Left(ArtifactOrder, k)
          /\ k > 0 => tmp'["models"] = reports'["hybrid"]
          /\ k > 1 => tmp'["metrics"] =
                        [test |-> final'["test_metrics"], margin |-> final'["margin"]]
          /\ k > 2 => /\ dataset'["manifest"] # None
                      /\ tmp'["manifest"] =
                           [data |-> dataset'["manifest"].data,
                            capacity |-> dataset'["manifest"].capacity,
                            selection |-> script'.mem.selection]
    <3>. WITNESS 0 \in 0 .. 3
    <3>. QED
      BY <2>1
  <2>5. artifact' = None /\ script'.mem.selection = final'["selection"]
    BY <1>1, <1>3, <1>5, <2>1
  <2>. QED
    BY <1>4, <1>6, <1>7, <2>2, <2>3, <2>4, <2>5 DEF ExportScripts
<1>8. CASE script'.name = "idle"
  BY <1>4, <1>8 DEF ExportScripts
<1>. QED
  BY <1>1, <1>4, <1>7, <1>8

LEMMA WriteArtifactStep ==
  ASSUME ScriptShape, ExportScripts, WriteArtifact
  PROVE  ExportScripts' /\ script'.name = "artifact"
<1>1. /\ script.name = "artifact" /\ script.todo # <<>>
      /\ UNCHANGED <<config, dataset, reports, final, lock, artifact>>
  BY DEF WriteArtifact, Writes
<1>2. PICK k \in 0 .. 3 :
         /\ script.todo = Left(ArtifactOrder, k)
         /\ k > 0 => tmp["models"] = reports["hybrid"]
         /\ k > 1 => tmp["metrics"] = [test |-> final["test_metrics"], margin |-> final["margin"]]
         /\ k > 2 => /\ dataset["manifest"] # None
                     /\ tmp["manifest"] =
                          [data |-> dataset["manifest"].data,
                           capacity |-> dataset["manifest"].capacity,
                           selection |-> script.mem.selection]
  BY <1>1 DEF ExportScripts
<1>3. /\ k \in 0 .. 2 /\ Head(script.todo) = ArtifactOrder[k + 1]
      /\ Tail(script.todo) = Left(ArtifactOrder, k + 1)
  BY <1>1, <1>2, ArtifactNext
<1>4. /\ script'.name = "artifact" /\ script'.mem = script.mem
      /\ script'.todo = Left(ArtifactOrder, k + 1)
  BY <1>1, <1>3 DEF WriteArtifact, Advance, ScriptShape, Idle
<1>5. PICK f : f = Head(script.todo)
  OBVIOUS
<1>6. PICK content :
        content = CASE f = "models" -> reports["hybrid"]
                    [] f = "metrics" -> [test |-> final["test_metrics"], margin |-> final["margin"]]
                    [] f = "manifest" ->
                          [data |-> dataset["manifest"].data,
                           capacity |-> dataset["manifest"].capacity,
                           selection |-> script.mem.selection]
  OBVIOUS
<1>7. /\ tmp' = [tmp EXCEPT ![f] = content]
      /\ f = "manifest" => dataset["manifest"] # None
  BY <1>5, <1>6 DEF WriteArtifact
<1>8. tmp' = [x \in {"models", "metrics", "manifest"} |-> IF x = f THEN content ELSE tmp[x]]
  BY <1>1, <1>7 DEF ExportScripts
<1>9. /\ k = 0 => f = "models" /\ content = reports["hybrid"]
      /\ k = 1 => /\ f = "metrics"
                  /\ content = [test |-> final["test_metrics"], margin |-> final["margin"]]
      /\ k = 2 => /\ f = "manifest"
                  /\ content = [data |-> dataset["manifest"].data,
                                capacity |-> dataset["manifest"].capacity,
                                selection |-> script.mem.selection]
  <2>1. /\ k = 0 => f = "models"
        /\ k = 1 => f = "metrics"
        /\ k = 2 => f = "manifest"
    BY <1>3, <1>5, Orders
  <2>. QED
    BY <1>6, <2>1
<1>10. k = 0 \/ k = 1 \/ k = 2
  BY <1>3
<1>11. /\ k + 1 \in 0 .. 3
       /\ k + 1 > 0 => tmp'["models"] = reports["hybrid"]
       /\ k + 1 > 1 => tmp'["metrics"] =
                         [test |-> final["test_metrics"], margin |-> final["margin"]]
       /\ k + 1 > 2 => /\ dataset["manifest"] # None
                       /\ tmp'["manifest"] =
                            [data |-> dataset["manifest"].data,
                             capacity |-> dataset["manifest"].capacity,
                             selection |-> script.mem.selection]
  BY <1>2, <1>7, <1>8, <1>9, <1>10
<1>12. LoadFrozen'
  BY <1>1 DEF ExportScripts, LoadFrozen, FrozenFiles
<1>13. \E j \in 0 .. 3 :
         /\ script'.todo = Left(ArtifactOrder, j)
         /\ j > 0 => tmp'["models"] = reports'["hybrid"]
         /\ j > 1 => tmp'["metrics"] =
                       [test |-> final'["test_metrics"], margin |-> final'["margin"]]
         /\ j > 2 => /\ dataset'["manifest"] # None
                     /\ tmp'["manifest"] =
                          [data |-> dataset'["manifest"].data,
                           capacity |-> dataset'["manifest"].capacity,
                           selection |-> script'.mem.selection]
  <2>. SUFFICES /\ script'.todo = Left(ArtifactOrder, k + 1)
                /\ k + 1 > 0 => tmp'["models"] = reports'["hybrid"]
                /\ k + 1 > 1 => tmp'["metrics"] =
                       [test |-> final'["test_metrics"], margin |-> final'["margin"]]
                /\ k + 1 > 2 => /\ dataset'["manifest"] # None
                                /\ tmp'["manifest"] =
                                     [data |-> dataset'["manifest"].data,
                                      capacity |-> dataset'["manifest"].capacity,
                                      selection |-> script'.mem.selection]
    BY <1>11
  <2>. QED
    BY <1>1, <1>4, <1>11
<1>14. /\ artifact' = None /\ script'.mem.selection = final'["selection"]
       /\ final'["margin"] = script'.mem.selection
       /\ tmp' = [x \in {"models", "metrics", "manifest"} |-> tmp'[x]]
  BY <1>1, <1>4, <1>8 DEF ExportScripts
<1>. QED
  BY <1>4, <1>12, <1>13, <1>14 DEF ExportScripts

LEMMA MoveIntoPlaceStep ==
  ASSUME DatasetPart, TestPart, ExportScripts, MoveIntoPlace
  PROVE  ArtifactIsTheTestedOne' /\ artifact = None
<1>1. /\ script.name = "artifact" /\ script.todo = <<>>
      /\ artifact' = tmp /\ UNCHANGED <<tested, forcedStop>>
  BY DEF MoveIntoPlace
<1>2. PICK k \in 0 .. 3 :
         /\ script.todo = Left(ArtifactOrder, k)
         /\ k > 0 => tmp["models"] = reports["hybrid"]
         /\ k > 1 => tmp["metrics"] = [test |-> final["test_metrics"], margin |-> final["margin"]]
         /\ k > 2 => /\ dataset["manifest"] # None
                     /\ tmp["manifest"] =
                          [data |-> dataset["manifest"].data,
                           capacity |-> dataset["manifest"].capacity,
                           selection |-> script.mem.selection]
  BY <1>1 DEF ExportScripts
<1>3. k = 3
  BY <1>1, <1>2, ArtifactNext
<1>4. PICK sel : sel = script.mem.selection
  OBVIOUS
<1>5. /\ artifact = None /\ lock.status = "completed" /\ sel = lock.selection
      /\ sel = FrozenFiles /\ final["margin"] = sel
  BY <1>1, <1>4 DEF ExportScripts, LoadFrozen
<1>6. sel \in tested /\ final["test_metrics"] = sel
  BY <1>5 DEF TestPart, LockTells, TestDone
<1>7. /\ sel.csv = dataset["csv"]
      /\ \A f \in ModelFiles \cup {"hyper"} : sel.reports["hybrid"][f] = reports["hybrid"][f]
  BY <1>5 DEF FrozenFiles, Stages
<1>8. /\ tmp["models"] = reports["hybrid"]
      /\ tmp["metrics"] = [test |-> sel, margin |-> sel]
      /\ tmp["manifest"].selection = sel
      /\ tmp["manifest"].data = dataset["manifest"].data
      /\ tmp["manifest"].capacity = dataset["manifest"].capacity
      /\ dataset["manifest"] # None
  BY <1>2, <1>3, <1>4, <1>5, <1>6
<1>9. ~forcedStop => /\ tmp["manifest"].data = sel.csv.data
                     /\ \A row \in sel.csv.data : row.raw = tmp["manifest"].capacity
  BY <1>1, <1>7, <1>8 DEF DatasetPart, DatasetAgrees, Measured
<1>w. ~forcedStop => \A f \in ScoredFiles :
        tmp["models"][f].validation = Part(tmp["manifest"].data, "validation")
  <2>1. Whole(sel)
    BY <1>6 DEF TestPart, LockTells
  <2>2. \A f \in ScoredFiles : tmp["models"][f] = sel.reports["hybrid"][f]
    BY <1>7, <1>8 DEF ScoredFiles, ModelFiles
  <2>3. \A f \in ScoredFiles :
          sel.reports["hybrid"][f].validation = Part(sel.csv.data, "validation")
    BY <2>1 DEF Whole, ScoredFiles
  <2>. QED
    BY <1>9, <2>2, <2>3
<1>10. artifact' # None =>
         \E s \in tested' :
            /\ \A f \in ModelFiles \cup {"hyper"} :
                   artifact'["models"][f] = s.reports["hybrid"][f]
            /\ artifact'["metrics"] = [test |-> s, margin |-> s]
            /\ artifact'["manifest"].selection = s
            /\ ~forcedStop' =>
                /\ artifact'["manifest"].data = s.csv.data
                /\ \A f \in ScoredFiles :
                       artifact'["models"][f].validation
                           = Part(artifact'["manifest"].data, "validation")
                /\ \A row \in s.csv.data : row.raw = artifact'["manifest"].capacity
  BY <1>1, <1>6, <1>7, <1>8, <1>9, <1>w
<1>. QED
  BY <1>5, <1>10 DEF ArtifactIsTheTestedOne

-----------------------------------------------------------------------------
(* The theorems.                                                           *)

LEMMA OutcomeTrainingBegins == Init => OutcomeTrainingInvariant
<1>. SUFFICES ASSUME Init
              PROVE  OutcomeTrainingInvariant
  OBVIOUS
<1>1. script.name = "idle" /\ script = Idle /\ raced = FALSE /\ gate = "none" /\ splits = <<>>
      /\ \A a \in Attempts : root[a] = None
  BY DEF Init, CollectionInit, Idle
<1>2. Collected
  <2>1. root = [a \in Attempts |-> root[a]]
    BY DEF Init, CollectionInit
  <2>2. MetadataTold
    BY <1>1 DEF MetadataTold, MetadataTellsVersions, Collecting, Present
  <2>3. SplitsFollowRepeats
    BY <1>1 DEF SplitsFollowRepeats
  <2>. QED
    BY <1>1, <2>1, <2>2, <2>3 DEF Collected, GateTold
<1>3. DatasetPart
  <2>1. {DatasetOrder[i] : i \in DOMAIN DatasetOrder} = {"csv", "schema", "manifest"}
    <3>1. DOMAIN DatasetOrder = {1, 2, 3}
      BY Orders
    <3>. QED
      BY <3>1, Orders
  <2>2. dataset = [f \in {"csv", "schema", "manifest"} |-> None]
    BY <2>1 DEF Init, NoFiles
  <2>. QED
    BY <1>1, <2>2 DEF DatasetPart, DatasetScript, DatasetAgrees, RowsKeepTheirMeasure
<1>4. TestPart
  <2>1. lock.status = "none" /\ tested = {} /\ final = [f \in FinalFiles |-> None]
    BY DEF Init
  <2>. QED
    BY <1>1, <2>1 DEF TestPart, LockTells, TestDone, TestScripts
<1>5. ExportScripts /\ ArtifactIsTheTestedOne
  BY <1>1 DEF Init, ExportScripts, ArtifactIsTheTestedOne
<1>. QED
  BY <1>1, <1>2, <1>3, <1>4, <1>5 DEF OutcomeTrainingInvariant, ScriptShape

\* What no step undoes: the artifact in place, the record of the completed test.
FrozenStep ==
  /\ artifact # None => artifact' = artifact
  /\ lock.status = "completed" => lock' = lock

LEMMA OutcomeTrainingStep ==
  ASSUME OutcomeTrainingInvariant, [Next]_vars
  PROVE  OutcomeTrainingInvariant' /\ FrozenStep
<1>. USE DEF OutcomeTrainingInvariant
<1>1. ScriptShape'
  BY ScriptShapeStep
<1>2. CASE UNCHANGED vars
  <2>1. UNCHANGED <<config, dataset, reports, final, lock, artifact, tmp, tested, forcedStop,
                    script>>
    BY <1>2 DEF vars, trainingVars
  <2>2. Collected'
    BY <1>2, CollectedStays DEF vars, collectionVars
  <2>3. DatasetPart' /\ TestPart'
    BY <2>1 DEF DatasetPart, DatasetScript, DatasetAgrees, RowsKeepTheirMeasure, TestPart,
       LockTells, TestDone, TestScripts, CheckCanOpen
  <2>4. ExportScripts'
    BY <2>1 DEF ExportScripts, LoadFrozen, FrozenFiles
  <2>. QED
    BY <1>1, <2>1, <2>2, <2>3, <2>4, ArtifactStays DEF FrozenStep
<1>3. CASE Collection
  <2>1. CollectionNext
        /\ UNCHANGED <<config, dataset, reports, final, lock, artifact, tmp, tested, forcedStop>>
    BY <1>3 DEF Collection, trainingVars
  <2>2. script.name \in {"idle", "collect"} /\ script'.name \in {"idle", "collect"}
    BY <2>1, CollectionIsElsewhere
  <2>3. Collected'
    BY <2>1, CollectedStep
  <2>. QED
    BY <1>1, <2>1, <2>2, <2>3, DatasetStays, TestStays, NoExport, ArtifactStays DEF FrozenStep
<1>4. CASE EditConfig \/ \E stage \in Stages : Stage(stage)
  <2>1. /\ UNCHANGED <<collectionVars, dataset, final, lock, artifact, tested, forcedStop>>
        /\ script.name = "idle" /\ script'.name \in {"idle", "direct", "hybrid"}
    BY <1>4 DEF EditConfig, Stage, Start, Idle, Stages
  <2>2. Collected'
    BY <2>1, CollectedStays DEF collectionVars
  <2>. QED
    BY <1>1, <2>1, <2>2, DatasetStays, TestStays, NoExport, ArtifactStays DEF FrozenStep
<1>5. CASE WriteReport
  <2>1. /\ UNCHANGED <<collectionVars, dataset, final, lock, artifact, tested, forcedStop>>
        /\ script.name \in {"direct", "hybrid"} /\ script'.name \in {"direct", "hybrid"}
    BY <1>5 DEF WriteReport, Advance, ScriptShape, Idle, Stages
  <2>2. Collected'
    BY <2>1, CollectedStays DEF collectionVars
  <2>. QED
    BY <1>1, <2>1, <2>2, DatasetStays, TestStays, NoExport, ArtifactStays DEF FrozenStep
<1>6. CASE \E force \in BOOLEAN : BuildDataset(force)
  <2>1. PICK force : BuildDataset(force)
    BY <1>6
  <2>2. /\ UNCHANGED <<collectionVars, final, lock, artifact, tested, forcedStop>>
        /\ script'.name = "dataset"
    BY <2>1 DEF BuildDataset, Start, trainingVars
  <2>3. Collected'
    BY <2>2, CollectedStays DEF collectionVars
  <2>4. DatasetPart'
    BY <2>1, BuildDatasetStep DEF Collected
  <2>. QED
    BY <1>1, <2>2, <2>3, <2>4, TestStays, NoExport, ArtifactStays DEF FrozenStep
<1>7. CASE WriteDataset
  <2>1. UNCHANGED <<collectionVars, final, lock, artifact, tested, forcedStop>>
    BY <1>7 DEF WriteDataset
  <2>2. DatasetPart' /\ script'.name = "dataset"
    BY <1>7, WriteDatasetStep
  <2>3. Collected'
    BY <2>1, <2>2, CollectedStays DEF collectionVars
  <2>. QED
    BY <1>1, <2>1, <2>2, <2>3, TestStays, NoExport, ArtifactStays DEF FrozenStep
<1>8. CASE SelectAndTest
  <2>1. /\ UNCHANGED <<collectionVars, dataset, lock, artifact, tested, forcedStop>>
        /\ script.name = "idle"
    BY <1>8 DEF SelectAndTest, Idle
  <2>2. TestPart' /\ script'.name = "select"
    BY <1>8, SelectAndTestStep
  <2>3. Collected'
    BY <2>1, <2>2, CollectedStays DEF collectionVars
  <2>. QED
    BY <1>1, <2>1, <2>2, <2>3, DatasetStays, NoExport, ArtifactStays DEF FrozenStep
<1>9. CASE WriteSelection
  <2>1. /\ UNCHANGED <<collectionVars, dataset, lock, artifact, tested, forcedStop>>
        /\ script.name = "select"
    BY <1>9 DEF WriteSelection, Writes
  <2>2. TestPart' /\ script'.name = "open"
    BY <1>9, WriteSelectionStep
  <2>3. Collected'
    BY <2>1, <2>2, CollectedStays DEF collectionVars
  <2>. QED
    BY <1>1, <2>1, <2>2, <2>3, DatasetStays, NoExport, ArtifactStays DEF FrozenStep
<1>10. CASE OpenTest
  <2>1. /\ UNCHANGED <<collectionVars, dataset, artifact, forcedStop>>
        /\ script.name = "open"
    BY <1>10 DEF OpenTest, Writes
  <2>2. /\ TestPart' /\ script'.name = "outputs" /\ tested \subseteq tested'
        /\ lock.status # "completed"
    BY <1>10, OpenTestStep
  <2>3. Collected'
    BY <2>1, <2>2, CollectedStays DEF collectionVars
  <2>. QED
    BY <1>1, <2>1, <2>2, <2>3, DatasetStays, NoExport, ArtifactStays DEF FrozenStep
<1>11. CASE WriteOutput
  <2>1. /\ UNCHANGED <<collectionVars, dataset, lock, artifact, tested, forcedStop>>
        /\ script.name = "outputs"
    BY <1>11 DEF WriteOutput, Writes
  <2>2. TestPart' /\ script'.name = "outputs"
    BY <1>11, WriteOutputStep
  <2>3. Collected'
    BY <2>1, <2>2, CollectedStays DEF collectionVars
  <2>. QED
    BY <1>1, <2>1, <2>2, <2>3, DatasetStays, NoExport, ArtifactStays DEF FrozenStep
<1>12. CASE CompleteTest
  <2>1. /\ UNCHANGED <<collectionVars, dataset, artifact, tested, forcedStop>>
        /\ script.name = "outputs" /\ script'.name = "idle" /\ lock.status # "completed"
    BY <1>12 DEF CompleteTest, Idle
  <2>2. TestPart'
    BY <1>12, CompleteTestStep
  <2>3. Collected'
    BY <2>1, CollectedStays DEF collectionVars
  <2>. QED
    BY <1>1, <2>1, <2>2, <2>3, DatasetStays, NoExport, ArtifactStays DEF FrozenStep
<1>13. CASE TornLock
  <2>1. /\ UNCHANGED <<collectionVars, dataset, artifact, tested, forcedStop>>
        /\ script.name \in {"open", "outputs"} /\ script'.name = "idle"
    BY <1>13 DEF TornLock, Idle
  <2>2. TestPart' /\ lock.status # "completed"
    BY <1>13, TornLockStep
  <2>3. Collected'
    BY <2>1, CollectedStays DEF collectionVars
  <2>. QED
    BY <1>1, <2>1, <2>2, <2>3, DatasetStays, NoExport, ArtifactStays DEF FrozenStep
<1>14. CASE Export
  <2>1. /\ UNCHANGED <<collectionVars, dataset, final, lock, artifact, tested, forcedStop>>
        /\ script.name = "idle"
    BY <1>14 DEF Export, Idle
  <2>2. ExportScripts' /\ script'.name = "margin"
    BY <1>14, ExportStep
  <2>3. Collected'
    BY <2>1, <2>2, CollectedStays DEF collectionVars
  <2>. QED
    BY <1>1, <2>1, <2>2, <2>3, DatasetStays, TestStays, ArtifactStays DEF FrozenStep
<1>15. CASE WriteMargin
  <2>1. /\ UNCHANGED <<collectionVars, dataset, lock, artifact, tested, forcedStop>>
        /\ script.name = "margin"
    BY <1>15 DEF WriteMargin, Writes
  <2>2. TestPart' /\ ExportScripts' /\ script'.name \in {"artifact", "idle"}
    BY <1>15, WriteMarginStep
  <2>3. Collected'
    BY <2>1, <2>2, CollectedStays DEF collectionVars
  <2>. QED
    BY <1>1, <2>1, <2>2, <2>3, DatasetStays, ArtifactStays DEF FrozenStep
<1>16. CASE WriteArtifact
  <2>1. /\ UNCHANGED <<collectionVars, dataset, final, lock, artifact, tested, forcedStop>>
        /\ script.name = "artifact"
    BY <1>16 DEF WriteArtifact, Writes
  <2>2. ExportScripts' /\ script'.name = "artifact"
    BY <1>16, WriteArtifactStep
  <2>3. Collected'
    BY <2>1, <2>2, CollectedStays DEF collectionVars
  <2>. QED
    BY <1>1, <2>1, <2>2, <2>3, DatasetStays, TestStays, ArtifactStays DEF FrozenStep
<1>17. CASE MoveIntoPlace
  <2>1. /\ UNCHANGED <<collectionVars, dataset, final, lock, tested, forcedStop>>
        /\ script.name = "artifact" /\ script'.name = "idle"
    BY <1>17 DEF MoveIntoPlace, Idle
  <2>2. ArtifactIsTheTestedOne' /\ artifact = None
    BY <1>17, MoveIntoPlaceStep
  <2>3. Collected'
    BY <2>1, CollectedStays DEF collectionVars
  <2>. QED
    BY <1>1, <2>1, <2>2, <2>3, DatasetStays, TestStays, NoExport DEF FrozenStep
<1>18. CASE Done \/ Stop
  <2>1. /\ UNCHANGED <<collectionVars, dataset, final, lock, artifact, tested>>
        /\ script' = Idle /\ script'.name = "idle"
    BY <1>18 DEF Done, Stop, Idle
  <2>2. forcedStop => forcedStop'
    BY <1>18, Zenon DEF Done, Stop
  <2>3. script.name = "dataset" =>
          script.todo = <<>> \/ (script.mem.forced => forcedStop')
    <3>1. CASE Done
      BY <3>1 DEF Done
    <3>2. CASE Stop
      <4>1. forcedStop' = (forcedStop \/ (Writes("dataset") /\ script.mem.forced))
        BY <3>2 DEF Stop
      <4>2. Writes("dataset") => (script.mem.forced => forcedStop')
        BY <4>1, Zenon
      <4>. QED
        BY <4>2 DEF Writes
    <3>. QED
      BY <1>18, <3>1, <3>2
  <2>4. Collected'
    BY <2>1, CollectedStays DEF collectionVars
  <2>5. DatasetPart'
    BY <2>1, <2>2, <2>3, DatasetStays, DatasetScriptEnds
  <2>. QED
    BY <1>1, <2>1, <2>2, <2>4, <2>5, TestStays, NoExport, ArtifactStays DEF FrozenStep
<1>. QED
  BY <1>2, <1>3, <1>4, <1>5, <1>6, <1>7, <1>8, <1>9, <1>10, <1>11, <1>12, <1>13, <1>14, <1>15,
     <1>16, <1>17, <1>18 DEF Next

(* Over all edits, collections, builds, trainings, tests, exports and       *)
(* stops, for every matrix, plan and number of versions.                    *)
THEOREM OutcomeTrainingInvariantHolds == Spec => []OutcomeTrainingInvariant
<1>1. OutcomeTrainingInvariant /\ [Next]_vars => OutcomeTrainingInvariant'
  BY OutcomeTrainingStep
<1>. QED
  BY <1>1, OutcomeTrainingBegins, PTL DEF Spec

(* Test rows are predicted with one selection: a lock that is open admits   *)
(* no other, one that is completed or torn admits none.                     *)
THEOREM OneSelectionIsTested == Spec => []TestSeesOneSelection
<1>1. OutcomeTrainingInvariant => TestSeesOneSelection
  <2>. SUFFICES ASSUME LockTells, TestDone
                PROVE  TestSeesOneSelection
    BY DEF OutcomeTrainingInvariant, TestPart
  <2>1. Cardinality(tested) <= 1
    <3>1. CASE tested = {}
      BY <3>1, FS_EmptySet
    <3>2. CASE tested # {}
      <4>1. PICK s : tested = {s}
        BY <3>2 DEF LockTells
      <4>2. Cardinality({s}) = 1
        BY FS_Singleton
      <4>. QED
        BY <4>1, <4>2
    <3>. QED
      BY <3>1, <3>2
  <2>. QED
    BY <2>1 DEF LockTells, TestDone, TestSeesOneSelection
<1>. QED
  BY <1>1, OutcomeTrainingInvariantHolds, PTL

(* The residual models of the utilization that were tested come from one    *)
(* hybrid stage with the validation rows and features of the selection: S   *)
(* of each model is computed again before the choice.                       *)
THEOREM ScoredModelsWereWhole == Spec => []ScoredModelsAreWhole
<1>1. OutcomeTrainingInvariant => ScoredModelsAreWhole
  BY DEF OutcomeTrainingInvariant, TestPart, LockTells, Whole, ScoredModelsAreWhole
<1>. QED
  BY <1>1, OutcomeTrainingInvariantHolds, PTL

(* The artifact in place is complete and of the selection that was tested.  *)
THEOREM ArtifactWasTested == Spec => []ArtifactIsTheTestedOne
<1>1. OutcomeTrainingInvariant => ArtifactIsTheTestedOne
  BY DEF OutcomeTrainingInvariant
<1>. QED
  BY <1>1, OutcomeTrainingInvariantHolds, PTL

(* A pilot that passes ran with one capacity and one matrix, unless a file  *)
(* was edited under an attempt.                                             *)
THEOREM PilotIsOneVersion == Spec => []PassedPilotIsOneVersion
<1>1. OutcomeTrainingInvariant => PassedPilotIsOneVersion
  <2>. SUFFICES ASSUME MetadataTold, GateTold, gate = "passed", ~raced,
                       NEW a \in Present, NEW b \in Present
                PROVE  root[a].raw = root[b].raw /\ root[a].plan = root[b].plan
    BY DEF OutcomeTrainingInvariant, Collected, PassedPilotIsOneVersion
  <2>1. /\ root[a].raw = root[a].version /\ root[a].plan = root[a].config
        /\ root[b].raw = root[b].version /\ root[b].plan = root[b].config
    BY DEF MetadataTold, MetadataTellsVersions
  <2>2. root[a].version = root[b].version /\ root[a].config = root[b].config
    BY DEF GateTold, FreezeKeys
  <2>. QED
    BY <2>1, <2>2
<1>. QED
  BY <1>1, OutcomeTrainingInvariantHolds, PTL

(* The rows of a dataset have one capacity, and a repeat is in one split.   *)
THEOREM RowsHaveOneMeasure == Spec => []RowsKeepTheirMeasure
<1>1. OutcomeTrainingInvariant => RowsKeepTheirMeasure
  BY DEF OutcomeTrainingInvariant, DatasetPart
<1>. QED
  BY <1>1, OutcomeTrainingInvariantHolds, PTL

(* No step changes an artifact in place or the record of a completed test.  *)
THEOREM FrozenIsFrozen == Spec => FrozenStaysFrozen
<1>1. OutcomeTrainingInvariant /\ [Next]_vars =>
        [/\ artifact # None => artifact' = artifact
         /\ lock.status = "completed" => lock' = lock]_vars
  BY OutcomeTrainingStep DEF FrozenStep
<1>. QED
  BY <1>1, OutcomeTrainingInvariantHolds, PTL DEF Spec, FrozenStaysFrozen

-----------------------------------------------------------------------------
(* Types.                                                                  *)

ReportFiles == ModelFiles \cup {"hyper", "scores"}

\* An attempt is begun only while another directory may be written for it; the time in
\* the hyperparameters is that of their stage.
OutcomeTypes ==
  /\ OutcomeTrainingTypeOK
  /\ takes = [a \in Attempts |-> takes[a]]
  /\ \A at \in {"started", "running"} : Collecting(at) => takes[Head(script.todo)] < MaxTakes
  /\ reports = [s \in Stages |-> reports[s]]
  /\ \A s \in Stages : reports[s] = [f \in ReportFiles |-> reports[s][f]]
  /\ script.name \in Stages => script.mem.at \in Nat /\ script.mem.at <= stages
  /\ \A s \in Stages : reports[s]["hyper"] # None => reports[s]["hyper"].at \in Nat

LEMMA OutcomeTypesBegin == Init => OutcomeTypes
<1>. SUFFICES ASSUME Init
              PROVE  OutcomeTypes
  OBVIOUS
<1>1. matrix \in DOMAIN SplitOf /\ capacity \in 1 .. MaxCapacity
  <2>1. matrix = 1 /\ capacity = 1
    BY DEF Init, CollectionInit
  <2>2. PICK S : SplitOf \in Seq(S) /\ SplitOf # <<>>
    BY OutcomeCollectionAssumption
  <2>3. 1 \in DOMAIN SplitOf
    BY <2>2
  <2>. QED
    BY <2>1, <2>3, OutcomeCollectionAssumption
<1>2. \A a \in Attempts : takes[a] \in 0 .. MaxTakes /\ root[a] = None
  BY OutcomeCollectionAssumption DEF Init, CollectionInit
<1>3. config \in 1 .. MaxConfigs /\ stages \in 0 .. MaxStages
  BY OutcomeTrainingAssumption DEF Init
<1>4. \A s \in Stages : reports[s] = [f \in ReportFiles |-> None]
  <2>1. {ReportOrder[i] : i \in DOMAIN ReportOrder} = ReportFiles
    <3>1. /\ Len(ReportOrder) = 6 /\ ReportOrder \in Seq(ReportFiles)
          /\ ReportOrder[1] = "rf_r" /\ ReportOrder[2] = "rf_u"
          /\ ReportOrder[3] = "xgb_r" /\ ReportOrder[4] = "xgb_u"
          /\ ReportOrder[5] = "hyper" /\ ReportOrder[6] = "scores"
      BY DEF ReportOrder, ReportFiles, ModelFiles
    <3>2. DOMAIN ReportOrder = {1, 2, 3, 4, 5, 6}
      BY <3>1
    <3>. QED
      BY <3>1, <3>2 DEF ReportFiles, ModelFiles
  <2>. QED
    BY <2>1 DEF Init, NoFiles
<1>5. \A s \in Stages : reports[s] = [f \in ReportFiles |-> reports[s][f]]
                        /\ reports[s]["hyper"] = None
  BY <1>4 DEF ReportFiles
<1>6. script.name = "idle" /\ gate = "none" /\ lock.status = "none" /\ forcedStop = FALSE
      /\ takes = [a \in Attempts |-> takes[a]] /\ reports = [s \in Stages |-> reports[s]]
  BY DEF Init, CollectionInit, Idle
<1>7. OutcomeTrainingTypeOK
  BY <1>1, <1>2, <1>3, <1>5, <1>6 DEF OutcomeTrainingTypeOK
<1>. QED
  BY <1>5, <1>6, <1>7 DEF OutcomeTypes, Collecting, Stages

\* What the collection does to the types.
CollectedTypes ==
  /\ matrix \in DOMAIN SplitOf /\ capacity \in 1 .. MaxCapacity
  /\ takes = [a \in Attempts |-> takes[a]]
  /\ \A a \in Attempts : takes[a] \in 0 .. MaxTakes /\ (root[a] # None => takes[a] > 0)
  /\ gate \in {"none", "passed", "failed"}
  /\ \A at \in {"started", "running"} : Collecting(at) => takes[Head(script.todo)] < MaxTakes

LEMMA CollectedTypesStep ==
  ASSUME ScriptShape, Collected, CollectedTypes, CollectionNext
  PROVE  CollectedTypes'
<1>. USE DEF CollectedTypes
<1>1. CASE EditMatrix
  <2>1. matrix + 1 \in DOMAIN SplitOf
    <3>1. PICK S : SplitOf \in Seq(S)
      BY OutcomeCollectionAssumption
    <3>2. matrix \in 1 .. Len(SplitOf) /\ Len(SplitOf) \in Nat /\ matrix < Len(SplitOf)
      BY <1>1, <3>1 DEF EditMatrix
    <3>. QED
      BY <3>1, <3>2
  <2>. QED
    BY <1>1, <2>1 DEF EditMatrix, Collecting
<1>2. CASE Recalibrate
  <2>1. capacity + 1 \in 1 .. MaxCapacity
    BY <1>2, OutcomeCollectionAssumption DEF Recalibrate
  <2>. QED
    BY <1>2, <2>1 DEF Recalibrate, Collecting
<1>3. ASSUME NEW a \in Attempts, MoveAway(a)
      PROVE  CollectedTypes'
  <2>1. \A x \in Attempts : root'[x] # None => root[x] # None
    BY <1>3 DEF MoveAway, Collected
  <2>. QED
    BY <1>3, <2>1 DEF MoveAway, Collecting
<1>4. ASSUME NEW repeats, NEW actions, NEW keep, StartCollection(repeats, actions, keep)
      PROVE  CollectedTypes'
  <2>1. ~Collecting("started")' /\ ~Collecting("running")'
    BY <1>4 DEF StartCollection, Start, Collecting
  <2>. QED
    BY <1>4, <2>1 DEF StartCollection, collectionVars
<1>5. CASE SkipExisting \/ AttemptFails \/ EndCollection
  <2>1. script' = NextAttempt \/ script' = Idle
    BY <1>5 DEF SkipExisting, AttemptFails, EndCollection
  <2>2. ~Collecting("started")' /\ ~Collecting("running")'
    BY <2>1 DEF NextAttempt, Collecting, Idle
  <2>3. UNCHANGED collectionVars
    BY <1>5 DEF SkipExisting, AttemptFails, EndCollection
  <2>. QED
    BY <2>2, <2>3 DEF collectionVars
<1>6. CASE StartAttempt \/ LoadCapacity
  <2>1. /\ script'.todo = script.todo /\ takes[Head(script.todo)] < MaxTakes
        /\ UNCHANGED collectionVars
    BY <1>6 DEF StartAttempt, LoadCapacity, Collecting, ScriptShape, Idle
  <2>. QED
    BY <2>1 DEF collectionVars
<1>7. ASSUME NEW kind \in Kinds, WriteAttempt(kind)
      PROVE  CollectedTypes'
  <2>1. PICK a : a = Head(script.todo) /\ takes[a] < MaxTakes
    BY <1>7 DEF WriteAttempt
  <2>2. takes' = [x \in Attempts |-> IF x = a THEN takes[a] + 1 ELSE takes[x]]
    BY <1>7, <2>1 DEF WriteAttempt
  <2>3. \A x \in Attempts : x # a => root'[x] = root[x]
    BY <1>7, <2>1 DEF WriteAttempt, Collected
  <2>4. \A x \in Attempts : takes'[x] \in 0 .. MaxTakes /\ (root'[x] # None => takes'[x] > 0)
    <3>. SUFFICES ASSUME NEW x \in Attempts
                  PROVE  takes'[x] \in 0 .. MaxTakes /\ (root'[x] # None => takes'[x] > 0)
      OBVIOUS
    <3>1. CASE x = a
      <4>1. takes'[x] = takes[x] + 1 /\ takes[x] \in 0 .. MaxTakes /\ MaxTakes \in Nat
            /\ takes[x] < MaxTakes
        BY <2>1, <2>2, <3>1, OutcomeCollectionAssumption
      <4>. QED
        BY <4>1
    <3>2. CASE x # a
      BY <2>2, <2>3, <3>2
    <3>. QED
      BY <3>1, <3>2
  <2>5. ~Collecting("started")' /\ ~Collecting("running")'
    BY <1>7 DEF WriteAttempt, NextAttempt, Collecting
  <2>6. takes' = [x \in Attempts |-> takes'[x]]
    BY <2>2
  <2>. QED
    BY <1>7, <2>4, <2>5, <2>6 DEF WriteAttempt
<1>8. CASE ReportPilot \/ ReportDataset
  BY <1>8 DEF ReportPilot, ReportDataset, Collecting
<1>. QED
  BY <1>1, <1>2, <1>3, <1>4, <1>5, <1>6, <1>7, <1>8 DEF CollectionNext

LEMMA CollectedTypesStay ==
  ASSUME CollectedTypes, UNCHANGED <<matrix, capacity, root, takes, gate>>,
         script'.name # "collect" \/ script' = script
  PROVE  CollectedTypes'
BY DEF CollectedTypes, Collecting

LEMMA ReportTypesStay ==
  ASSUME OutcomeTypes, UNCHANGED <<config, stages, reports>>, CollectedTypes',
         lock'.status \in {"none", "opened", "completed", "torn"}, forcedStop' \in BOOLEAN,
         script'.name \notin Stages \/ script' = script
  PROVE  OutcomeTypes'
BY DEF OutcomeTypes, OutcomeTrainingTypeOK, CollectedTypes

LEMMA OutcomeTypesStep ==
  ASSUME OutcomeTrainingInvariant, OutcomeTypes, [Next]_vars
  PROVE  OutcomeTypes'
<1>1. ScriptShape /\ Collected /\ CollectedTypes
  BY DEF OutcomeTrainingInvariant, OutcomeTypes, OutcomeTrainingTypeOK, CollectedTypes
<1>2. lock'.status \in {"none", "opened", "completed", "torn"}
  BY OutcomeTrainingStep DEF OutcomeTrainingInvariant, TestPart, LockTells
<1>3. forcedStop \in BOOLEAN
  BY DEF OutcomeTypes, OutcomeTrainingTypeOK
<1>4. CASE UNCHANGED vars
  BY <1>1, <1>2, <1>3, <1>4, CollectedTypesStay, ReportTypesStay
     DEF vars, collectionVars, trainingVars
<1>5. CASE Collection
  <2>1. CollectionNext /\ UNCHANGED trainingVars
    BY <1>5 DEF Collection
  <2>2. script'.name \notin Stages
    BY <1>1, <2>1, CollectionIsElsewhere DEF Stages
  <2>3. CollectedTypes'
    BY <1>1, <2>1, CollectedTypesStep
  <2>. QED
    BY <1>2, <1>3, <2>1, <2>2, <2>3, ReportTypesStay DEF trainingVars
<1>6. CASE EditConfig
  <2>1. CollectedTypes' /\ UNCHANGED <<stages, reports, forcedStop, script>>
    BY <1>1, <1>6, CollectedTypesStay DEF EditConfig, collectionVars
  <2>2. config' \in 1 .. MaxConfigs
    BY <1>6, OutcomeTrainingAssumption DEF EditConfig, OutcomeTypes, OutcomeTrainingTypeOK
  <2>. QED
    BY <1>2, <1>3, <2>1, <2>2 DEF OutcomeTypes, OutcomeTrainingTypeOK, CollectedTypes
<1>7. CASE \E stage \in Stages : Stage(stage)
  <2>1. PICK stage \in Stages : Stage(stage)
    BY <1>7
  <2>2. /\ stages' = stages + 1 /\ stages < MaxStages
        /\ script'.name = stage /\ script'.mem.at = stages'
        /\ UNCHANGED <<collectionVars, config, reports, forcedStop>>
    BY <2>1 DEF Stage, Start
  <2>3. CollectedTypes'
    BY <1>1, <2>2, CollectedTypesStay DEF collectionVars, Stages
  <2>4. stages' \in 0 .. MaxStages /\ stages' \in Nat /\ stages \in Nat /\ stages <= stages'
    BY <2>2, OutcomeTrainingAssumption DEF OutcomeTypes, OutcomeTrainingTypeOK
  <2>5. \A s \in Stages : reports'[s]["hyper"] # None => reports'[s]["hyper"].at <= stages'
    BY <2>2, <2>4 DEF OutcomeTypes, OutcomeTrainingTypeOK
  <2>6. OutcomeTrainingTypeOK'
    BY <1>2, <1>3, <2>2, <2>3, <2>4, <2>5 DEF OutcomeTypes, OutcomeTrainingTypeOK, CollectedTypes
  <2>. QED
    BY <2>2, <2>3, <2>4, <2>6 DEF OutcomeTypes, CollectedTypes
<1>8. CASE WriteReport
  <2>1. /\ script.name \in Stages /\ script'.name = script.name /\ script'.mem = script.mem
        /\ UNCHANGED <<collectionVars, config, stages, forcedStop>>
    BY <1>1, <1>8 DEF WriteReport, Advance, ScriptShape, Idle, Stages
  <2>2. PICK stage, f, content : /\ stage = script.name /\ f = Head(script.todo)
                                 /\ content = ReportContent(f, script.name, script.mem)
    OBVIOUS
  <2>3. reports' = [reports EXCEPT ![stage] = [reports[stage] EXCEPT ![f] = content]]
    BY <1>8, <2>2 DEF WriteReport
  <2>4. /\ reports' = [s \in Stages |-> reports'[s]]
        /\ reports'[stage] = [reports[stage] EXCEPT ![f] = content]
        /\ \A s \in Stages : s # stage => reports'[s] = reports[s]
    BY <2>1, <2>2, <2>3 DEF OutcomeTypes
  <2>5. reports'[stage] = [x \in ReportFiles |-> IF x = f THEN content ELSE reports[stage][x]]
    BY <2>1, <2>2, <2>4 DEF OutcomeTypes
  <2>6. f = "hyper" => content.at = script.mem.at
    BY <2>2 DEF ReportContent, ModelFiles
  <2>7. script.mem.at \in Nat /\ script.mem.at <= stages
    BY <2>1 DEF OutcomeTypes
  <2>8. \A s \in Stages :
          /\ reports'[s] = [x \in ReportFiles |-> reports'[s][x]]
          /\ reports'[s]["hyper"] # None =>
               reports'[s]["hyper"].at \in Nat /\ reports'[s]["hyper"].at <= stages
    <3>. SUFFICES ASSUME NEW s \in Stages
                  PROVE  /\ reports'[s] = [x \in ReportFiles |-> reports'[s][x]]
                         /\ reports'[s]["hyper"] # None =>
                              reports'[s]["hyper"].at \in Nat /\ reports'[s]["hyper"].at <= stages
      OBVIOUS
    <3>1. CASE s # stage
      BY <2>4, <3>1 DEF OutcomeTypes, OutcomeTrainingTypeOK
    <3>2. CASE s = stage
      <4>1. reports'[s] = [x \in ReportFiles |-> reports'[s][x]]
        BY <2>5, <3>2
      <4>2. reports'[s]["hyper"] = IF "hyper" = f THEN content ELSE reports[s]["hyper"]
        BY <2>5, <3>2 DEF ReportFiles
      <4>. QED
        BY <2>6, <2>7, <4>1, <4>2 DEF OutcomeTypes, OutcomeTrainingTypeOK
    <3>. QED
      BY <3>1, <3>2
  <2>9. CollectedTypes'
    BY <1>1, <2>1, CollectedTypesStay DEF collectionVars, Stages
  <2>10. OutcomeTrainingTypeOK'
    BY <1>2, <1>3, <2>1, <2>8, <2>9 DEF OutcomeTypes, OutcomeTrainingTypeOK, CollectedTypes
  <2>. QED
    BY <2>1, <2>4, <2>7, <2>8, <2>9, <2>10 DEF OutcomeTypes, CollectedTypes
<1>9. CASE \/ \E force \in BOOLEAN : BuildDataset(force)
           \/ WriteDataset \/ SelectAndTest \/ WriteSelection \/ OpenTest \/ WriteOutput
           \/ CompleteTest \/ TornLock \/ Export \/ WriteMargin \/ WriteArtifact
           \/ MoveIntoPlace \/ Done \/ Stop
  <2>1. UNCHANGED <<collectionVars, config, stages, reports>>
    BY <1>9 DEF BuildDataset, trainingVars, WriteDataset, SelectAndTest, WriteSelection,
       OpenTest, WriteOutput, CompleteTest, TornLock, Export, WriteMargin, WriteArtifact,
       MoveIntoPlace, Done, Stop
  <2>2. script'.name \notin Stages /\ script'.name # "collect"
    <3>1. CASE \/ \E force \in BOOLEAN : BuildDataset(force)
               \/ SelectAndTest \/ WriteSelection \/ OpenTest \/ Export
      BY <3>1 DEF BuildDataset, SelectAndTest, WriteSelection, OpenTest, Export, Start, Stages
    <3>2. CASE WriteDataset \/ WriteOutput \/ WriteArtifact
      BY <1>1, <3>2 DEF WriteDataset, WriteOutput, WriteArtifact, Advance, Writes, ScriptShape,
         Idle, Stages
    <3>3. CASE CompleteTest \/ TornLock \/ MoveIntoPlace \/ Done \/ Stop
      BY <3>3 DEF CompleteTest, TornLock, MoveIntoPlace, Done, Stop, Idle, Stages
    <3>4. CASE WriteMargin
      BY <3>4 DEF WriteMargin, Start, Idle, Stages
    <3>. QED
      BY <1>9, <3>1, <3>2, <3>3, <3>4
  <2>3. forcedStop' \in BOOLEAN
    BY <1>3, <1>9 DEF BuildDataset, trainingVars, WriteDataset, SelectAndTest, WriteSelection,
       OpenTest, WriteOutput, CompleteTest, TornLock, Export, WriteMargin, WriteArtifact,
       MoveIntoPlace, Done, Stop
  <2>4. CollectedTypes'
    BY <1>1, <2>1, <2>2, CollectedTypesStay DEF collectionVars
  <2>. QED
    BY <1>2, <2>1, <2>2, <2>3, <2>4, ReportTypesStay
<1>. QED
  BY <1>4, <1>5, <1>6, <1>7, <1>8, <1>9 DEF Next

(* Versions and counters stay within their bounds, an attempt that is there *)
(* was taken, and no hyperparameters are of a stage still to come.          *)
THEOREM OutcomeTrainingTypesHold == Spec => []OutcomeTrainingTypeOK
<1>1. OutcomeTrainingInvariant /\ OutcomeTypes /\ [Next]_vars => OutcomeTypes'
  BY OutcomeTypesStep
<1>2. OutcomeTypes => OutcomeTrainingTypeOK
  BY DEF OutcomeTypes
<1>. QED
  BY <1>1, <1>2, OutcomeTypesBegin, OutcomeTrainingInvariantHolds, PTL DEF Spec

=============================================================================
