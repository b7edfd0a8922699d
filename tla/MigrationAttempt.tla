------------------------- MODULE MigrationAttempt -------------------------
(***************************************************************************)
(* run_attempt and write_attempt around the window protocol: the processes *)
(* of one attempt, its directory, the verdict that is written with it, and *)
(* the same attempt run again after an error, an interrupt or a crash.     *)
(*                                                                         *)
(* The directory is built under a temporary name that holds the process    *)
(* id: what a crash or an interrupt leaves of it is read by nobody.        *)
(***************************************************************************)
EXTENDS AttemptRunner

CONSTANTS
  NoRecord    \* the attempt has no directory in the dataset

VARIABLES
  step,         \* where run_attempt is
  orchestrator, \* is the orchestrator's port open?
  workload,     \* are the workload's bridges there?
  draft,        \* the record being written, and what of it the temporary directory holds
  final         \* the directory of the attempt in the dataset

fileVars == <<draft, final>>
processVars == <<orchestrator, workload>>
vars == <<attemptVars, step, processVars, fileVars>>

Parts == {"data", "verdict", "sums"}

-----------------------------------------------------------------------------
(* The verdict: compute_outcome and validate_attempt.  Left out: utilizations, the     *)
(* fields and numbers that are recomputed, the injected failure (which never commits), *)
(* the load of the switch, and that a commit has increased the ownership version: the  *)
(* version goes up with the owner, so a record that failed this would be refused for   *)
(* the owner of its before window too.                                                 *)

Increasing(window) == \A i \in 2 .. Len(window) : window[i - 1].key < window[i].key

Whole(window) == Len(window) >= Window
AllValid(window) == window # <<>> /\ \A s \in ToSet(window) : Valid(s)

\* Reasons of compute_outcome against training: windows, Hard Gate, transaction. Of a post
\* window that is not whole the Hard Gate is not asked.
Reasons ==
  {reason \in {"pre_window_incomplete", "pre_window_invalid", "post_window_incomplete",
               "post_window_invalid", "not_committed"} :
     CASE reason = "pre_window_incomplete"  -> ~Whole(before)
       [] reason = "pre_window_invalid"     -> ~AllValid(before)
       [] reason = "post_window_incomplete" -> ~Whole(after)
       [] reason = "post_window_invalid"    -> Whole(after) /\ ~AllValid(after)
       [] reason = "not_committed"          -> action = "MIGRATE" /\ view # "COMMITTED"}

\* An outcome is eligible exactly when it carries no reason.
Eligible == Reasons = {}

\* A MIGRATE carries a transaction, SKIPPED if none ran; a NO_OP carries none.
TransactionFits == (action = "MIGRATE") = (view # "NONE")

\* Only an executed transaction makes the pre window an error.
PreWindowFits == Len(before) = Window /\ AllValid(before)

OwnersAgree ==
  /\ \A s \in ToSet(before) : s.owner = "source"
  /\ view \in {"COMMITTED", "RESTORED"} => \A s \in ToSet(after) : AcceptOwner(s)

\* Mutant of RecordValid: the two windows are not compared with each other.
RecordValidApart ==
  /\ TransactionFits
  /\ Increasing(before) /\ Increasing(after)
  /\ view \in Executed => PreWindowFits /\ OwnersAgree

\* validate_attempt finds no error.
RecordValid ==
  /\ TransactionFits
  /\ Increasing(before) /\ Increasing(after)
  /\ before # <<>> /\ after # <<>> => before[Len(before)].key < after[1].key
  /\ view \in Executed => PreWindowFits /\ OwnersAgree

\* What is written, except for the transition samples: nothing reads them again.
Record == [action |-> action, status |-> view, complete |-> complete,
           before |-> before, after |-> after,
           valid |-> RecordValid, training |-> Eligible /\ RecordValid,
           parts |-> {}]

-----------------------------------------------------------------------------
(* One call of run_attempt. *)

\* What collect_attempt and the poller work on, when a call begins or has ended.
FreshAttempt ==
  /\ pc' = "ready" /\ view' = "NONE"
  /\ twin' = NoView /\ reply' = Idle /\ samples' = <<>> /\ lastKey' = 0
  /\ marks' = [start |-> 0, send |-> 0, done |-> 0]
  /\ before' = <<>> /\ transition' = <<>> /\ after' = <<>>
  /\ skip' = FALSE /\ complete' = FALSE
  /\ UNCHANGED action

\* Nothing is done when the attempt is there already, or when preflight finds the port
\* busy or bridges left over.
Start ==
  /\ step = "idle"
  /\ final = NoRecord /\ ~orchestrator /\ ~workload
  /\ orchestrator' = TRUE
  /\ tx' = "none"
  /\ step' = "starting"
  /\ UNCHANGED <<action, pc, pollVars, windowVars, workload, fileVars>>

\* The orchestrator answers /health: the workload and the poller start.
Healthy ==
  /\ step = "starting"
  /\ workload' = TRUE
  /\ step' = "collecting"
  /\ UNCHANGED <<attemptVars, orchestrator, fileVars>>

Running == step = "collecting" /\ pc \notin {"collected", "raised"}

Collecting ==
  /\ Running /\ Collect
  /\ UNCHANGED <<step, processVars, fileVars>>

\* The threads that run beside collect_attempt.
Beside ==
  /\ Running /\ (Poller \/ TransactionEnds)
  /\ UNCHANGED <<step, processVars, fileVars>>

\* The poller stops, the workload has ended with exit code 0, the outcome is computed.
Drained ==
  /\ step = "collecting" /\ pc = "collected"
  /\ workload' = FALSE
  /\ draft' = Record
  /\ step' = "writing"
  /\ FreshAttempt
  /\ UNCHANGED <<tx, orchestrator, final>>

WriteData ==
  /\ step = "writing"
  /\ draft' = [draft EXCEPT !.parts = {"data"}]
  /\ step' = "validating"
  /\ UNCHANGED <<attemptVars, processVars, final>>

\* Mutant of Validate: the checksums are left for later.
ValidateOnly ==
  /\ step = "validating"
  /\ draft' = [draft EXCEPT !.parts = @ \cup {"verdict"}]
  /\ step' = "renaming"
  /\ UNCHANGED <<attemptVars, processVars, final>>

Validate ==
  /\ step = "validating"
  /\ draft' = [draft EXCEPT !.parts = @ \cup {"verdict"}]
  /\ step' = "summing"
  /\ UNCHANGED <<attemptVars, processVars, final>>

WriteChecksums ==
  /\ step = "summing"
  /\ draft' = [draft EXCEPT !.parts = @ \cup {"sums"}]
  /\ step' = "renaming"
  /\ UNCHANGED <<attemptVars, processVars, final>>

\* The rename puts the attempt into the dataset; then it is made read-only.
Rename ==
  /\ step = "renaming"
  /\ final' = draft
  /\ draft' = NoRecord
  /\ step' = "locking"
  /\ UNCHANGED <<attemptVars, processVars>>

Locked ==
  /\ step = "locking"
  /\ step' = "stopping"
  /\ UNCHANGED <<attemptVars, processVars, fileVars>>

\* The handler of run_attempt: a copy of the logs; write_attempt moves its draft away.
Quarantine ==
  /\ draft' = NoRecord
  /\ step' = "stopping"
  /\ FreshAttempt
  /\ UNCHANGED <<tx, processVars, final>>

\* No answer to /health, an error of collect_attempt, of the workload or of the writer.
RunFails ==
  /\ \/ step \in {"starting", "writing", "validating", "summing", "renaming", "locking"}
     \/ step = "collecting" /\ pc \in {"collected", "raised"}
  /\ Quarantine

\* Ctrl-C passes write_attempt by and ends in the handler of run_attempt.
Interrupt ==
  /\ step \notin {"idle", "stopping"}
  /\ Quarantine

\* finally: what is alive is signalled.
Stop ==
  /\ step = "stopping"
  /\ orchestrator' = FALSE /\ workload' = FALSE
  /\ step' = "idle"
  /\ FreshAttempt
  /\ UNCHANGED <<tx, fileVars>>

\* The runner is killed: its children live on in their own process groups.
Crash ==
  /\ step # "idle"
  /\ step' = "idle"
  /\ draft' = NoRecord
  /\ FreshAttempt
  /\ UNCHANGED <<tx, processVars, final>>

\* The operator stops what a crash has left, in any order.
CleanUp ==
  /\ step = "idle" /\ (orchestrator \/ workload)
  /\ orchestrator' \in {FALSE, orchestrator}
  /\ workload' \in {FALSE, workload}
  /\ UNCHANGED <<attemptVars, step, fileVars>>

Runner ==
  \/ Healthy \/ Collecting \/ Drained
  \/ WriteData \/ Validate \/ WriteChecksums \/ Rename \/ Locked
  \/ RunFails \/ Stop

Next ==
  \/ Start \/ Runner \/ Beside
  \/ Interrupt \/ Crash \/ CleanUp

Init ==
  /\ action \in {"MIGRATE", "NO_OP"}
  /\ pc = "ready"
  /\ twin = NoView /\ reply = Idle /\ samples = <<>> /\ lastKey = 0
  /\ tx = "none" /\ view = "NONE"
  /\ marks = [start |-> 0, send |-> 0, done |-> 0]
  /\ before = <<>> /\ transition = <<>> /\ after = <<>>
  /\ skip = FALSE /\ complete = FALSE
  /\ step = "idle"
  /\ orchestrator = FALSE /\ workload = FALSE
  /\ draft = NoRecord /\ final = NoRecord

Spec == Init /\ [][Next]_vars

\* Every wait of the runner has a deadline: it goes on by itself.
FairSpec == Spec /\ WF_vars(Runner)

-----------------------------------------------------------------------------
TypeOK ==
  /\ AttemptTypeOK
  /\ step \in {"idle", "starting", "collecting", "writing", "validating", "summing",
               "renaming", "locking", "stopping"}
  /\ {orchestrator, workload} \subseteq BOOLEAN
  /\ \A record \in {draft, final} \ {NoRecord} :
       /\ record.status \in Executed \cup {"SKIPPED", "NONE"}
       /\ {record.valid, record.training, record.complete} \subseteq BOOLEAN
       /\ record.parts \subseteq Parts

\* The runner acts on a switch only behind a full pre window: Window valid twin states
\* in a row, collected after the phase was seen, each with the source as owner,
\* however the poller and the waits interleave.
NoActionWithoutWindow ==
  Running /\ tx # "none" =>
    /\ Len(before) = Window /\ Increasing(before)
    /\ \A s \in ToSet(before) : Valid(s) /\ s.owner = "source"
    /\ \E i \in marks.start .. marks.send - Window :
         before = SubSeq(samples, i + 1, i + Window)

\* The samples after the decision fall into the transition and then the post window,
\* none in both and none lost, although the poller appends while they are cut.
WindowsPartitionSamples ==
  step = "collecting" /\ complete =>
    IsPrefix(transition \o after, From(marks.send))

\* What is written about the transaction is what the orchestrator did: an executed
\* migration is never recorded as skipped, nor a lost answer as a result.
RecordTellsTransaction ==
  final # NoRecord =>
    IF final.status \in Executed THEN tx = final.status ELSE tx \in {"none", "REFUSED"}

\* A record that is used for training shows distinct twin states in order, before and
\* after one committed move of the switch (or around no move for a NO_OP), whatever
\* the poller has read twice, late or not at all.
TrainingSampleIsSound ==
  final # NoRecord /\ final.training =>
    /\ Increasing(final.before \o final.after)
    /\ \A s \in ToSet(final.before \o final.after) : Valid(s)
    /\ \A s \in ToSet(final.before) : s.owner = "source"
    /\ \A s \in ToSet(final.after) :
         s.owner = IF final.action = "MIGRATE" THEN "target" ELSE "source"

\* The validator never rejects a committed migration whose windows the runner took as
\* complete: the two agree on order, owners and repeated twin states.
CommittedRecordIsValid ==
  final # NoRecord /\ final.status = "COMMITTED" /\ final.complete => final.valid

\* Whatever fails or crashes between two steps of the writer, a directory of the
\* dataset holds its data, its verdict and its checksums.
RecordIsSealed ==
  final # NoRecord => final.parts = Parts

\* A run of the attempt ends, though no sample, answer or phase ever comes.
EveryRunEnds == step # "idle" ~> step = "idle"

\* validator.py:10-13: a record whose post window timed out is not training data.
TimedOutIsNotTraining ==
  final # NoRecord /\ ~final.complete => ~final.training
=============================================================================
