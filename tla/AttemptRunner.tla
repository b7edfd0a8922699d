--------------------------- MODULE AttemptRunner ---------------------------
(***************************************************************************)
(* The window protocol of one scripted migration attempt: collect_attempt  *)
(* in the main thread, the StatePoller thread that appends to the list     *)
(* that it reads, and the transaction that runs in the orchestrator.       *)
(*                                                                         *)
(* A twin state is named by a key, in the order of publication; states     *)
(* that no poll fetches are left out.  Its grade says if it passes the     *)
(* Hard Gate and if it reports every switch.  `owner' is the owner of the  *)
(* one switch that pick_switch returns.  Only this attempt migrates: it    *)
(* has its own orchestrator.                                               *)
(*                                                                         *)
(* A wait may expire whenever its condition is false: the deadlines are    *)
(* left out, and so is the death of the workload, which ends a wait too.   *)
(***************************************************************************)
EXTENDS Naturals, Sequences, SequencesExt, FiniteSets

CONSTANTS
  Window,      \* required_window
  MaxSamples,  \* bound on the samples of an attempt
  MaxFlawed    \* bound on the samples without a valid snapshot

ASSUME RunnerAssumption ==
  /\ Window \in Nat \ {0}
  /\ {MaxSamples, MaxFlawed} \subseteq Nat

VARIABLES
  action,      \* action_type of the plan
  pc,          \* where collect_attempt is
  twin,        \* the twin state published last
  reply,       \* the poll in flight, or Idle
  samples,     \* StatePoller.samples
  lastKey,     \* StatePoller._last_key
  tx,          \* what the orchestrator has done with the request
  marks,       \* start_index, send_index and done_index
  before, transition, after,  \* windows of Collected
  skip,        \* is some skip reason known?
  view,        \* status of the transaction view, "NONE" without one
  complete     \* Collected.post_complete

pollVars == <<twin, reply, samples, lastKey>>
windowVars == <<marks, before, transition, after, skip, view, complete>>
attemptVars == <<action, pc, pollVars, tx, windowVars>>

Executed == {"COMMITTED", "RESTORED", "FAILED"}
Side == {"source", "target"}

\* What the quality of a twin state and its counts of switches say of it: it fails the
\* Hard Gate, it passes but lacks a switch, or it is complete.
Grade == {"gated", "partial", "ready"}

\* The view of a twin state: a payload that cannot be read as one is a gated sample.
Sample == [key : Nat, grade : Grade, owner : Side \cup {"none"}]

\* A failed fetch, or the NOT_READY answer of an orchestrator without a twin state.
NoView == [key |-> 0, grade |-> "gated", owner |-> "none"]
Idle == [key |-> 0, grade |-> "ready", owner |-> "none"]

Valid(sample) == sample.grade # "gated"

-----------------------------------------------------------------------------
(* The poller thread. *)

\* commit_migration comes before the reply; a rollback leaves the owner alone.
Owner == IF tx = "COMMITTED" THEN "target" ELSE "source"

MayFlaw == Cardinality({i \in DOMAIN samples : ~Valid(samples[i])}) < MaxFlawed

FetchFails ==
  /\ MayFlaw
  /\ reply' = NoView
  /\ UNCHANGED twin

FetchAgain ==
  /\ twin.key > 0
  /\ reply' = twin
  /\ UNCHANGED twin

FetchNew ==
  /\ \E grade \in Grade :
       /\ grade = "gated" => MayFlaw
       /\ twin' = [key |-> twin.key + 1, grade |-> grade, owner |-> Owner]
  /\ reply' = twin'

\* poll_once reads the state, and appends what it has read later.
PollFetch ==
  /\ reply = Idle /\ Len(samples) < MaxSamples
  /\ FetchFails \/ FetchAgain \/ FetchNew
  /\ UNCHANGED <<action, pc, samples, lastKey, tx, windowVars>>

SeenBefore == reply.key # 0 /\ reply.key = lastKey

PollAppend ==
  /\ reply # Idle
  /\ samples' = IF SeenBefore THEN samples ELSE Append(samples, reply)
  /\ lastKey' = reply.key
  /\ reply' = Idle
  /\ UNCHANGED <<action, pc, twin, tx, windowVars>>

Poller == PollFetch \/ PollAppend

-----------------------------------------------------------------------------
(* Windows. *)

From(mark) == SubSeq(samples, mark + 1, Len(samples))

Ending(s, n) == SubSeq(s, Len(s) - n + 1, Len(s))

\* The last accepted samples, a window of them if there are as many.
LastAccepted(s, accepted) ==
  LET hits == {i \in 1 .. Len(s) : s[i] \in accepted}
      size == IF Cardinality(hits) < Window THEN Cardinality(hits) ELSE Window
  IN  [k \in 1 .. size |->
         s[CHOOSE i \in hits : Cardinality({j \in hits : j > i}) = size - k]]

\* trailing_window finds a window of accepted samples behind a mark.
HasWindow(mark, accepted) ==
  /\ Len(From(mark)) >= Window
  /\ ToSet(Ending(From(mark), Window)) \subseteq accepted

ValidSamples == {s \in ToSet(samples) : Valid(s)}

\* Mutant of AcceptOwner: any valid twin state goes into the post window.
AcceptAnyOwner(sample) == TRUE

\* After a failed rollback the owner is unknown; a NO_OP leaves it to the source.
AcceptOwner(sample) ==
  CASE view = "COMMITTED" -> sample.owner = "target"
    [] view = "FAILED"    -> TRUE
    [] OTHER              -> sample.owner = "source"

PostSamples == {s \in ValidSamples : AcceptOwner(s)}

-----------------------------------------------------------------------------
(* collect_attempt. *)

Ready == \E s \in ToSet(samples) : s.grade = "ready"

SwitchesConnected ==
  /\ pc = "ready" /\ Ready
  /\ pc' = "phase"
  /\ UNCHANGED <<action, pollVars, tx, windowVars>>

NeverReady ==
  /\ pc = "ready" /\ ~Ready
  /\ pc' = "raised"
  /\ UNCHANGED <<action, pollVars, tx, windowVars>>

\* The planned phase is seen, or it is not: then nothing is done to the switch.
PhaseWaited ==
  /\ pc = "phase"
  /\ marks' = [marks EXCEPT !.start = Len(samples)]
  /\ \/ pc' = "pre" /\ UNCHANGED skip
     \/ pc' = "fallback" /\ skip' = TRUE
  /\ UNCHANGED <<action, pollVars, tx, before, transition, after, view, complete>>

PreWindow ==
  /\ pc = "pre" /\ HasWindow(marks.start, ValidSamples)
  /\ before' = Ending(samples, Window)
  /\ pc' = "act"
  /\ UNCHANGED <<action, pollVars, tx, marks, transition, after, skip, view, complete>>

\* Mutant of PreWindowExpires: the attempt goes on with the window it has.
PreWindowExpiresUnnoticed ==
  /\ pc = "pre" /\ ~HasWindow(marks.start, ValidSamples)
  /\ pc' = "fallback"
  /\ UNCHANGED <<action, pollVars, tx, windowVars>>

PreWindowExpires ==
  /\ pc = "pre" /\ ~HasWindow(marks.start, ValidSamples)
  /\ skip' = TRUE
  /\ pc' = "fallback"
  /\ UNCHANGED <<action, pollVars, tx, marks, before, transition, after, view, complete>>

\* The last valid samples, from any time and not in a row; Ready says there is one.
PreFallback ==
  /\ pc = "fallback"
  /\ before' = LastAccepted(samples, ValidSamples)
  /\ pc' = "act"
  /\ UNCHANGED <<action, pollVars, tx, marks, transition, after, skip, view, complete>>

\* check_preconditions; the workload may have ended.
Preconditions(alive) ==
  LET last == before[Len(before)]
  IN  last.grade = "ready" /\ last.owner = "source" /\ alive

\* The action is decided; a prediction, if one is asked for, changes nothing.
Act ==
  /\ pc = "act"
  /\ \E alive \in BOOLEAN : skip' = (skip \/ ~Preconditions(alive))
  /\ marks' = [marks EXCEPT !.send = Len(samples)]
  /\ pc' = CASE skip' -> "skipped"
             [] ~skip' /\ action = "MIGRATE" -> "send"
             [] OTHER -> "unsent"
  /\ UNCHANGED <<action, pollVars, tx, before, transition, after, view, complete>>

Send ==
  /\ pc = "send"
  /\ tx' = "running"
  /\ pc' = "sending"
  /\ UNCHANGED <<action, pollVars, windowVars>>

\* The endpoint refuses the request, or runs it to its end.
TransactionEnds ==
  /\ tx = "running"
  /\ tx' \in Executed \cup {"REFUSED"}
  /\ UNCHANGED <<action, pc, pollVars, windowVars>>

\* The view of an answer: a transaction of the same status, a rollback that failed too
\* (HTTP 500), or, for a refusal, nothing that ran.
ViewOf(answer) == IF answer = "REFUSED" THEN "SKIPPED" ELSE answer

SendReturns ==
  /\ pc = "sending" /\ tx # "running"
  /\ view' = ViewOf(tx)
  /\ marks' = [marks EXCEPT !.done = Len(samples)]
  /\ pc' = IF view' = "SKIPPED" THEN "skipped" ELSE "post"
  /\ UNCHANGED <<action, pollVars, tx, before, transition, after, skip, complete>>

\* Mutants of SendFails: a lost answer counts as a refusal; the request has no timeout.
SendFailsSkipped ==
  /\ pc = "sending"
  /\ pc' = "skipped"
  /\ UNCHANGED <<action, pollVars, tx, windowVars>>

SendFailsOnAnswer ==
  /\ pc = "sending" /\ tx # "running"
  /\ pc' = "raised"
  /\ UNCHANGED <<action, pollVars, tx, windowVars>>

\* No answer in MIGRATION_REQUEST_TIMEOUT_S, or no connection: the attempt is lost.
SendFails ==
  /\ pc = "sending"
  /\ pc' = "raised"
  /\ UNCHANGED <<action, pollVars, tx, windowVars>>

NothingSent ==
  /\ pc = "unsent"
  /\ marks' = [marks EXCEPT !.done = Len(samples)]
  /\ pc' = "post"
  /\ UNCHANGED <<action, pollVars, tx, before, transition, after, skip, view, complete>>

\* Early return: a MIGRATE that was not sent or was refused, a NO_OP that was stopped.
Skipped ==
  /\ pc = "skipped"
  /\ view' = IF action = "MIGRATE" THEN "SKIPPED" ELSE "NONE"
  /\ transition' = From(marks.send)
  /\ pc' = "collected"
  /\ UNCHANGED <<action, pollVars, tx, marks, before, after, skip, complete>>

\* Mutant of PostWindow: the transition is not cut where the post window begins.
PostWindowUncut ==
  /\ pc = "post" /\ HasWindow(marks.done, PostSamples)
  /\ after' = Ending(samples, Window)
  /\ complete' = TRUE
  /\ transition' = From(marks.send)
  /\ pc' = "collected"
  /\ UNCHANGED <<action, pollVars, tx, marks, before, skip, view>>

PostWindow ==
  /\ pc = "post" /\ HasWindow(marks.done, PostSamples)
  /\ after' = Ending(samples, Window)
  /\ complete' = TRUE
  /\ transition' = SubSeq(samples, marks.send + 1, Len(samples) - Window)
  /\ pc' = "collected"
  /\ UNCHANGED <<action, pollVars, tx, marks, before, skip, view>>

PostWindowExpires ==
  /\ pc = "post" /\ ~HasWindow(marks.done, PostSamples)
  /\ pc' = "leftover"
  /\ UNCHANGED <<action, pollVars, tx, windowVars>>

\* The list is read again: it may have grown since the wait gave up.
PostFallback ==
  /\ pc = "leftover"
  /\ after' = LastAccepted(From(marks.done), PostSamples)
  /\ transition' = From(marks.send)
  /\ pc' = "collected"
  /\ UNCHANGED <<action, pollVars, tx, marks, before, skip, view, complete>>

Collect ==
  \/ SwitchesConnected \/ NeverReady \/ PhaseWaited
  \/ PreWindow \/ PreWindowExpires \/ PreFallback
  \/ Act \/ Send \/ SendReturns \/ SendFails \/ NothingSent \/ Skipped
  \/ PostWindow \/ PostWindowExpires \/ PostFallback

-----------------------------------------------------------------------------
AttemptTypeOK ==
  /\ action \in {"MIGRATE", "NO_OP"}
  /\ pc \in {"ready", "phase", "pre", "fallback", "act", "send", "sending", "unsent",
             "skipped", "post", "leftover", "collected", "raised"}
  /\ {twin, reply} \subseteq Sample
  /\ samples \in Seq(Sample) /\ Len(samples) <= MaxSamples
  /\ lastKey \in Nat
  /\ tx \in {"none", "running", "REFUSED"} \cup Executed
  /\ marks \in [start : Nat, send : Nat, done : Nat]
  /\ {before, transition, after} \subseteq Seq(Sample)
  /\ skip \in BOOLEAN /\ complete \in BOOLEAN
  /\ view \in Executed \cup {"SKIPPED", "NONE"}
=============================================================================
