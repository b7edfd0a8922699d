--------------------------- MODULE AttemptProofs ---------------------------
(***************************************************************************)
(* The record of a migration attempt tells what happened: the six          *)
(* invariants of MigrationAttempt, for every window size, every number of  *)
(* samples and every interleaving of poller, transaction and runner, with  *)
(* interrupts and crashes.                                                 *)
(***************************************************************************)
EXTENDS MigrationAttempt, FiniteSetTheorems, SequenceTheorems, TLAPS

(***************************************************************************)
(* The inductive invariant.                                                *)
(***************************************************************************)

\* The poller reads twin states in the order of their publication, some twice and some
\* never; what it reads of the target was published after the commit.
Stream ==
  /\ reply = Idle \/ reply = NoView \/ (reply = twin /\ twin.key # 0)
  /\ reply # Idle => Len(samples) < MaxSamples
  /\ twin.key = 0 => twin = NoView
  /\ lastKey = IF samples = <<>> THEN 0 ELSE samples[Len(samples)].key
  /\ \A i \in 1 .. Len(samples) :
       /\ samples[i].key <= twin.key
       /\ samples[i].key = twin.key => samples[i] = twin
       /\ samples[i].key = 0 => samples[i] = NoView
  /\ \A i, j \in 1 .. Len(samples) : i < j /\ samples[j].key # 0 =>
       /\ samples[i].key <= samples[j].key
       /\ samples[i].key = samples[j].key => samples[i] = samples[j]
  /\ \A i \in 2 .. Len(samples) :
       samples[i].key # 0 => samples[i - 1].key < samples[i].key

\* Every view of a twin state names the side that owned the switch when it was published.
OwnerTold(sample) ==
  /\ sample.key # 0 => sample.owner \in Side
  /\ sample.owner = "target" => tx = "COMMITTED"

Owners ==
  /\ OwnerTold(twin)
  /\ \A i \in 1 .. Len(samples) : OwnerTold(samples[i])
  /\ \A i \in 1 .. marks.send : samples[i].owner # "target"

\* Where collect_attempt stands, what the orchestrator has done for it.
Unsent == {"ready", "phase", "pre", "fallback", "act", "send", "unsent"}
Told ==
  IF action = "MIGRATE" THEN view = tx /\ tx \in Executed
                        ELSE view = "NONE" /\ tx = "none"

Progress ==
  /\ pc \in Unsent => tx = "none" /\ view = "NONE"
  /\ pc \in {"ready", "phase", "pre", "fallback", "act"} => marks.send = 0
  /\ pc = "fallback" => skip
  /\ pc \in {"send", "sending"} => action = "MIGRATE"
  /\ pc = "unsent" => action = "NO_OP"
  /\ pc = "sending" => tx # "none" /\ view = "NONE"
  /\ pc \in {"post", "leftover"} => Told
  /\ pc = "skipped" => tx \in {"none", "REFUSED"}
  /\ pc = "collected" =>
       /\ view = "NONE" <=> action = "NO_OP"
       /\ view \in Executed => tx = view
       /\ view \notin Executed => tx \in {"none", "REFUSED"}

\* The pre window is a run of valid samples that ends before `end'.
Shows(window, i) ==
  /\ Len(window) = Window
  /\ \A k \in 1 .. Window : window[k] = samples[i + k] /\ Valid(window[k])

HasPre(end) == \E i \in marks.start .. end - Window : Shows(before, i)

Marks ==
  /\ marks.start <= Len(samples) /\ marks.send <= Len(samples)
  /\ pc \in {"post", "leftover"} => marks.send <= marks.done /\ marks.done <= Len(samples)

PreWindows ==
  /\ pc = "act" /\ ~skip => HasPre(Len(samples))
  /\ pc \in {"send", "sending", "unsent", "post", "leftover"} => HasPre(marks.send)
  /\ tx # "none" => HasPre(marks.send)
  /\ pc = "collected" /\ after # <<>> => HasPre(marks.send)

\* The post window holds samples that were accepted under the view of the transaction;
\* a complete one is the end of the samples, behind the answer.
PostWindows ==
  /\ pc # "collected" => after = <<>> /\ transition = <<>> /\ ~complete
  /\ pc = "collected" =>
       \A k \in 1 .. Len(after) : Valid(after[k]) /\ AcceptOwner(after[k])
  /\ pc = "collected" /\ complete =>
       LET i == Len(samples) - Window IN
       /\ i \in Nat /\ marks.send <= i
       /\ Shows(after, i)
       /\ after = SubSeq(samples, i + 1, Len(samples))
       /\ transition = SubSeq(samples, marks.send + 1, i)

\* What a call of run_attempt begins with, and leaves.
Fresh ==
  /\ pc = "ready" /\ view = "NONE"
  /\ twin = NoView /\ reply = Idle /\ samples = <<>> /\ lastKey = 0
  /\ marks = [start |-> 0, send |-> 0, done |-> 0]
  /\ before = <<>> /\ transition = <<>> /\ after = <<>>
  /\ skip = FALSE /\ complete = FALSE

\* What the record says is so, of the draft already.
TellsTransaction(record) ==
  IF record.status \in Executed THEN tx = record.status ELSE tx \in {"none", "REFUSED"}

IsSound(record) ==
  record.training =>
    /\ Increasing(record.before \o record.after)
    /\ \A s \in ToSet(record.before \o record.after) : Valid(s)
    /\ \A s \in ToSet(record.before) : s.owner = "source"
    /\ \A s \in ToSet(record.after) :
         s.owner = IF record.action = "MIGRATE" THEN "target" ELSE "source"

IsAccepted(record) ==
  record.status = "COMMITTED" /\ record.complete => record.valid

RecordType ==
  [action : {"MIGRATE", "NO_OP"}, status : Executed \cup {"SKIPPED", "NONE"},
   complete : BOOLEAN, before : Seq(Sample), after : Seq(Sample),
   valid : BOOLEAN, training : BOOLEAN, parts : SUBSET Parts]

GoodRecord(record) ==
  /\ record \in RecordType
  /\ TellsTransaction(record) /\ IsSound(record) /\ IsAccepted(record)

\* The parts of the draft follow the writer.
PartsAt ==
  [s \in {"writing", "validating", "summing", "renaming"} |->
     CASE s = "writing" -> {} [] s = "validating" -> {"data"}
       [] s = "summing" -> {"data", "verdict"} [] OTHER -> Parts]

Files ==
  /\ IF step \in DOMAIN PartsAt
     THEN GoodRecord(draft) /\ draft.parts = PartsAt[step]
     ELSE draft = NoRecord
  /\ final # NoRecord =>
       /\ step \in {"locking", "stopping", "idle"}
       /\ GoodRecord(final) /\ final.parts = Parts

Steps == {"idle", "starting", "collecting", "writing", "validating", "summing",
          "renaming", "locking", "stopping"}

AttemptInvariant ==
  /\ AttemptTypeOK
  /\ step \in Steps /\ orchestrator \in BOOLEAN /\ workload \in BOOLEAN
  /\ step = "collecting" =>
       Stream /\ Owners /\ Progress /\ Marks /\ PreWindows /\ PostWindows
  /\ step # "collecting" => Fresh
  /\ step = "starting" => tx = "none"
  /\ Files

-----------------------------------------------------------------------------
(***************************************************************************)
(* Operators of the model.                                                 *)
(***************************************************************************)

\* A part of a sequence, element by element.
LEMMA Part ==
  ASSUME NEW S, NEW s \in Seq(S), NEW m \in Nat, NEW n \in Nat, n <= Len(s)
  PROVE  /\ SubSeq(s, m + 1, n) \in Seq(S)
         /\ Len(SubSeq(s, m + 1, n)) = IF m <= n THEN n - m ELSE 0
         /\ \A k \in 1 .. n - m : SubSeq(s, m + 1, n)[k] = s[m + k]
<1>1. \A i \in m + 1 .. n : s[i] \in S
  OBVIOUS
<1>2. /\ SubSeq(s, m + 1, n) \in Seq(S)
      /\ Len(SubSeq(s, m + 1, n)) = IF m + 1 <= n THEN n - (m + 1) + 1 ELSE 0
      /\ \A i \in 1 .. n - (m + 1) + 1 : SubSeq(s, m + 1, n)[i] = s[m + 1 + i - 1]
  BY <1>1, SubSeqProperties
<1>3. Len(SubSeq(s, m + 1, n)) = IF m <= n THEN n - m ELSE 0
  BY <1>2
<1>4. ASSUME NEW k \in 1 .. n - m
      PROVE  SubSeq(s, m + 1, n)[k] = s[m + k]
  <2>1. k \in 1 .. n - (m + 1) + 1 /\ m + 1 + k - 1 = m + k
    OBVIOUS
  <2>. QED
    BY <1>2, <2>1
<1>. QED
  BY <1>2, <1>3, <1>4

\* Of a finite set of naturals, exactly one element has a given number of others above it.
LEMMA ElementByRank ==
  ASSUME NEW n \in Nat, NEW hits \in SUBSET (1 .. n),
         NEW c \in 0 .. Cardinality(hits) - 1
  PROVE  \E i \in hits : Cardinality({j \in hits : j > i}) = c
<1>. DEFINE Above(i) == {j \in hits : j > i}
            Rank == [i \in hits |-> Cardinality(Above(i))]
<1>1. IsFiniteSet(hits) /\ Cardinality(hits) \in Nat
  <2>1. IsFiniteSet(1 .. n)
    BY FS_Interval
  <2>. QED
    BY <2>1, FS_Subset, FS_CardinalityType
<1>2. ASSUME NEW i \in hits
      PROVE  /\ IsFiniteSet(Above(i)) /\ Cardinality(Above(i)) \in Nat
             /\ Cardinality(Above(i)) < Cardinality(hits)
  <2>1. Above(i) \in SUBSET hits /\ i \in Int /\ Above(i) # hits
    OBVIOUS
  <2>2. IsFiniteSet(Above(i)) /\ Cardinality(Above(i)) \in Nat
    BY <1>1, <2>1, FS_Subset, FS_CardinalityType
  <2>3. Cardinality(Above(i)) <= Cardinality(hits) /\ Cardinality(hits) # Cardinality(Above(i))
    BY <1>1, <2>1, FS_Subset
  <2>. HIDE DEF Above
  <2>. QED
    BY <1>1, <2>2, <2>3
<1>3. ASSUME NEW i \in hits, NEW k \in hits, i < k
      PROVE  Rank[i] # Rank[k]
  <2>0. \A j \in hits : j \in Int
    OBVIOUS
  <2>1. Above(k) \in SUBSET Above(i) /\ k \in Above(i) /\ k \notin Above(k)
    <3>1. \A j \in hits : j > k => j > i
      BY <1>3, <2>0
    <3>2. k > i /\ ~(k > k)
      BY <1>3, <2>0
    <3>. QED
      BY ONLY <3>1, <3>2, k \in hits
  <2>. HIDE DEF Above
  <2>2. Above(k) # Above(i)
    BY <2>1
  <2>3. Cardinality(Above(i)) # Cardinality(Above(k))
    BY <1>2, <2>1, <2>2, FS_Subset
  <2>. QED
    BY <2>3
<1>. DEFINE Below == 0 .. Cardinality(hits) - 1
<1>4. Rank \in Injection(hits, Below)
  <2>1. ASSUME NEW i \in hits
        PROVE  Rank[i] \in Below
    <3>. HIDE DEF Above
    <3>. QED
      BY <1>1, <1>2
  <2>2. ASSUME NEW i \in hits, NEW k \in hits, Rank[i] = Rank[k]
        PROVE  i = k
    <3>. HIDE DEF Rank
    <3>1. ~(i < k) /\ ~(k < i) /\ i \in Int /\ k \in Int
      BY <1>3, <2>2
    <3>. QED
      BY <3>1
  <2>3. Rank \in [hits -> Below] /\ DOMAIN Rank = hits
    BY <2>1
  <2>. HIDE DEF Rank, Below
  <2>. QED
    BY <2>2, <2>3 DEF Injection, IsInjective
<1>5. IsFiniteSet(Below) /\ Cardinality(Below) = Cardinality(hits)
  <2>1. /\ IsFiniteSet(0 .. Cardinality(hits) - 1)
        /\ Cardinality(0 .. Cardinality(hits) - 1)
             = IF 0 > Cardinality(hits) - 1 THEN 0 ELSE Cardinality(hits) - 1 - 0 + 1
    <3>1. Cardinality(hits) - 1 \in Int /\ 0 \in Int
      BY <1>1
    <3>2. \A a, b \in Int : /\ IsFiniteSet(a .. b)
                            /\ Cardinality(a .. b) = IF a > b THEN 0 ELSE b - a + 1
      BY FS_Interval
    <3>. QED
      BY ONLY <3>1, <3>2
  <2>. QED
    BY <1>1, <2>1
<1>6. Rank \in Surjection(hits, Below)
  <2>. HIDE DEF Rank, Below
  <2>. QED
    BY <1>4, <1>5, FS_Injection
<1>7. \E i \in hits : Rank[i] = c
  <2>. HIDE DEF Rank
  <2>. QED
    BY <1>6 DEF Surjection
<1>. QED
  BY <1>7

\* What is left of a window that did not come: accepted samples, not more than a window.
LEMMA LeftOver ==
  ASSUME NEW s \in Seq(Sample), NEW accepted
  PROVE  /\ LastAccepted(s, accepted) \in Seq(Sample)
         /\ \A k \in 1 .. Len(LastAccepted(s, accepted)) :
              LastAccepted(s, accepted)[k] \in accepted
<1>. USE RunnerAssumption
<1>. DEFINE hits == {i \in 1 .. Len(s) : s[i] \in accepted}
            size == IF Cardinality(hits) < Window THEN Cardinality(hits) ELSE Window
            At(k) == CHOOSE i \in hits : Cardinality({j \in hits : j > i}) = size - k
<1>1. LastAccepted(s, accepted) = [k \in 1 .. size |-> s[At(k)]]
  BY DEF LastAccepted
<1>2. Cardinality(hits) \in Nat
  <2>1. IsFiniteSet(1 .. Len(s))
    BY FS_Interval
  <2>2. hits \in SUBSET (1 .. Len(s))
    OBVIOUS
  <2>. QED
    BY <2>1, <2>2, FS_Subset, FS_CardinalityType
<1>3. ASSUME NEW k \in 1 .. size
      PROVE  At(k) \in hits
  <2>1. size - k \in 0 .. Cardinality(hits) - 1
    <3>. HIDE DEF hits
    <3>. QED
      BY <1>2
  <2>2. hits \in SUBSET (1 .. Len(s)) /\ Len(s) \in Nat
    OBVIOUS
  <2>. HIDE DEF hits, size
  <2>3. \A c \in 0 .. Cardinality(hits) - 1 :
          \E i \in hits : Cardinality({j \in hits : j > i}) = c
    BY ONLY <2>2, ElementByRank
  <2>4. \E i \in hits : Cardinality({j \in hits : j > i}) = size - k
    BY ONLY <2>1, <2>3
  <2>. QED
    BY <2>4
<1>4. size \in Nat
  <2>. HIDE DEF hits
  <2>. QED
    BY <1>2
<1>5. ASSUME NEW k \in 1 .. size
      PROVE  s[At(k)] \in Sample /\ s[At(k)] \in accepted
  <2>. HIDE DEF At, size
  <2>. QED
    BY <1>3
<1>6. [k \in 1 .. size |-> s[At(k)]] \in [1 .. size -> Sample]
  <2>. HIDE DEF At, size
  <2>. QED
    BY <1>5
<1>7. /\ [k \in 1 .. size |-> s[At(k)]] \in Seq(Sample)
      /\ Len([k \in 1 .. size |-> s[At(k)]]) = size
  <2>. HIDE DEF At, size
  <2>. QED
    BY <1>4, <1>6
<1>. HIDE DEF At, size
<1>. QED
  BY <1>1, <1>5, <1>7

\* A window that HasWindow finds is the end of the samples.
LEMMA WindowIsEnd ==
  ASSUME samples \in Seq(Sample), NEW mark \in Nat, mark <= Len(samples), NEW accepted,
         HasWindow(mark, accepted)
  PROVE  /\ Len(samples) - Window \in Nat /\ mark <= Len(samples) - Window
         /\ \A k \in 1 .. Window : samples[Len(samples) - Window + k] \in accepted
<1>. USE RunnerAssumption
<1>. DEFINE n == Len(samples)
            from == SubSeq(samples, mark + 1, n)
            ending == SubSeq(from, Len(from) - Window + 1, Len(from))
<1>1. n \in Nat /\ n <= Len(samples)
  OBVIOUS
<1>2. /\ from \in Seq(Sample) /\ Len(from) = n - mark
      /\ \A k \in 1 .. n - mark : from[k] = samples[mark + k]
  BY <1>1, Part
<1>3. Len(from) >= Window /\ ToSet(ending) \subseteq accepted
  BY DEF HasWindow, From, Ending
<1>. HIDE DEF from
<1>4. Len(from) - Window \in Nat /\ Len(from) \in Nat
  BY <1>2, <1>3
<1>5. /\ ending \in Seq(Sample) /\ Len(ending) = Window
      /\ \A k \in 1 .. Window : ending[k] = from[Len(from) - Window + k]
  <2>1. /\ ending \in Seq(Sample)
        /\ Len(ending) = IF Len(from) - Window <= Len(from)
                         THEN Len(from) - (Len(from) - Window) ELSE 0
        /\ \A k \in 1 .. Len(from) - (Len(from) - Window) :
             ending[k] = from[Len(from) - Window + k]
    BY <1>2, <1>4, Part
  <2>2. Len(from) - (Len(from) - Window) = Window /\ Len(from) - Window <= Len(from)
    BY <1>4
  <2>. HIDE DEF ending
  <2>. QED
    BY <2>1, <2>2
<1>6. ASSUME NEW k \in 1 .. Window
      PROVE  samples[n - Window + k] \in accepted
  <2>1. ending[k] \in ToSet(ending)
    <3>. HIDE DEF ending
    <3>1. DOMAIN ending = 1 .. Window
      BY <1>5
    <3>. QED
      BY <3>1 DEF ToSet
  <2>2. ending[k] = from[Len(from) - Window + k]
    BY <1>5
  <2>3. Len(from) - Window + k \in 1 .. n - mark
    BY <1>2, <1>4
  <2>4. mark + (Len(from) - Window + k) = n - Window + k
    BY <1>1, <1>2
  <2>5. from[Len(from) - Window + k] = samples[n - Window + k]
    BY <1>2, <2>3, <2>4
  <2>. HIDE DEF ending
  <2>. QED
    BY <1>3, <2>1, <2>2, <2>5
<1>7. n - Window \in Nat /\ mark <= n - Window
  BY <1>1, <1>2, <1>3
<1>. QED
  BY <1>6, <1>7

-----------------------------------------------------------------------------
(***************************************************************************)
(* The steps of one attempt.                                               *)
(***************************************************************************)

Inside == AttemptTypeOK /\ Stream /\ Owners /\ Progress /\ Marks /\ PreWindows /\ PostWindows

\* The samples are a sequence, and nothing of them changes.
LEMMA SamplesType ==
  ASSUME AttemptTypeOK
  PROVE  /\ samples \in Seq(Sample) /\ Len(samples) \in Nat
         /\ \A i \in 1 .. Len(samples) :
              /\ samples[i] \in Sample /\ samples[i].key \in Nat
              /\ samples[i].owner \in Side \cup {"none"}
         /\ twin \in Sample /\ reply \in Sample /\ twin.key \in Nat /\ reply.key \in Nat
         /\ twin.owner \in Side \cup {"none"}
         /\ marks.start \in Nat /\ marks.send \in Nat /\ marks.done \in Nat
<1>1. samples \in Seq(Sample) /\ twin \in Sample /\ reply \in Sample
  BY DEF AttemptTypeOK
<1>2. marks \in [start : Nat, send : Nat, done : Nat]
  BY DEF AttemptTypeOK
<1>3. \A sample \in Sample : sample.key \in Nat /\ sample.owner \in Side \cup {"none"}
  BY DEF Sample
<1>. QED
  BY <1>1, <1>2, <1>3

LEMMA StreamSame ==
  ASSUME Stream, UNCHANGED pollVars
  PROVE  Stream'
  BY DEF Stream, pollVars

LEMMA OwnersSame ==
  ASSUME Owners, UNCHANGED pollVars, marks'.send = marks.send,
         tx = "COMMITTED" => tx' = "COMMITTED"
  PROVE  Owners'
  BY DEF Owners, OwnerTold, pollVars

LEMMA FetchStep ==
  ASSUME Inside, PollFetch
  PROVE  Inside'
<1>1. /\ reply = Idle /\ Len(samples) < MaxSamples
      /\ FetchFails \/ FetchAgain \/ FetchNew
      /\ UNCHANGED <<action, pc, samples, lastKey, tx, windowVars>>
  BY DEF PollFetch
<1>2. /\ samples \in Seq(Sample) /\ Len(samples) \in Nat
      /\ \A i \in 1 .. Len(samples) : samples[i] \in Sample /\ samples[i].key \in Nat
      /\ twin \in Sample /\ twin.key \in Nat
  BY SamplesType DEF Inside
<1>3. NoView \in Sample /\ NoView.key = 0 /\ NoView.owner = "none" /\ NoView # Idle
  BY DEF NoView, Sample, Grade, Idle
<1>4. CASE UNCHANGED twin /\ (reply' = NoView \/ (reply' = twin /\ twin.key # 0))
  <2>1. AttemptTypeOK'
    BY <1>1, <1>2, <1>3, <1>4 DEF Inside, AttemptTypeOK, windowVars
  <2>2. Stream'
    BY <1>1, <1>4 DEF Inside, Stream
  <2>3. Owners'
    BY <1>1, <1>4 DEF Inside, Owners, OwnerTold, windowVars
  <2>. QED
    BY <1>1, <2>1, <2>2, <2>3
       DEF Inside, Progress, Marks, PreWindows, PostWindows, windowVars, Told, HasPre, Shows,
           AcceptOwner, Valid
<1>5. CASE FetchNew
  <2>1. PICK grade \in Grade :
          /\ twin' = [key |-> twin.key + 1, grade |-> grade, owner |-> Owner]
          /\ reply' = twin'
    BY <1>5 DEF FetchNew
  <2>2. /\ twin' \in Sample /\ twin'.key = twin.key + 1 /\ twin'.owner \in Side
        /\ twin'.owner = "target" => tx = "COMMITTED"
    BY <1>2, <2>1 DEF Sample, Owner, Side
  <2>3. AttemptTypeOK'
    BY <1>1, <2>1, <2>2 DEF Inside, AttemptTypeOK, windowVars
  <2>4. Stream'
    <3>1. \A i \in 1 .. Len(samples) : samples[i].key < twin'.key
      BY <1>2, <2>2 DEF Inside, Stream
    <3>2. reply' = twin' /\ twin'.key # 0
      BY <1>2, <2>1, <2>2
    <3>3. \A i \in 1 .. Len(samples) :
            samples[i].key <= twin'.key /\ samples[i].key # twin'.key
      BY <1>2, <2>2, <3>1
    <3>. QED
      BY <1>1, <3>2, <3>3 DEF Inside, Stream
  <2>5. Owners'
    BY <1>1, <2>2 DEF Inside, Owners, OwnerTold, windowVars
  <2>. QED
    BY <1>1, <2>3, <2>4, <2>5
       DEF Inside, Progress, Marks, PreWindows, PostWindows, windowVars, Told, HasPre, Shows,
           AcceptOwner, Valid
<1>. QED
  BY <1>1, <1>4, <1>5 DEF FetchFails, FetchAgain

\* A longer list of samples shows the windows of the shorter one.
LEMMA Longer ==
  ASSUME AttemptTypeOK, NEW sample \in Sample, samples' = Append(samples, sample)
  PROVE  /\ samples' \in Seq(Sample) /\ Len(samples') = Len(samples) + 1
         /\ \A i \in 1 .. Len(samples) : samples'[i] = samples[i]
         /\ samples'[Len(samples) + 1] = sample
  BY AppendProperties DEF AttemptTypeOK

LEMMA AppendStep ==
  ASSUME Inside, PollAppend, pc # "collected"
  PROVE  Inside'
<1>1. /\ reply # Idle
      /\ samples' = IF SeenBefore THEN samples ELSE Append(samples, reply)
      /\ lastKey' = reply.key
      /\ reply' = Idle
      /\ UNCHANGED <<action, pc, twin, tx, windowVars>>
  BY DEF PollAppend
<1>2. /\ samples \in Seq(Sample) /\ Len(samples) \in Nat
      /\ \A i \in 1 .. Len(samples) : samples[i] \in Sample /\ samples[i].key \in Nat
      /\ twin \in Sample /\ twin.key \in Nat /\ reply \in Sample /\ reply.key \in Nat
      /\ marks.start \in Nat /\ marks.send \in Nat /\ marks.done \in Nat
  BY SamplesType DEF Inside
<1>3. Idle \in Sample /\ NoView.key = 0 /\ NoView.owner = "none"
  BY DEF NoView, Sample, Grade, Idle
<1>4. CASE SeenBefore
  <2>1. samples' = samples /\ lastKey' = lastKey
    BY <1>1, <1>4 DEF SeenBefore
  <2>2. AttemptTypeOK'
    BY <1>1, <1>3, <2>1 DEF Inside, AttemptTypeOK, windowVars
  <2>3. Stream'
    BY <1>1, <2>1 DEF Inside, Stream
  <2>4. Owners'
    BY <1>1, <2>1 DEF Inside, Owners, OwnerTold, windowVars
  <2>. QED
    BY <1>1, <2>1, <2>2, <2>3, <2>4
       DEF Inside, Progress, Marks, PreWindows, PostWindows, windowVars, Told, HasPre, Shows
<1>5. CASE ~SeenBefore
  <2>1. /\ samples' \in Seq(Sample) /\ Len(samples') = Len(samples) + 1
        /\ \A i \in 1 .. Len(samples) : samples'[i] = samples[i]
        /\ samples'[Len(samples) + 1] = reply
    BY <1>1, <1>2, <1>5, Longer DEF Inside
  <2>2. Len(samples') <= MaxSamples /\ lastKey' \in Nat
    BY <1>1, <1>2, <2>1, RunnerAssumption DEF Inside, Stream
  <2>3. AttemptTypeOK'
    BY <1>1, <1>3, <2>1, <2>2 DEF Inside, AttemptTypeOK, windowVars
  <2>4. /\ reply.key <= twin.key
        /\ reply.key = twin.key => reply = twin
        /\ reply.key = 0 => reply = NoView
        /\ reply.key # 0 => reply = twin
    BY <1>1, <1>2, <1>3 DEF Inside, Stream
  <2>5. Stream'
    <3>1. samples' # <<>>
      BY <1>2, <2>1
    <3>2. lastKey' = samples'[Len(samples')].key
      BY <1>1, <1>2, <2>1
    <3>3. ASSUME NEW i \in 1 .. Len(samples')
          PROVE  /\ samples'[i].key <= twin.key
                 /\ samples'[i].key = twin.key => samples'[i] = twin
                 /\ samples'[i].key = 0 => samples'[i] = NoView
      <4>1. i \in 1 .. Len(samples) \/ i = Len(samples) + 1
        BY <1>2, <2>1
      <4>. QED
        BY <2>1, <2>4, <4>1 DEF Inside, Stream
    <3>4. ASSUME NEW i \in 1 .. Len(samples'), NEW j \in 1 .. Len(samples'), i < j,
                 samples'[j].key # 0
          PROVE  /\ samples'[i].key <= samples'[j].key
                 /\ samples'[i].key = samples'[j].key => samples'[i] = samples'[j]
      <4>1. i \in 1 .. Len(samples) /\ (j \in 1 .. Len(samples) \/ j = Len(samples) + 1)
        <5>1. Len(samples') = Len(samples) + 1 /\ Len(samples) \in Nat
          BY <1>2, <2>1
        <5>2. i < j
          BY <3>4
        <5>. QED
          BY ONLY <5>1, <5>2, i \in 1 .. Len(samples'), j \in 1 .. Len(samples')
      <4>2. CASE j \in 1 .. Len(samples)
        BY <2>1, <3>4, <4>1, <4>2 DEF Inside, Stream
      <4>3. CASE j = Len(samples) + 1
        <5>1. samples'[j] = twin /\ samples'[i] = samples[i]
          BY <2>1, <2>4, <3>4, <4>1, <4>3
        <5>. QED
          BY <4>1, <5>1 DEF Inside, Stream
      <4>. QED
        BY <4>1, <4>2, <4>3
    <3>5. ASSUME NEW i \in 2 .. Len(samples'), samples'[i].key # 0
          PROVE  samples'[i - 1].key < samples'[i].key
      <4>1. i \in 2 .. Len(samples) \/ i = Len(samples) + 1
        BY <1>2, <2>1
      <4>2. CASE i \in 2 .. Len(samples)
        <5>1. i \in 1 .. Len(samples) /\ i - 1 \in 1 .. Len(samples)
          BY <1>2, <4>2
        <5>. QED
          BY <2>1, <3>5, <4>2, <5>1 DEF Inside, Stream
      <4>3. CASE i = Len(samples) + 1
        <5>1. Len(samples) \in 1 .. Len(samples) /\ i - 1 = Len(samples) /\ samples # <<>>
          BY <1>2, <4>3
        <5>2. /\ samples'[i] = reply /\ reply.key # 0 /\ reply = twin
              /\ samples'[i - 1] = samples[Len(samples)]
          BY <2>1, <2>4, <3>5, <4>3, <5>1
        <5>3. lastKey = samples[Len(samples)].key
          BY <5>1 DEF Inside, Stream
        <5>4. samples[Len(samples)].key # twin.key
          BY <1>5, <5>2, <5>3 DEF SeenBefore
        <5>5. samples[Len(samples)].key <= twin.key
          BY <5>1 DEF Inside, Stream
        <5>. QED
          BY <1>2, <5>1, <5>2, <5>4, <5>5
      <4>. QED
        BY <4>1, <4>2, <4>3
    <3>. QED
      BY <1>1, <3>1, <3>2, <3>3, <3>4, <3>5 DEF Inside, Stream
  <2>6. Owners'
    <3>1. OwnerTold(twin)' /\ OwnerTold(twin)
      BY <1>1 DEF Inside, Owners, OwnerTold
    <3>2. ASSUME NEW i \in 1 .. Len(samples')
          PROVE  OwnerTold(samples[i])' 
      <4>1. i \in 1 .. Len(samples) \/ i = Len(samples) + 1
        BY <1>2, <2>1
      <4>2. reply = twin \/ (reply.key = 0 /\ reply.owner = "none")
        BY <1>3, <2>4
      <4>. QED
        BY <1>1, <2>1, <3>1, <4>1, <4>2 DEF Inside, Owners, OwnerTold
    <3>3. \A i \in 1 .. marks.send : i \in 1 .. Len(samples)
      BY <1>2 DEF Inside, Marks
    <3>. QED
      BY <1>1, <2>1, <3>1, <3>2, <3>3 DEF Inside, Owners, windowVars
  <2>7. Marks'
    BY <1>1, <1>2, <2>1 DEF Inside, Marks, windowVars
  <2>8. ASSUME NEW end \in Nat, end <= Len(samples), HasPre(end)
        PROVE  HasPre(end)' /\ HasPre(Len(samples))' 
    <3>1. PICK i \in marks.start .. end - Window : Shows(before, i)
      BY <2>8 DEF HasPre
    <3>2. Shows(before, i)'
      <4>1. \A k \in 1 .. Window : i + k \in 1 .. Len(samples)
        BY <1>2, <2>8, RunnerAssumption
      <4>. QED
        BY <1>1, <2>1, <3>1, <4>1 DEF Shows, windowVars, Valid
    <3>3. i \in marks.start .. Len(samples') - Window
      BY <1>2, <2>1, <2>8, RunnerAssumption
    <3>. QED
      BY <1>1, <3>2, <3>3, <3>1 DEF HasPre, windowVars
  <2>9. PreWindows'
    <3>1. marks.send <= Len(samples)
      BY DEF Inside, Marks
    <3>2. HasPre(marks.send) => HasPre(marks.send)'
      BY <1>1, <1>2, <2>8, <3>1 DEF windowVars
    <3>3. HasPre(Len(samples)) => HasPre(Len(samples))'
      BY <1>2, <2>8
    <3>. QED
      BY <1>1, <3>2, <3>3 DEF Inside, PreWindows, windowVars
  <2>10. Progress' /\ PostWindows'
    BY <1>1 DEF Inside, Progress, PostWindows, windowVars, Told
  <2>. QED
    BY <2>3, <2>5, <2>6, <2>7, <2>9, <2>10 DEF Inside
<1>. QED
  BY <1>4, <1>5

\* The steps that move collect_attempt, or the transaction, and leave the windows alone.
LEMMA QuietStep ==
  ASSUME Inside,
         \/ SwitchesConnected \/ NeverReady \/ PreWindowExpires \/ Send \/ SendFails
         \/ PostWindowExpires \/ TransactionEnds
  PROVE  Inside'
<1>1. /\ UNCHANGED <<action, pollVars, marks, before, transition, after, view, complete>>
      /\ tx = "COMMITTED" => tx' = "COMMITTED"
  BY DEF SwitchesConnected, NeverReady, PreWindowExpires, Send, SendFails, PostWindowExpires,
         TransactionEnds, windowVars, Inside, Progress, Unsent
<1>2. AttemptTypeOK'
  <2>1. pc' \in {"ready", "phase", "pre", "fallback", "act", "send", "sending", "unsent",
                 "skipped", "post", "leftover", "collected", "raised"}
    BY DEF SwitchesConnected, NeverReady, PreWindowExpires, Send, SendFails, PostWindowExpires,
           TransactionEnds, Inside, AttemptTypeOK
  <2>2. skip' \in BOOLEAN
    BY DEF SwitchesConnected, NeverReady, PreWindowExpires, Send, SendFails, PostWindowExpires,
           TransactionEnds, Inside, AttemptTypeOK, windowVars
  <2>3. tx' \in {"none", "running", "REFUSED"} \cup Executed
    BY DEF SwitchesConnected, NeverReady, PreWindowExpires, Send, SendFails, PostWindowExpires,
           TransactionEnds, Inside, AttemptTypeOK
  <2>. QED
    BY <1>1, <2>1, <2>2, <2>3 DEF Inside, AttemptTypeOK, pollVars
<1>3. Stream' /\ Owners'
  BY <1>1, StreamSame, OwnersSame DEF Inside
<1>4. Progress'
  BY <1>1 DEF SwitchesConnected, NeverReady, PreWindowExpires, Send, SendFails,
     PostWindowExpires, TransactionEnds, Inside, Progress, Unsent, Told, Executed
<1>5. Marks'
  BY <1>1 DEF SwitchesConnected, NeverReady, PreWindowExpires, Send, SendFails,
     PostWindowExpires, TransactionEnds, Inside, Marks, pollVars
<1>6. /\ HasPre(marks.send)' <=> HasPre(marks.send)
      /\ HasPre(Len(samples))' <=> HasPre(Len(samples))
  BY <1>1 DEF HasPre, Shows, Valid, pollVars
<1>7. PreWindows'
  <2>1. (pc' # "act" /\ pc' # "collected") \/ UNCHANGED <<pc, skip>>
    BY DEF SwitchesConnected, NeverReady, PreWindowExpires, Send, SendFails,
       PostWindowExpires, TransactionEnds, windowVars
  <2>2. pc' \in {"send", "sending", "unsent", "post", "leftover"} => HasPre(marks.send)
    BY DEF SwitchesConnected, NeverReady, PreWindowExpires, Send, SendFails,
       PostWindowExpires, TransactionEnds, Inside, PreWindows
  <2>3. tx' # "none" => HasPre(marks.send)
    BY DEF SwitchesConnected, NeverReady, PreWindowExpires, Send, SendFails,
       PostWindowExpires, TransactionEnds, Inside, PreWindows
  <2>. QED
    BY <1>1, <1>6, <2>1, <2>2, <2>3 DEF Inside, PreWindows
<1>8. PostWindows'
  BY <1>1 DEF SwitchesConnected, NeverReady, PreWindowExpires, Send, SendFails,
     PostWindowExpires, TransactionEnds, Inside, PostWindows, Shows, Valid, AcceptOwner,
     pollVars
<1>. QED
  BY <1>2, <1>3, <1>4, <1>5, <1>7, <1>8 DEF Inside

LEMMA PhaseStep ==
  ASSUME Inside, PhaseWaited
  PROVE  Inside'
<1>1. /\ pc = "phase" /\ pc' \in {"pre", "fallback"}
      /\ marks' = [marks EXCEPT !.start = Len(samples)]
      /\ skip' \in {skip, TRUE} /\ (pc' = "fallback" => skip' = TRUE)
      /\ UNCHANGED <<action, pollVars, tx, before, transition, after, view, complete>>
  BY DEF PhaseWaited
<1>2. Len(samples) \in Nat
  BY SamplesType DEF Inside
<1>3. /\ marks' \in [start : Nat, send : Nat, done : Nat]
      /\ marks'.start = Len(samples) /\ marks'.send = marks.send
  BY <1>1, <1>2 DEF Inside, AttemptTypeOK
<1>4. AttemptTypeOK'
  BY <1>1, <1>3 DEF Inside, AttemptTypeOK, pollVars
<1>5. Stream' /\ Owners'
  BY <1>1, <1>3, StreamSame, OwnersSame DEF Inside
<1>6. Progress' /\ tx = "none" /\ marks.send = 0
  BY <1>1, <1>3 DEF Inside, Progress, Unsent
<1>7. Marks'
  BY <1>1, <1>2, <1>3, <1>6 DEF Marks, pollVars
<1>8. PreWindows' /\ PostWindows'
  BY <1>1, <1>6 DEF Inside, PreWindows, PostWindows
<1>. QED
  BY <1>4, <1>5, <1>6, <1>7, <1>8 DEF Inside

\* The pre window: the last samples, all valid, from behind the start mark.
LEMMA PreWindowStep ==
  ASSUME Inside, PreWindow
  PROVE  Inside'
<1>1. /\ pc = "pre" /\ pc' = "act" /\ HasWindow(marks.start, ValidSamples)
      /\ before' = Ending(samples, Window)
      /\ UNCHANGED <<action, pollVars, tx, marks, transition, after, skip, view, complete>>
  BY DEF PreWindow
<1>2. /\ samples \in Seq(Sample) /\ Len(samples) \in Nat /\ marks.start \in Nat
      /\ marks.start <= Len(samples) /\ Window \in Nat \ {0}
  BY SamplesType, RunnerAssumption DEF Inside, Marks
<1>. PICK i : i = Len(samples) - Window
  OBVIOUS
<1>3. /\ i \in Nat /\ marks.start <= i
      /\ \A k \in 1 .. Window : samples[i + k] \in ValidSamples
  BY <1>1, <1>2, WindowIsEnd
<1>4. /\ before' \in Seq(Sample) /\ Len(before') = Window
      /\ \A k \in 1 .. Window : before'[k] = samples[i + k]
  <2>1. before' = SubSeq(samples, i + 1, Len(samples))
    BY <1>1 DEF Ending
  <2>2. Len(samples) - i = Window /\ i <= Len(samples)
    BY <1>2
  <2>. QED
    BY <1>2, <1>3, <2>1, <2>2, Part
<1>5. \A k \in 1 .. Window : Valid(samples[i + k])
  BY <1>3 DEF ValidSamples
<1>6. AttemptTypeOK'
  BY <1>1, <1>4 DEF Inside, AttemptTypeOK, pollVars
<1>7. Stream' /\ Owners'
  BY <1>1, StreamSame, OwnersSame DEF Inside
<1>8. Progress' /\ tx = "none"
  BY <1>1 DEF Inside, Progress, Unsent
<1>9. Marks'
  BY <1>1 DEF Inside, Marks, pollVars
<1>10. PreWindows'
  <2>1. Shows(before, i)'
    BY <1>1, <1>4, <1>5 DEF Shows, pollVars, Valid
  <2>2. i \in marks.start .. Len(samples) - Window
    BY <1>2, <1>3
  <2>3. HasPre(Len(samples))'
    BY <1>1, <2>1, <2>2 DEF HasPre, pollVars
  <2>. QED
    BY <1>1, <1>8, <2>3 DEF PreWindows, pollVars
<1>11. PostWindows'
  BY <1>1 DEF Inside, PostWindows
<1>. QED
  BY <1>6, <1>7, <1>8, <1>9, <1>10, <1>11 DEF Inside

\* Without a pre window something is skipped already: nobody will ask for the window.
LEMMA PreFallbackStep ==
  ASSUME Inside, PreFallback
  PROVE  Inside'
<1>1. /\ pc = "fallback" /\ pc' = "act"
      /\ before' = LastAccepted(samples, ValidSamples)
      /\ UNCHANGED <<action, pollVars, tx, marks, transition, after, skip, view, complete>>
  BY DEF PreFallback
<1>2. before' \in Seq(Sample)
  BY <1>1, SamplesType, LeftOver DEF Inside
<1>3. AttemptTypeOK'
  BY <1>1, <1>2 DEF Inside, AttemptTypeOK, pollVars
<1>4. Stream' /\ Owners'
  BY <1>1, StreamSame, OwnersSame DEF Inside
<1>5. Progress' /\ tx = "none" /\ skip
  BY <1>1 DEF Inside, Progress, Unsent
<1>6. Marks' /\ PreWindows' /\ PostWindows'
  BY <1>1, <1>5 DEF Inside, Marks, PreWindows, PostWindows, pollVars
<1>. QED
  BY <1>3, <1>4, <1>5, <1>6 DEF Inside

\* The decision: what is sent rests on a full window.
LEMMA ActStep ==
  ASSUME Inside, Act
  PROVE  Inside'
<1>1. /\ pc = "act" /\ pc' \in {"send", "unsent", "skipped"}
      /\ skip' \in BOOLEAN /\ (skip => skip')
      /\ pc' # "skipped" => ~skip
      /\ pc' = "send" => action = "MIGRATE"
      /\ pc' = "unsent" => action # "MIGRATE"
      /\ marks' = [marks EXCEPT !.send = Len(samples)]
      /\ UNCHANGED <<action, pollVars, tx, before, transition, after, view, complete>>
  <2>1. PICK alive \in BOOLEAN : skip' = (skip \/ ~Preconditions(alive))
    BY DEF Act
  <2>2. skip \in BOOLEAN
    BY DEF Inside, AttemptTypeOK
  <2>3. skip' \in BOOLEAN /\ (skip => skip')
    BY <2>1, <2>2
  <2>4. pc' = CASE skip' -> "skipped"
                [] ~skip' /\ action = "MIGRATE" -> "send"
                [] OTHER -> "unsent"
    BY DEF Act
  <2>5. /\ pc' \in {"send", "unsent", "skipped"} /\ (pc' # "skipped" => ~skip')
        /\ pc' = "send" => action = "MIGRATE"
        /\ pc' = "unsent" => action # "MIGRATE"
    BY ONLY <2>3, <2>4
  <2>. QED
    BY <2>3, <2>5 DEF Act
<1>2. Len(samples) \in Nat /\ marks.start \in Nat /\ Window \in Nat \ {0}
  BY SamplesType, RunnerAssumption DEF Inside
<1>3. /\ marks' \in [start : Nat, send : Nat, done : Nat]
      /\ marks'.send = Len(samples) /\ marks'.start = marks.start
  BY <1>1, <1>2 DEF Inside, AttemptTypeOK
<1>4. AttemptTypeOK'
  BY <1>1, <1>3 DEF Inside, AttemptTypeOK, pollVars
<1>5. Progress' /\ tx = "none"
  BY <1>1 DEF Inside, Progress, Unsent, AttemptTypeOK
<1>6. Stream'
  BY <1>1, StreamSame DEF Inside
<1>7. Owners'
  BY <1>1, <1>3, <1>5 DEF Inside, Owners, OwnerTold, pollVars
<1>8. Marks'
  BY <1>1, <1>2, <1>3 DEF Inside, Marks, pollVars
<1>9. PreWindows'
  <2>1. ASSUME ~skip
        PROVE  HasPre(marks.send)'
    <3>1. PICK i \in marks.start .. Len(samples) - Window : Shows(before, i)
      BY <1>1, <2>1 DEF Inside, PreWindows, HasPre
    <3>2. Shows(before, i)'
      BY <1>1, <3>1 DEF Shows, pollVars, Valid
    <3>. QED
      BY <1>3, <3>1, <3>2 DEF HasPre
  <2>. QED
    BY <1>1, <1>5, <2>1 DEF PreWindows
<1>10. PostWindows'
  BY <1>1 DEF Inside, PostWindows
<1>. QED
  BY <1>4, <1>5, <1>6, <1>7, <1>8, <1>9, <1>10 DEF Inside

\* The answer, or nothing to wait for: the post window begins here.
LEMMA DoneStep ==
  ASSUME Inside, SendReturns \/ NothingSent
  PROVE  Inside'
<1>1. /\ pc \in {"sending", "unsent"} /\ pc' \in {"skipped", "post"}
      /\ marks' = [marks EXCEPT !.done = Len(samples)]
      /\ UNCHANGED <<action, pollVars, tx, before, transition, after, skip, complete>>
  BY DEF SendReturns, NothingSent
<1>2. /\ Len(samples) \in Nat /\ marks.start \in Nat /\ marks.send \in Nat
      /\ Window \in Nat \ {0}
  BY SamplesType, RunnerAssumption DEF Inside
<1>3. /\ marks' \in [start : Nat, send : Nat, done : Nat]
      /\ marks'.send = marks.send /\ marks'.start = marks.start /\ marks'.done = Len(samples)
  BY <1>1, <1>2 DEF Inside, AttemptTypeOK
<1>4. /\ view' \in Executed \cup {"SKIPPED", "NONE"}
      /\ pc' = "post" => Told'
      /\ pc' = "skipped" => tx = "REFUSED"
  <2>1. CASE SendReturns
    <3>1. /\ pc = "sending" /\ tx # "running" /\ view' = ViewOf(tx)
          /\ pc' = IF view' = "SKIPPED" THEN "skipped" ELSE "post"
      BY <2>1 DEF SendReturns
    <3>2. action = "MIGRATE" /\ tx \in Executed \cup {"REFUSED"}
      BY <3>1 DEF Inside, Progress, AttemptTypeOK
    <3>. QED
      BY <1>1, <3>1, <3>2 DEF ViewOf, Told, Executed
  <2>2. CASE NothingSent
    <3>1. pc = "unsent" /\ pc' = "post" /\ view' = view
      BY <2>2 DEF NothingSent
    <3>. QED
      BY <1>1, <3>1 DEF Inside, Progress, Unsent, Told, AttemptTypeOK
  <2>. QED
    BY <2>1, <2>2
<1>5. AttemptTypeOK'
  BY <1>1, <1>3, <1>4 DEF Inside, AttemptTypeOK, pollVars
<1>6. Progress'
  BY <1>1, <1>4 DEF Progress, Unsent
<1>7. Stream' /\ Owners'
  BY <1>1, <1>3, StreamSame, OwnersSame DEF Inside
<1>8. Marks'
  BY <1>1, <1>2, <1>3 DEF Inside, Marks, pollVars
<1>9. PreWindows'
  <2>1. PICK i \in marks.start .. marks.send - Window : Shows(before, i)
    BY <1>1 DEF Inside, PreWindows, HasPre
  <2>2. Shows(before, i)'
    BY <1>1, <2>1 DEF Shows, pollVars, Valid
  <2>3. HasPre(marks.send)'
    BY <1>3, <2>1, <2>2 DEF HasPre
  <2>. QED
    BY <1>1, <2>3 DEF PreWindows
<1>10. PostWindows'
  BY <1>1 DEF Inside, PostWindows
<1>. QED
  BY <1>5, <1>6, <1>7, <1>8, <1>9, <1>10 DEF Inside

\* What all returns of collect_attempt have in common.
LEMMA Collected ==
  ASSUME Inside, pc # "collected", pc' = "collected",
         UNCHANGED <<action, pollVars, tx, marks, before, skip>>,
         view' \in Executed \cup {"SKIPPED", "NONE"}, complete' \in BOOLEAN,
         {transition', after'} \subseteq Seq(Sample),
         view' = "NONE" <=> action = "NO_OP",
         view' \in Executed => tx = view',
         view' \notin Executed => tx \in {"none", "REFUSED"},
         after' # <<>> => HasPre(marks.send),
         PostWindows'
  PROVE  Inside'
<1>1. AttemptTypeOK'
  BY DEF Inside, AttemptTypeOK, pollVars
<1>2. Stream' /\ Owners'
  BY StreamSame, OwnersSame DEF Inside
<1>3. Progress'
  BY DEF Inside, Progress, Unsent
<1>4. Marks'
  BY DEF Inside, Marks, pollVars
<1>5. HasPre(marks.send)' <=> HasPre(marks.send)
  BY DEF HasPre, Shows, Valid, pollVars
<1>6. PreWindows'
  BY <1>5 DEF Inside, PreWindows
<1>. QED
  BY <1>1, <1>2, <1>3, <1>4, <1>6 DEF Inside

LEMMA SkippedStep ==
  ASSUME Inside, Skipped
  PROVE  Inside'
<1>1. /\ pc = "skipped" /\ pc' = "collected"
      /\ view' = IF action = "MIGRATE" THEN "SKIPPED" ELSE "NONE"
      /\ transition' = From(marks.send)
      /\ UNCHANGED <<action, pollVars, tx, marks, before, after, skip, complete>>
  BY DEF Skipped
<1>2. after = <<>> /\ ~complete /\ tx \in {"none", "REFUSED"} /\ action \in {"MIGRATE", "NO_OP"}
  BY <1>1 DEF Inside, PostWindows, Progress, AttemptTypeOK
<1>3. transition' \in Seq(Sample)
  BY <1>1, SamplesType, Part DEF From, Inside, Marks
<1>4. after' \in Seq(Sample) /\ complete' \in BOOLEAN /\ Len(after') = 0
  BY <1>1, <1>2 DEF Inside, AttemptTypeOK
<1>5. PostWindows'
  BY <1>1, <1>2, <1>4 DEF PostWindows
<1>. QED
  BY <1>1, <1>2, <1>3, <1>4, <1>5, Collected DEF Executed

\* What a collected attempt says of its transaction, when there was a post window to wait for.
LEMMA ToldWhenCollected ==
  ASSUME Inside, pc \in {"post", "leftover"}
  PROVE  /\ view \in Executed \cup {"SKIPPED", "NONE"}
         /\ view = "NONE" <=> action = "NO_OP"
         /\ view \in Executed => tx = view
         /\ view \notin Executed => tx \in {"none", "REFUSED"}
         /\ HasPre(marks.send)
         /\ marks.send <= marks.done /\ marks.done <= Len(samples)
BY DEF Inside, Progress, Told, Executed, AttemptTypeOK, PreWindows, Marks

LEMMA PostWindowStep ==
  ASSUME Inside, PostWindow
  PROVE  Inside'
<1>1. /\ pc = "post" /\ pc' = "collected" /\ HasWindow(marks.done, PostSamples)
      /\ after' = Ending(samples, Window)
      /\ complete' = TRUE
      /\ transition' = SubSeq(samples, marks.send + 1, Len(samples) - Window)
      /\ UNCHANGED <<action, pollVars, tx, marks, before, skip, view>>
  BY DEF PostWindow
<1>2. /\ samples \in Seq(Sample) /\ Len(samples) \in Nat
      /\ marks.send \in Nat /\ marks.done \in Nat
      /\ marks.send <= marks.done /\ marks.done <= Len(samples) /\ Window \in Nat \ {0}
  BY <1>1, SamplesType, ToldWhenCollected, RunnerAssumption DEF Inside
<1>. PICK i : i = Len(samples) - Window
  OBVIOUS
<1>3. /\ i \in Nat /\ marks.done <= i
      /\ \A k \in 1 .. Window : samples[i + k] \in PostSamples
  BY <1>1, <1>2, WindowIsEnd
<1>4. i <= Len(samples) /\ Len(samples) - i = Window /\ marks.send <= i
  BY <1>2, <1>3
<1>5. /\ after' \in Seq(Sample) /\ Len(after') = Window
      /\ \A k \in 1 .. Window : after'[k] = samples[i + k]
  <2>1. after' = SubSeq(samples, i + 1, Len(samples))
    BY <1>1 DEF Ending
  <2>. QED
    BY <1>2, <1>3, <1>4, <2>1, Part
<1>6. transition' \in Seq(Sample)
  BY <1>1, <1>2, <1>3, <1>4, Part
<1>7. \A k \in 1 .. Window : Valid(after'[k]) /\ AcceptOwner(after[k])'
  <2>1. \A k \in 1 .. Window : Valid(samples[i + k]) /\ AcceptOwner(samples[i + k])
    BY <1>3 DEF PostSamples, ValidSamples
  <2>2. \A k \in 1 .. Window : Valid(after'[k]) /\ AcceptOwner(after'[k])
    BY <1>5, <2>1
  <2>3. view' = view
    BY <1>1
  <2>. QED
    BY <2>2, <2>3 DEF AcceptOwner
<1>8. PostWindows'
  <2>1. Shows(after, i)'
    BY <1>1, <1>5, <1>7 DEF Shows, pollVars, Valid
  <2>2. /\ after' = SubSeq(samples', i + 1, Len(samples'))
        /\ transition' = SubSeq(samples', marks'.send + 1, i)
        /\ i = Len(samples') - Window /\ marks'.send <= i
    BY <1>1, <1>4 DEF Ending, pollVars
  <2>3. \A k \in 1 .. Len(after') : Valid(after'[k]) /\ AcceptOwner(after[k])'
    BY <1>5, <1>7
  <2>. QED
    BY <1>1, <1>3, <2>1, <2>2, <2>3 DEF PostWindows, Valid
<1>. QED
  BY <1>1, <1>5, <1>6, <1>8, ToldWhenCollected, Collected

LEMMA PostFallbackStep ==
  ASSUME Inside, PostFallback
  PROVE  Inside'
<1>1. /\ pc = "leftover" /\ pc' = "collected"
      /\ after' = LastAccepted(From(marks.done), PostSamples)
      /\ transition' = From(marks.send)
      /\ UNCHANGED <<action, pollVars, tx, marks, before, skip, view, complete>>
  BY DEF PostFallback
<1>2. From(marks.send) \in Seq(Sample) /\ From(marks.done) \in Seq(Sample)
  BY <1>1, SamplesType, ToldWhenCollected, Part DEF From, Inside
<1>3. /\ after' \in Seq(Sample)
      /\ \A k \in 1 .. Len(after') : after'[k] \in PostSamples
  BY <1>1, <1>2, LeftOver
<1>4. ~complete' /\ complete' \in BOOLEAN
  BY <1>1 DEF Inside, PostWindows, AttemptTypeOK
<1>5. PostWindows'
  <2>1. \A k \in 1 .. Len(after') : Valid(after'[k]) /\ AcceptOwner(after[k])'
    BY <1>1, <1>3 DEF PostSamples, ValidSamples, AcceptOwner
  <2>. QED
    BY <1>1, <1>4, <2>1 DEF PostWindows, Valid
<1>. QED
  BY <1>1, <1>2, <1>3, <1>4, <1>5, ToldWhenCollected, Collected

LEMMA InsideStep ==
  ASSUME Inside, pc # "collected", Collect \/ Poller \/ TransactionEnds
  PROVE  Inside'
BY QuietStep, PhaseStep, PreWindowStep, PreFallbackStep, ActStep, DoneStep, SkippedStep,
   PostWindowStep, PostFallbackStep, FetchStep, AppendStep DEF Collect, Poller

-----------------------------------------------------------------------------
(***************************************************************************)
(* What an attempt says when it is recorded.                               *)
(***************************************************************************)

\* The members of a sequence are what it holds somewhere.
LEMMA Members ==
  ASSUME NEW S, NEW s \in Seq(S), NEW x \in ToSet(s)
  PROVE  \E k \in 1 .. Len(s) : x = s[k]
<1>1. DOMAIN s = 1 .. Len(s)
  OBVIOUS
<1>. QED
  BY <1>1 DEF ToSet

LEMMA MembersOf ==
  ASSUME NEW S, NEW s \in Seq(S), NEW k \in 1 .. Len(s)
  PROVE  s[k] \in ToSet(s)
<1>1. DOMAIN s = 1 .. Len(s)
  OBVIOUS
<1>. QED
  BY <1>1 DEF ToSet

\* A valid sample is the view of a twin state: it has a key and names an owner.
LEMMA ValidIsAView ==
  ASSUME Inside, NEW i \in 1 .. Len(samples), Valid(samples[i])
  PROVE  samples[i].key # 0 /\ samples[i].key \in Nat /\ samples[i].owner \in Side
<1>1. samples[i].key \in Nat
  BY SamplesType DEF Inside
<1>2. samples[i].key = 0 => samples[i] = NoView
  BY DEF Inside, Stream
<1>3. samples[i].key # 0
  BY <1>2 DEF Valid, NoView
<1>4. OwnerTold(samples[i])
  BY DEF Inside, Owners
<1>. QED
  BY <1>1, <1>3, <1>4 DEF OwnerTold

\* A run of valid samples shows twin states in order.
LEMMA RunIncreases ==
  ASSUME Inside, NEW window \in Seq(Sample), NEW i \in Nat, i + Window <= Len(samples),
         Shows(window, i)
  PROVE  Increasing(window)
<1>. USE RunnerAssumption
<1>1. Len(samples) \in Nat /\ Len(window) = Window
  BY SamplesType DEF Inside, Shows
<1>2. SUFFICES ASSUME NEW k \in 2 .. Len(window)
               PROVE  window[k - 1].key < window[k].key
  BY DEF Increasing
<1>3. k \in 1 .. Window /\ k - 1 \in 1 .. Window
  BY <1>1
<1>4. i + k \in 2 .. Len(samples) /\ i + k \in 1 .. Len(samples) /\ i + (k - 1) = i + k - 1
  BY <1>1, <1>3
<1>5. window[k] = samples[i + k] /\ window[k - 1] = samples[i + k - 1] /\ Valid(samples[i + k])
  BY <1>3, <1>4 DEF Shows
<1>6. samples[i + k].key # 0
  BY <1>4, <1>5, ValidIsAView
<1>7. \A j \in 2 .. Len(samples) : samples[j].key # 0 => samples[j - 1].key < samples[j].key
  BY DEF Inside, Stream
<1>. QED
  BY <1>4, <1>5, <1>6, <1>7

\* The window before the decision: twin states in order, all of the source.
LEMMA PreWindowShown ==
  ASSUME Inside, HasPre(marks.send)
  PROVE  \E i \in marks.start .. marks.send - Window :
           /\ Shows(before, i)
           /\ before = SubSeq(samples, i + 1, i + Window)
           /\ Increasing(before)
           /\ \A k \in 1 .. Window : Valid(before[k]) /\ before[k].owner = "source"
<1>. USE RunnerAssumption
<1>1. /\ samples \in Seq(Sample) /\ Len(samples) \in Nat
      /\ marks.send \in Nat /\ marks.start \in Nat /\ marks.send <= Len(samples)
      /\ before \in Seq(Sample)
  BY SamplesType DEF Inside, Marks, AttemptTypeOK
<1>2. PICK i \in marks.start .. marks.send - Window : Shows(before, i)
  BY DEF HasPre
<1>3. i \in Nat /\ i + Window \in Nat /\ i + Window <= marks.send /\ i + Window <= Len(samples)
  BY <1>1, <1>2
<1>4. Increasing(before)
  BY <1>1, <1>2, <1>3, RunIncreases
<1>5. before = SubSeq(samples, i + 1, i + Window)
  <2>1. /\ SubSeq(samples, i + 1, i + Window) \in Seq(Sample)
        /\ Len(SubSeq(samples, i + 1, i + Window))
             = IF i <= i + Window THEN i + Window - i ELSE 0
        /\ \A k \in 1 .. i + Window - i : SubSeq(samples, i + 1, i + Window)[k] = samples[i + k]
    BY <1>1, <1>3, Part
  <2>2. i <= i + Window /\ i + Window - i = Window
    BY <1>3
  <2>3. Len(before) = Window /\ \A k \in 1 .. Window : before[k] = samples[i + k]
    BY <1>2 DEF Shows
  <2>. QED
    BY <1>1, <2>1, <2>2, <2>3, SeqEqual
<1>6. ASSUME NEW k \in 1 .. Window
      PROVE  Valid(before[k]) /\ before[k].owner = "source"
  <2>1. i + k \in 1 .. marks.send /\ i + k \in 1 .. Len(samples)
    BY <1>1, <1>3
  <2>2. before[k] = samples[i + k] /\ Valid(before[k])
    BY <1>2 DEF Shows
  <2>3. samples[i + k].owner \in Side
    BY <2>1, <2>2, ValidIsAView
  <2>4. samples[i + k].owner # "target"
    BY <2>1 DEF Inside, Owners
  <2>. QED
    BY <2>2, <2>3, <2>4 DEF Side
<1>. QED
  BY <1>2, <1>4, <1>5, <1>6

\* Two windows in order, and the end of one before the beginning of the other.
LEMMA Joined ==
  ASSUME NEW a \in Seq(Sample), NEW b \in Seq(Sample), a # <<>>, b # <<>>,
         Increasing(a), Increasing(b), a[Len(a)].key < b[1].key
  PROVE  Increasing(a \o b)
<1>1. /\ Len(a) \in Nat \ {0} /\ Len(b) \in Nat \ {0}
      /\ Len(a \o b) = Len(a) + Len(b)
      /\ \A k \in 1 .. Len(a) + Len(b) :
           (a \o b)[k] = IF k <= Len(a) THEN a[k] ELSE b[k - Len(a)]
  BY ConcatProperties
<1>2. SUFFICES ASSUME NEW k \in 2 .. Len(a \o b)
               PROVE  (a \o b)[k - 1].key < (a \o b)[k].key
  BY DEF Increasing
<1>3. k \in 1 .. Len(a) + Len(b) /\ k - 1 \in 1 .. Len(a) + Len(b)
  BY <1>1
<1>4. CASE k <= Len(a)
  <2>1. k \in 2 .. Len(a) /\ k - 1 <= Len(a)
    BY <1>1, <1>4
  <2>2. (a \o b)[k] = a[k] /\ (a \o b)[k - 1] = a[k - 1]
    BY <1>1, <1>3, <1>4, <2>1
  <2>. QED
    BY <2>1, <2>2 DEF Increasing
<1>5. CASE k = Len(a) + 1
  <2>1. k - 1 = Len(a) /\ k - Len(a) = 1 /\ ~(k <= Len(a)) /\ k - 1 <= Len(a)
    BY <1>1, <1>5
  <2>2. (a \o b)[k] = b[1] /\ (a \o b)[k - 1] = a[Len(a)]
    BY <1>1, <1>3, <2>1
  <2>. QED
    BY <2>2
<1>6. CASE k > Len(a) + 1
  <2>1. /\ k - Len(a) \in 2 .. Len(b) /\ ~(k <= Len(a)) /\ ~(k - 1 <= Len(a))
        /\ k - 1 - Len(a) = k - Len(a) - 1
    BY <1>1, <1>3, <1>6
  <2>2. (a \o b)[k] = b[k - Len(a)] /\ (a \o b)[k - 1] = b[k - Len(a) - 1]
    BY <1>1, <1>3, <2>1
  <2>. QED
    BY <2>1, <2>2 DEF Increasing
<1>. QED
  BY <1>1, <1>3, <1>4, <1>5, <1>6

\* What the outcome and the validator accept together is sound, whatever was not asked
\* of the record of a NO_OP.
LEMMA EligibleIsSound ==
  ASSUME Inside, pc = "collected", Eligible, RecordValid
  PROVE  /\ Increasing(before \o after)
         /\ \A s \in ToSet(before \o after) : Valid(s)
         /\ \A s \in ToSet(before) : s.owner = "source"
         /\ \A s \in ToSet(after) : s.owner = IF action = "MIGRATE" THEN "target" ELSE "source"
<1>. USE RunnerAssumption
<1>1. /\ before \in Seq(Sample) /\ after \in Seq(Sample) /\ action \in {"MIGRATE", "NO_OP"}
      /\ Len(before) \in Nat /\ Len(after) \in Nat
  BY DEF Inside, AttemptTypeOK
<1>2. /\ Whole(before) /\ AllValid(before) /\ Whole(after) /\ AllValid(after)
      /\ action = "MIGRATE" => view = "COMMITTED"
  BY DEF Eligible, Reasons
<1>3. /\ before # <<>> /\ after # <<>>
      /\ \A s \in ToSet(before) : Valid(s)
      /\ \A s \in ToSet(after) : Valid(s)
  BY <1>2 DEF AllValid
<1>4. /\ Increasing(before) /\ Increasing(after)
      /\ before[Len(before)].key < after[1].key
  BY <1>3 DEF RecordValid
<1>5. Increasing(before \o after)
  BY <1>1, <1>3, <1>4, Joined
<1>6. ASSUME NEW s \in ToSet(before \o after)
      PROVE  Valid(s)
  <2>1. before \o after \in Seq(Sample) /\ Len(before \o after) = Len(before) + Len(after)
    BY <1>1, ConcatProperties
  <2>2. PICK k \in 1 .. Len(before) + Len(after) : s = (before \o after)[k]
    BY <2>1, Members
  <2>3. CASE k <= Len(before)
    <3>1. s = before[k] /\ k \in 1 .. Len(before)
      BY <1>1, <2>2, <2>3, ConcatProperties
    <3>. QED
      BY <1>1, <1>3, <3>1, MembersOf
  <2>4. CASE ~(k <= Len(before))
    <3>1. s = after[k - Len(before)] /\ k - Len(before) \in 1 .. Len(after)
      BY <1>1, <2>2, <2>4, ConcatProperties
    <3>. QED
      BY <1>1, <1>3, <3>1, MembersOf
  <2>. QED
    BY <2>3, <2>4
<1>7. HasPre(marks.send)
  BY <1>3 DEF Inside, PreWindows
<1>8. Len(before) = Window /\ \A k \in 1 .. Window : before[k].owner = "source"
  BY <1>7, PreWindowShown DEF Shows
<1>9. ASSUME NEW s \in ToSet(before)
      PROVE  s.owner = "source"
  BY <1>1, <1>8, Members
<1>10. ASSUME NEW s \in ToSet(after)
       PROVE  s.owner = IF action = "MIGRATE" THEN "target" ELSE "source"
  <2>1. PICK k \in 1 .. Len(after) : s = after[k]
    BY <1>1, Members
  <2>2. AcceptOwner(s)
    BY <2>1 DEF Inside, PostWindows
  <2>3. action = "NO_OP" => view = "NONE"
    BY DEF Inside, Progress
  <2>. QED
    BY <1>1, <1>2, <2>2, <2>3 DEF AcceptOwner
<1>. QED
  BY <1>5, <1>6, <1>9, <1>10

\* The windows of a committed migration that the runner took as complete pass the validator.
LEMMA CommittedIsAccepted ==
  ASSUME Inside, pc = "collected", view = "COMMITTED", complete
  PROVE  RecordValid
<1>. USE RunnerAssumption
<1>1. /\ before \in Seq(Sample) /\ after \in Seq(Sample) /\ action \in {"MIGRATE", "NO_OP"}
      /\ samples \in Seq(Sample) /\ Len(samples) \in Nat
      /\ marks.send \in Nat /\ marks.start \in Nat /\ marks.send <= Len(samples)
  BY SamplesType DEF Inside, AttemptTypeOK, Marks
<1>2. PICK j \in Nat : j = Len(samples) - Window /\ marks.send <= j /\ Shows(after, j)
  BY DEF Inside, PostWindows
<1>3. j + Window <= Len(samples)
  BY <1>1, <1>2
<1>4. Increasing(after)
  BY <1>1, <1>2, <1>3, RunIncreases
<1>5. Len(after) = Window /\ \A k \in 1 .. Window : after[k] = samples[j + k] /\ Valid(after[k])
  BY <1>2 DEF Shows
<1>6. \A k \in 1 .. Window : after[k].owner = "target" /\ AcceptOwner(after[k])
  BY <1>5 DEF Inside, PostWindows, AcceptOwner
<1>7. HasPre(marks.send)
  <2>1. after # <<>>
    BY <1>5
  <2>. QED
    BY <2>1 DEF Inside, PreWindows
<1>8. PICK i \in marks.start .. marks.send - Window :
        /\ Shows(before, i) /\ Increasing(before)
        /\ \A k \in 1 .. Window : Valid(before[k]) /\ before[k].owner = "source"
  BY <1>7, PreWindowShown
<1>9. Len(before) = Window /\ \A k \in 1 .. Window : before[k] = samples[i + k]
  BY <1>8 DEF Shows
<1>10. before[Len(before)].key < after[1].key
  <2>1. /\ before[Window] = samples[i + Window] /\ after[1] = samples[j + 1]
        /\ before[Window].owner = "source" /\ after[1].owner = "target" /\ Valid(after[1])
    BY <1>5, <1>6, <1>8, <1>9
  <2>2. /\ i + Window \in 1 .. Len(samples) /\ j + 1 \in 1 .. Len(samples)
        /\ i + Window < j + 1
    BY <1>1, <1>2, <1>3
  <2>3. samples[j + 1].key # 0
    BY <2>1, <2>2, ValidIsAView
  <2>4. /\ samples[i + Window].key <= samples[j + 1].key
        /\ samples[i + Window].key # samples[j + 1].key
    BY <2>1, <2>2, <2>3 DEF Inside, Stream
  <2>5. samples[i + Window].key \in Nat /\ samples[j + 1].key \in Nat
    BY <2>2, SamplesType DEF Inside
  <2>. QED
    BY <1>9, <2>1, <2>4, <2>5
<1>11. before # <<>> /\ \A s \in ToSet(before) : Valid(s) /\ s.owner = "source"
  <2>1. before # <<>>
    BY <1>9
  <2>2. ASSUME NEW s \in ToSet(before)
        PROVE  Valid(s) /\ s.owner = "source"
    <3>1. PICK k \in 1 .. Window : s = before[k]
      BY <1>1, <1>9, Members
    <3>. QED
      BY <1>8, <3>1
  <2>. QED
    BY <2>1, <2>2
<1>12. ASSUME NEW s \in ToSet(after)
       PROVE  AcceptOwner(s)
  <2>1. PICK k \in 1 .. Window : s = after[k]
    BY <1>1, <1>5, Members
  <2>. QED
    BY <1>6, <2>1
<1>13. TransactionFits
  BY <1>1 DEF TransactionFits, Inside, Progress
<1>. QED
  BY <1>4, <1>8, <1>9, <1>10, <1>11, <1>12, <1>13
     DEF RecordValid, PreWindowFits, AllValid, OwnersAgree

LEMMA DraftIsGood ==
  ASSUME Inside, pc = "collected"
  PROVE  GoodRecord(Record) /\ Record.parts = {}
<1>1. Record \in RecordType
  <2>1. /\ action \in {"MIGRATE", "NO_OP"} /\ view \in Executed \cup {"SKIPPED", "NONE"}
        /\ complete \in BOOLEAN /\ before \in Seq(Sample) /\ after \in Seq(Sample)
    BY DEF Inside, AttemptTypeOK
  <2>2. RecordValid \in BOOLEAN /\ (Eligible /\ RecordValid) \in BOOLEAN
    BY DEF RecordValid
  <2>. QED
    BY <2>1, <2>2 DEF Record, RecordType
<1>2. TellsTransaction(Record)
  BY DEF TellsTransaction, Record, Inside, Progress
<1>3. IsSound(Record)
  BY EligibleIsSound DEF IsSound, Record
<1>4. IsAccepted(Record)
  BY CommittedIsAccepted DEF IsAccepted, Record
<1>. QED
  BY <1>1, <1>2, <1>3, <1>4 DEF GoodRecord, Record

-----------------------------------------------------------------------------
(***************************************************************************)
(* The steps of run_attempt.                                               *)
(***************************************************************************)

\* A call of run_attempt begins with nothing collected.
LEMMA FreshTyped ==
  ASSUME AttemptTypeOK, FreshAttempt, UNCHANGED tx
  PROVE  AttemptTypeOK' /\ Fresh'
<1>1. NoView \in Sample /\ Idle \in Sample
  BY DEF NoView, Idle, Sample, Grade
<1>2. <<>> \in Seq(Sample) /\ Len(<<>>) = 0 /\ 0 <= MaxSamples
  BY RunnerAssumption, EmptySeq
<1>3. [start |-> 0, send |-> 0, done |-> 0] \in [start : Nat, send : Nat, done : Nat]
  OBVIOUS
<1>. QED
  BY <1>1, <1>2, <1>3 DEF FreshAttempt, AttemptTypeOK, Fresh

LEMMA FreshInside ==
  ASSUME AttemptTypeOK, Fresh, tx = "none"
  PROVE  Inside
<1>1. NoView.key = 0 /\ NoView.owner = "none" /\ Len(samples) = 0 /\ marks.send = 0
      /\ marks.start = 0
  BY DEF NoView, Fresh
<1>2. Stream
  BY <1>1 DEF Fresh, Stream
<1>3. Owners
  BY <1>1 DEF Fresh, Owners, OwnerTold
<1>4. Progress /\ Marks /\ PreWindows /\ PostWindows
  BY <1>1 DEF Fresh, Progress, Unsent, Marks, PreWindows, PostWindows
<1>. QED
  BY <1>2, <1>3, <1>4 DEF Inside

\* The writer changes what is there of a record, never what it says.
LEMMA PartsOnly ==
  ASSUME NEW record, GoodRecord(record), NEW parts \in SUBSET Parts
  PROVE  /\ GoodRecord([record EXCEPT !.parts = parts])
         /\ [record EXCEPT !.parts = parts].parts = parts
<1>. DEFINE written == [record EXCEPT !.parts = parts]
<1>1. /\ written \in RecordType /\ written.parts = parts
      /\ written.status = record.status /\ written.training = record.training
      /\ written.before = record.before /\ written.after = record.after
      /\ written.action = record.action /\ written.complete = record.complete
      /\ written.valid = record.valid
  BY DEF GoodRecord, RecordType
<1>2. GoodRecord(written)
  <2>. HIDE DEF written
  <2>. QED
    BY <1>1 DEF GoodRecord, TellsTransaction, IsSound, IsAccepted
<1>. QED
  BY <1>1, <1>2

\* What a record says of the transaction stays so while the transaction does.
LEMMA GoodLater ==
  ASSUME UNCHANGED tx
  PROVE  \A record : GoodRecord(record) => GoodRecord(record)'
BY DEF GoodRecord, TellsTransaction, IsSound, IsAccepted

\* The parts of a step of the writer.
LEMMA WriterSteps ==
  /\ DOMAIN PartsAt = {"writing", "validating", "summing", "renaming"}
  /\ PartsAt["writing"] = {} /\ PartsAt["validating"] = {"data"}
  /\ PartsAt["summing"] = {"data", "verdict"} /\ PartsAt["renaming"] = Parts
BY DEF PartsAt

LEMMA InsideSame ==
  ASSUME Inside, UNCHANGED attemptVars
  PROVE  Inside'
<1>1. UNCHANGED <<action, pc, twin, reply, samples, lastKey, tx, marks, before, transition,
                  after, skip, view, complete>>
  BY DEF attemptVars, pollVars, windowVars
<1>2. AttemptTypeOK'
  BY <1>1 DEF Inside, AttemptTypeOK
<1>3. Stream' /\ Owners'
  BY <1>1 DEF Inside, Stream, Owners, OwnerTold
<1>4. Progress' /\ Marks'
  BY <1>1 DEF Inside, Progress, Marks, Told
<1>5. PreWindows' /\ PostWindows'
  BY <1>1 DEF Inside, PreWindows, PostWindows, HasPre, Shows, Valid, AcceptOwner
<1>. QED
  BY <1>2, <1>3, <1>4, <1>5 DEF Inside

LEMMA StartStep ==
  ASSUME AttemptInvariant, Start \/ Healthy
  PROVE  AttemptInvariant'
<1>1. /\ step \in {"idle", "starting"} /\ step' \in {"starting", "collecting"}
      /\ step' = "collecting" => step = "starting" /\ tx' = tx
      /\ tx' \in {tx, "none"} /\ (step' = "starting" => tx' = "none" /\ final = NoRecord)
      /\ orchestrator' \in BOOLEAN /\ workload' \in BOOLEAN
      /\ UNCHANGED <<action, pc, pollVars, windowVars, fileVars>>
  BY DEF Start, Healthy, attemptVars, AttemptInvariant
<1>2. AttemptTypeOK' /\ Fresh'
  BY <1>1 DEF AttemptInvariant, AttemptTypeOK, Fresh, pollVars, windowVars
<1>3. step' = "collecting" => Inside'
  <2>. SUFFICES ASSUME step' = "collecting"
                PROVE  Inside'
    OBVIOUS
  <2>1. AttemptTypeOK /\ Fresh /\ tx = "none" /\ UNCHANGED attemptVars
    BY <1>1 DEF AttemptInvariant, attemptVars
  <2>. QED
    BY <2>1, FreshInside, InsideSame
<1>4. Files'
  <2>1. draft' = NoRecord /\ final' = NoRecord
    BY <1>1, WriterSteps DEF AttemptInvariant, Files, fileVars
  <2>. QED
    BY <1>1, <2>1, WriterSteps DEF Files
<1>. QED
  BY <1>1, <1>2, <1>3, <1>4 DEF AttemptInvariant, Inside, Steps

LEMMA CollectingStep ==
  ASSUME AttemptInvariant, Collecting \/ Beside
  PROVE  AttemptInvariant'
<1>1. /\ step = "collecting" /\ pc # "collected"
      /\ Collect \/ Poller \/ TransactionEnds
      /\ UNCHANGED <<step, processVars, fileVars>>
  BY DEF Collecting, Beside, Running
<1>2. Inside
  BY <1>1 DEF AttemptInvariant, Inside
<1>3. Inside'
  BY <1>1, <1>2, InsideStep
<1>4. Files'
  BY <1>1, WriterSteps DEF AttemptInvariant, Files, fileVars
<1>. QED
  BY <1>1, <1>3, <1>4 DEF AttemptInvariant, Inside, processVars

LEMMA DrainedStep ==
  ASSUME AttemptInvariant, Drained
  PROVE  AttemptInvariant'
<1>1. /\ step = "collecting" /\ pc = "collected" /\ workload' = FALSE /\ draft' = Record
      /\ step' = "writing" /\ FreshAttempt /\ UNCHANGED <<tx, orchestrator, final>>
  BY DEF Drained
<1>2. GoodRecord(Record) /\ Record.parts = {}
  BY <1>1, DraftIsGood DEF AttemptInvariant, Inside
<1>3. GoodRecord(draft)' /\ draft'.parts = {}
  BY <1>1, <1>2, GoodLater
<1>4. AttemptTypeOK' /\ Fresh'
  BY <1>1, FreshTyped DEF AttemptInvariant
<1>5. Files'
  BY <1>1, <1>3, WriterSteps DEF AttemptInvariant, Files
<1>. QED
  BY <1>1, <1>4, <1>5 DEF AttemptInvariant, Steps

LEMMA WriterStep ==
  ASSUME AttemptInvariant, WriteData \/ Validate \/ WriteChecksums \/ Rename \/ Locked
  PROVE  AttemptInvariant'
<1>1. /\ step \in Steps \ {"starting", "collecting"} /\ step' \in Steps \ {"starting", "collecting"}
      /\ UNCHANGED <<attemptVars, processVars>>
  BY DEF WriteData, Validate, WriteChecksums, Rename, Locked, Steps
<1>2. AttemptTypeOK' /\ Fresh'
  BY <1>1 DEF AttemptInvariant, AttemptTypeOK, Fresh, attemptVars, pollVars, windowVars
<1>3. \A record : GoodRecord(record) => GoodRecord(record)'
  BY <1>1, GoodLater DEF attemptVars
<1>4. Files'
  <2>1. CASE WriteData
    <3>1. step = "writing" /\ step' = "validating" /\ final' = final /\ final = NoRecord
          /\ draft' = [draft EXCEPT !.parts = {"data"}] /\ GoodRecord(draft)
      BY <2>1, WriterSteps DEF WriteData, AttemptInvariant, Files
    <3>2. GoodRecord(draft') /\ draft'.parts = {"data"}
      BY <3>1, PartsOnly DEF Parts
    <3>3. GoodRecord(draft)'
      BY <1>3, <3>2
    <3>. QED
      BY <3>1, <3>2, <3>3, WriterSteps DEF Files
  <2>2. CASE Validate
    <3>1. step = "validating" /\ step' = "summing" /\ final' = final /\ final = NoRecord
          /\ draft' = [draft EXCEPT !.parts = @ \cup {"verdict"}] /\ GoodRecord(draft)
          /\ draft.parts = {"data"}
      BY <2>2, WriterSteps DEF Validate, AttemptInvariant, Files
    <3>2. draft' = [draft EXCEPT !.parts = {"data", "verdict"}]
      BY <3>1
    <3>3. GoodRecord(draft') /\ draft'.parts = {"data", "verdict"}
      BY <3>1, <3>2, PartsOnly DEF Parts
    <3>4. GoodRecord(draft)'
      BY <1>3, <3>3
    <3>. QED
      BY <3>1, <3>3, <3>4, WriterSteps DEF Files
  <2>3. CASE WriteChecksums
    <3>1. step = "summing" /\ step' = "renaming" /\ final' = final /\ final = NoRecord
          /\ draft' = [draft EXCEPT !.parts = @ \cup {"sums"}] /\ GoodRecord(draft)
          /\ draft.parts = {"data", "verdict"}
      BY <2>3, WriterSteps DEF WriteChecksums, AttemptInvariant, Files
    <3>2. draft' = [draft EXCEPT !.parts = Parts]
      BY <3>1 DEF Parts
    <3>3. GoodRecord(draft') /\ draft'.parts = Parts
      BY <3>1, <3>2, PartsOnly
    <3>4. GoodRecord(draft)'
      BY <1>3, <3>3
    <3>. QED
      BY <3>1, <3>3, <3>4, WriterSteps DEF Files
  <2>4. CASE Rename
    <3>1. step = "renaming" /\ step' = "locking" /\ final' = draft /\ draft' = NoRecord
          /\ GoodRecord(draft) /\ draft.parts = Parts
      BY <2>4, WriterSteps DEF Rename, AttemptInvariant, Files
    <3>2. GoodRecord(final)' /\ final'.parts = Parts
      BY <1>3, <3>1
    <3>. QED
      BY <3>1, <3>2, WriterSteps DEF Files
  <2>5. CASE Locked
    <3>1. step = "locking" /\ step' = "stopping" /\ draft' = NoRecord /\ final' = final
          /\ (final # NoRecord => GoodRecord(final) /\ final.parts = Parts)
      BY <2>5, WriterSteps DEF Locked, AttemptInvariant, Files, fileVars
    <3>. QED
      BY <1>3, <3>1, WriterSteps DEF Files
  <2>. QED
    BY <2>1, <2>2, <2>3, <2>4, <2>5
<1>. QED
  BY <1>1, <1>2, <1>4 DEF AttemptInvariant, processVars

\* However a call ends, what it has put into the dataset stays, and its draft goes.
LEMMA EndStep ==
  ASSUME AttemptInvariant, RunFails \/ Interrupt \/ Stop \/ Crash \/ CleanUp
  PROVE  AttemptInvariant'
<1>1. /\ step' \in {"stopping", "idle"} /\ UNCHANGED <<tx, final>>
      /\ draft' = NoRecord
      /\ orchestrator' \in BOOLEAN /\ workload' \in BOOLEAN
      /\ FreshAttempt \/ (step = "idle" /\ UNCHANGED attemptVars)
      /\ final # NoRecord => GoodRecord(final) /\ final.parts = Parts
  BY WriterSteps DEF RunFails, Interrupt, Stop, Crash, CleanUp, Quarantine, attemptVars,
     processVars, fileVars, AttemptInvariant, Files
<1>2. AttemptTypeOK' /\ Fresh'
  <2>1. CASE FreshAttempt
    BY <1>1, <2>1, FreshTyped DEF AttemptInvariant
  <2>2. CASE step = "idle" /\ UNCHANGED attemptVars
    BY <2>2 DEF AttemptInvariant, AttemptTypeOK, Fresh, attemptVars, pollVars, windowVars
  <2>. QED
    BY <1>1, <2>1, <2>2
<1>3. Files'
  BY <1>1, GoodLater, WriterSteps DEF Files
<1>. QED
  BY <1>1, <1>2, <1>3 DEF AttemptInvariant, Steps

LEMMA AttemptStays ==
  ASSUME AttemptInvariant, UNCHANGED vars
  PROVE  AttemptInvariant'
<1>1. UNCHANGED <<attemptVars, tx, step, orchestrator, workload, draft, final>>
  BY DEF vars, attemptVars, processVars, fileVars
<1>2. AttemptTypeOK'
  BY <1>1 DEF AttemptInvariant, AttemptTypeOK, attemptVars, pollVars, windowVars
<1>3. Fresh => Fresh'
  BY <1>1 DEF Fresh, attemptVars, pollVars, windowVars
<1>4. Inside => Inside'
  BY <1>1, InsideSame
<1>5. Files'
  BY <1>1, GoodLater DEF AttemptInvariant, Files
<1>. QED
  BY <1>1, <1>2, <1>3, <1>4, <1>5 DEF AttemptInvariant, Inside

LEMMA AttemptBegins ==
  ASSUME Init
  PROVE  AttemptInvariant
<1>1. NoView \in Sample /\ Idle \in Sample
  BY DEF NoView, Idle, Sample, Grade
<1>2. <<>> \in Seq(Sample) /\ Len(<<>>) = 0 /\ 0 <= MaxSamples
  BY RunnerAssumption, EmptySeq
<1>3. [start |-> 0, send |-> 0, done |-> 0] \in [start : Nat, send : Nat, done : Nat]
  OBVIOUS
<1>4. AttemptTypeOK /\ Fresh
  BY <1>1, <1>2, <1>3 DEF Init, AttemptTypeOK, Fresh
<1>5. Files
  BY WriterSteps DEF Init, Files
<1>. QED
  BY <1>4, <1>5 DEF Init, AttemptInvariant, Steps

-----------------------------------------------------------------------------
\* The inductive invariant holds in every behaviour of run_attempt.
THEOREM AttemptInvariantHolds == Spec => []AttemptInvariant
<1>1. Init => AttemptInvariant
  BY AttemptBegins
<1>2. AttemptInvariant /\ [Next]_vars => AttemptInvariant'
  BY StartStep, CollectingStep, DrainedStep, WriterStep, EndStep, AttemptStays DEF Next, Runner
<1>. QED
  BY <1>1, <1>2, PTL DEF Spec

\* Types: where run_attempt is, and what a record of the dataset may hold.
THEOREM AttemptTypesHold == Spec => []TypeOK
<1>1. AttemptInvariant => TypeOK
  <2>. SUFFICES ASSUME AttemptInvariant
                PROVE  TypeOK
    OBVIOUS
  <2>1. AttemptTypeOK /\ step \in Steps /\ {orchestrator, workload} \subseteq BOOLEAN
    BY DEF AttemptInvariant
  <2>2. \A record \in {draft, final} \ {NoRecord} : record \in RecordType
    BY DEF AttemptInvariant, Files, GoodRecord
  <2>. QED
    BY <2>1, <2>2 DEF TypeOK, Steps, RecordType
<1>. QED
  BY <1>1, AttemptInvariantHolds, PTL

\* The orchestrator is asked only behind a full pre window of valid twin states in a row,
\* collected after the phase was seen, all with the source as owner.
THEOREM ActionNeedsWindow == Spec => []NoActionWithoutWindow
<1>1. AttemptInvariant => NoActionWithoutWindow
  <2>. SUFFICES ASSUME AttemptInvariant, Running, tx # "none"
                PROVE  /\ Len(before) = Window /\ Increasing(before)
                       /\ \A s \in ToSet(before) : Valid(s) /\ s.owner = "source"
                       /\ \E i \in marks.start .. marks.send - Window :
                            before = SubSeq(samples, i + 1, i + Window)
    BY DEF NoActionWithoutWindow
  <2>1. Inside /\ HasPre(marks.send) /\ before \in Seq(Sample)
    BY DEF AttemptInvariant, Inside, Running, PreWindows, AttemptTypeOK
  <2>2. PICK i \in marks.start .. marks.send - Window :
          /\ Shows(before, i)
          /\ before = SubSeq(samples, i + 1, i + Window)
          /\ Increasing(before)
          /\ \A k \in 1 .. Window : Valid(before[k]) /\ before[k].owner = "source"
    BY <2>1, PreWindowShown
  <2>3. Len(before) = Window
    BY <2>2 DEF Shows
  <2>4. ASSUME NEW s \in ToSet(before)
        PROVE  Valid(s) /\ s.owner = "source"
    <3>1. PICK k \in 1 .. Window : s = before[k]
      BY <2>1, <2>3, Members
    <3>. QED
      BY <2>2, <3>1
  <2>. QED
    BY <2>2, <2>3, <2>4
<1>. QED
  BY <1>1, AttemptInvariantHolds, PTL

\* The samples behind the decision are cut into the transition and the post window,
\* none in both and none lost, although the poller appends meanwhile.
THEOREM NoSampleLostOrDoubled == Spec => []WindowsPartitionSamples
<1>1. AttemptInvariant => WindowsPartitionSamples
  <2>. SUFFICES ASSUME AttemptInvariant, step = "collecting", complete
                PROVE  IsPrefix(transition \o after, From(marks.send))
    BY DEF WindowsPartitionSamples
  <2>1. Inside /\ pc = "collected"
    BY DEF AttemptInvariant, Inside, PostWindows
  <2>2. /\ samples \in Seq(Sample) /\ Len(samples) \in Nat /\ marks.send \in Nat
        /\ marks.send <= Len(samples)
    BY <2>1, SamplesType DEF Inside, Marks
  <2>3. PICK i \in Nat : /\ i = Len(samples) - Window /\ marks.send <= i
                         /\ after = SubSeq(samples, i + 1, Len(samples))
                         /\ transition = SubSeq(samples, marks.send + 1, i)
    BY <2>1 DEF Inside, PostWindows
  <2>4. i <= Len(samples)
    BY <2>2, <2>3, RunnerAssumption
  <2>5. transition \o after = From(marks.send)
    <3>1. PICK m : m = marks.send + 1
      OBVIOUS
    <3>2. /\ m \in 1 .. Len(samples) + 1
          /\ i \in m - 1 .. Len(samples)
          /\ Len(samples) \in i .. Len(samples)
      BY <2>2, <2>3, <2>4, <3>1
    <3>3. SubSeq(samples, m, i) \o SubSeq(samples, i + 1, Len(samples))
            = SubSeq(samples, m, Len(samples))
      BY <2>2, <3>2, ConcatAdjacentSubSeq
    <3>. QED
      BY <2>3, <3>1, <3>3 DEF From
  <2>6. From(marks.send) \in Seq(Sample)
    BY <2>2, Part DEF From
  <2>7. Len(From(marks.send)) \in Nat
    BY <2>6
  <2>. QED
    BY <2>5, <2>7 DEF IsPrefix
<1>. QED
  BY <1>1, AttemptInvariantHolds, PTL

\* An executed migration is never recorded as skipped, nor a lost answer as a result.
THEOREM RecordsTellTheTransaction == Spec => []RecordTellsTransaction
<1>1. AttemptInvariant => RecordTellsTransaction
  BY DEF AttemptInvariant, Files, GoodRecord, TellsTransaction, RecordTellsTransaction
<1>. QED
  BY <1>1, AttemptInvariantHolds, PTL

\* A record for training shows distinct twin states in order, of the source before the
\* decision and of the side that owns the switch after it.
THEOREM TrainingSamplesAreSound == Spec => []TrainingSampleIsSound
<1>1. AttemptInvariant => TrainingSampleIsSound
  BY DEF AttemptInvariant, Files, GoodRecord, IsSound, TrainingSampleIsSound
<1>. QED
  BY <1>1, AttemptInvariantHolds, PTL

\* The validator accepts every committed migration whose windows the runner took as complete.
THEOREM CommittedRecordsAreValid == Spec => []CommittedRecordIsValid
<1>1. AttemptInvariant => CommittedRecordIsValid
  BY DEF AttemptInvariant, Files, GoodRecord, IsAccepted, CommittedRecordIsValid
<1>. QED
  BY <1>1, AttemptInvariantHolds, PTL

\* Whatever fails between two steps of the writer, the dataset shows whole records only.
THEOREM RecordsAreSealed == Spec => []RecordIsSealed
<1>1. AttemptInvariant => RecordIsSealed
  BY DEF AttemptInvariant, Files, RecordIsSealed
<1>. QED
  BY <1>1, AttemptInvariantHolds, PTL
=============================================================================
