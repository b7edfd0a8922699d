-------------------------- MODULE ForecasterProofs --------------------------
(***************************************************************************)
(* Theorems about Forecaster: its history is the one of the training data, *)
(* its gate the mask over the rows it counts, and its forecasts rest on    *)
(* the samples they name, for any controllers, bounds and lengths.         *)
(***************************************************************************)
EXTENDS Forecaster, SequenceTheorems, TLAPS

\* What the gate saw: a row that it counts is out of range.
Rows == {r \in [segment : Nat, out : BOOLEAN, counted : BOOLEAN] : r.counted => r.out}

Seen(segment, out, counted) == [segment |-> segment, out |-> out, counted |-> counted]

ForecasterTypes ==
  /\ buffer \in [Controller -> Seq(Sample)]
  /\ accepted \in [Controller -> Seq(Sample)]
  /\ evaluated \in [Controller -> Seq(Rows)]
  /\ consecutive \in [Controller -> Nat]
  /\ snapshots \in 0 .. MaxSnapshots
  /\ forecast.snapshot \in 0 .. snapshots

-----------------------------------------------------------------------------
(* Segments                                                                *)

Starts(samples, i) == {j \in 2 .. i : ~Follows(samples[j - 1], samples[j])} \cup {1}

\* The first sample of the last segment.
Segment(a) == SegmentOf(a, Len(a))

\* Where the samples start that a buffer of this capacity keeps.
Low(a) == IF Len(a) - Capacity + 1 > Segment(a) THEN Len(a) - Capacity + 1 ELSE Segment(a)

SegmentIsLast(a) ==
  /\ Segment(a) \in 1 .. Len(a)
  /\ \A k \in Starts(a, Len(a)) : k <= Segment(a)
  /\ Segment(a) \in Starts(a, Len(a))

LEMMA SegmentDef ==
  ASSUME NEW a
  PROVE  Segment(a) = CHOOSE j \in Starts(a, Len(a)) : \A k \in Starts(a, Len(a)) : k <= j
  BY DEF Segment, SegmentOf, Starts

LEMMA Appended ==
  ASSUME NEW S, NEW a \in Seq(S), NEW e \in S
  PROVE  /\ Append(a, e) \in Seq(S) /\ Len(a) \in Nat /\ Len(Append(a, e)) = Len(a) + 1
         /\ \A i \in 1 .. Len(a) : Append(a, e)[i] = a[i] /\ a[i] \in S
         /\ Append(a, e)[Len(a) + 1] = e
  OBVIOUS

\* A sample that does not follow the last one starts a segment.
LEMMA NewSegment ==
  ASSUME NEW a \in Seq(Sample), NEW e \in Sample, a = <<>> \/ ~Follows(a[Len(a)], e)
  PROVE  LET b == Append(a, e) IN Segment(b) = Len(a) + 1 /\ SegmentIsLast(b)
<1>. DEFINE b == Append(a, e)
            starts == Starts(b, Len(b))
<1>1. Len(b) = Len(a) + 1 /\ Len(a) \in Nat /\ b[Len(a) + 1] = e
      /\ \A i \in 1 .. Len(a) : b[i] = a[i]
  BY Appended
<1>2. Len(a) + 1 \in starts
  <2>1. CASE a = <<>>
    BY <1>1, <2>1 DEF Starts
  <2>2. CASE a # <<>>
    <3>1. Len(a) \in 1 .. Len(a) /\ Len(a) + 1 \in 2 .. Len(b)
      BY <1>1, <2>2
    <3>2. ~Follows(b[Len(a) + 1 - 1], b[Len(a) + 1])
      BY <1>1, <2>2, <3>1
    <3>. QED
      BY <3>1, <3>2 DEF Starts
  <2>. QED
    BY <2>1, <2>2
<1>3. \A k \in starts : k \in Nat /\ k <= Len(a) + 1
  BY <1>1 DEF Starts
<1>4. Segment(b) = CHOOSE j \in starts : \A k \in starts : k <= j
  BY SegmentDef
<1>. HIDE DEF b, starts
<1>5. Segment(b) \in starts /\ \A k \in starts : k <= Segment(b)
  BY <1>1, <1>2, <1>3, <1>4
<1>6. Segment(b) = Len(a) + 1
  BY <1>1, <1>2, <1>3, <1>5
<1>. QED
  BY <1>1, <1>5, <1>6 DEF SegmentIsLast, starts, b

\* A sample that follows stays in its segment.
LEMMA SameSegment ==
  ASSUME NEW a \in Seq(Sample), NEW e \in Sample, a # <<>>, Follows(a[Len(a)], e),
         SegmentIsLast(a)
  PROVE  LET b == Append(a, e) IN Segment(b) = Segment(a) /\ SegmentIsLast(b)
<1>. DEFINE b == Append(a, e)
<1>1. Len(b) = Len(a) + 1 /\ Len(a) \in Nat \ {0} /\ b[Len(a) + 1] = e
      /\ \A i \in 1 .. Len(a) : b[i] = a[i]
  BY Appended
<1>. HIDE DEF b
<1>2. Follows(b[Len(a)], b[Len(a) + 1])
  BY <1>1
<1>3. ASSUME NEW j \in 2 .. Len(b)
      PROVE  ~Follows(b[j - 1], b[j]) <=> j \in 2 .. Len(a) /\ ~Follows(a[j - 1], a[j])
  <2>1. CASE j = Len(a) + 1
    BY <1>1, <1>2, <2>1
  <2>2. CASE j # Len(a) + 1
    <3>1. j \in 2 .. Len(a) /\ j \in 1 .. Len(a) /\ j - 1 \in 1 .. Len(a)
      BY <1>1, <2>2
    <3>. QED
      BY <1>1, <3>1
  <2>. QED
    BY <2>1, <2>2
<1>4. Starts(b, Len(b)) = Starts(a, Len(a))
  <2>1. 2 .. Len(a) \subseteq 2 .. Len(b)
    BY <1>1
  <2>. QED
    BY <1>3, <2>1 DEF Starts
<1>5. Segment(b) = Segment(a)
  BY <1>4, SegmentDef
<1>. QED
  BY <1>1, <1>4, <1>5 DEF SegmentIsLast, b

-----------------------------------------------------------------------------
(* The buffer                                                              *)

\* The buffer holds the end of the last segment, as much as fits.
Keeps(b, a) ==
  IF a = <<>> THEN b = <<>>
  ELSE /\ SegmentIsLast(a)
       /\ Len(b) = Len(a) - Low(a) + 1
       /\ \A i \in 1 .. Len(b) : b[i] = a[Low(a) - 1 + i]

LEMMA LowIn ==
  ASSUME NEW a \in Seq(Sample), a # <<>>, SegmentIsLast(a)
  PROVE  /\ Len(a) \in Nat \ {0} /\ Segment(a) \in 1 .. Len(a) /\ Capacity \in Nat \ {0}
         /\ Low(a) \in 1 .. Len(a) /\ Low(a) >= Segment(a)
  BY HistoryAssumption DEF SegmentIsLast, Low, Capacity

\* The last entry of the buffer is the last accepted sample.
LEMMA LatestIsLast ==
  ASSUME NEW a \in Seq(Sample), NEW b \in Seq(Sample), Keeps(b, a)
  PROVE  /\ a = <<>> <=> b = <<>>
         /\ a # <<>> => LatestOf(b) = a[Len(a)] /\ Len(b) \in 1 .. Capacity
<1>1. CASE a = <<>>
  BY <1>1 DEF Keeps
<1>2. CASE a # <<>>
  <2>1. /\ Len(b) = Len(a) - Low(a) + 1 /\ Low(a) \in 1 .. Len(a) /\ Len(a) \in Nat
        /\ \A i \in 1 .. Len(b) : b[i] = a[Low(a) - 1 + i] /\ Capacity \in Nat
    BY <1>2, LowIn DEF Keeps
  <2>2. Len(b) \in 1 .. Capacity
    BY <2>1 DEF Low
  <2>3. Low(a) - 1 + Len(b) = Len(a)
    BY <2>1
  <2>4. b[Len(b)] = a[Len(a)]
    BY <2>1, <2>2, <2>3
  <2>. QED
    BY <1>2, <2>2, <2>4 DEF LatestOf
<1>. QED
  BY <1>1, <1>2

LEMMA StatusOf ==
  ASSUME NEW a \in Seq(Sample), NEW b \in Seq(Sample), Keeps(b, a), NEW e \in Sample,
         NEW valid \in BOOLEAN, ~IsRejected(AppendStatus(b, e, valid))
  PROVE  \/ /\ AppendStatus(b, e, valid) = "APPENDED"
            /\ a # <<>> => Follows(a[Len(a)], e)
         \/ /\ IsReset(AppendStatus(b, e, valid))
            /\ a # <<>> /\ ~Follows(a[Len(a)], e)
<1>1. CASE a = <<>>
  BY <1>1, LatestIsLast DEF AppendStatus, IsRejected
<1>2. CASE a # <<>>
  <2>1. b # <<>> /\ LatestOf(b) = a[Len(a)] /\ a[Len(a)] \in Sample
    BY <1>2, LatestIsLast
  <2>2. e.time \in Nat /\ LatestOf(b).time \in Nat /\ MaxGap \in Nat
    BY <2>1, HistoryAssumption, ForecasterAssumption DEF Sample
  <2>. DEFINE delta == e.time - LatestOf(b).time
  <2>3. delta \in Int /\ delta # 0 /\ valid
    BY <2>1, <2>2 DEF AppendStatus, IsRejected
  <2>4. CASE delta < 0 \/ delta > MaxGap
    <3>1. ~Follows(a[Len(a)], e)
      BY <2>1, <2>2, <2>4 DEF Follows
    <3>2. IsReset(AppendStatus(b, e, valid))
      BY <2>1, <2>3, <2>4 DEF AppendStatus, IsReset, IsRejected
    <3>. QED
      BY <1>2, <3>1, <3>2
  <2>5. CASE ~(delta < 0 \/ delta > MaxGap)
    <3>1. Follows(a[Len(a)], e)
      BY <2>1, <2>2, <2>3, <2>5 DEF Follows
    <3>2. AppendStatus(b, e, valid) = "APPENDED"
      BY <2>1, <2>3, <2>5 DEF AppendStatus, IsRejected
    <3>. QED
      BY <3>1, <3>2
  <2>. QED
    BY <2>4, <2>5
<1>. QED
  BY <1>1, <1>2

LEMMA PushKeeps ==
  ASSUME NEW a \in Seq(Sample), NEW b \in Seq(Sample), Keeps(b, a), NEW e \in Sample,
         a # <<>> => Follows(a[Len(a)], e)
  PROVE  Keeps(Push(b, e), Append(a, e)) /\ Push(b, e) \in Seq(Sample)
<1>. DEFINE new == Append(a, e)
<1>0. /\ new \in Seq(Sample) /\ Len(new) = Len(a) + 1 /\ Len(a) \in Nat
      /\ \A i \in 1 .. Len(a) : new[i] = a[i]
      /\ new[Len(a) + 1] = e /\ new # <<>>
  BY Appended
<1>1. CASE a = <<>>
  <2>1. b = <<>> /\ Push(b, e) = <<e>> /\ Capacity \in Nat \ {0}
    BY <1>1, HistoryAssumption DEF Keeps, Push, Capacity
  <2>0. Len(a) = 0 /\ Len(new) = 1
    BY <1>0, <1>1
  <2>2. Segment(new) = 1 /\ SegmentIsLast(new)
    <3>1. Segment(new) = Len(a) + 1 /\ SegmentIsLast(new)
      BY <1>1, NewSegment
    <3>. QED
      BY <2>0, <3>1
  <2>. HIDE DEF new
  <2>3. Low(new) = 1
    BY <2>0, <2>1, <2>2 DEF Low
  <2>4. Len(<<e>>) = 1 /\ <<e>>[1] = e /\ <<e>> \in Seq(Sample) /\ new[1] = e
    BY <1>0, <2>0
  <2>5. Keeps(<<e>>, new)
    BY <1>0, <2>0, <2>2, <2>3, <2>4 DEF Keeps
  <2>. QED
    BY <2>1, <2>4, <2>5 DEF new
<1>2. CASE a # <<>>
  <2>1. Segment(new) = Segment(a) /\ SegmentIsLast(new) /\ SegmentIsLast(a)
    BY <1>2, SameSegment DEF Keeps
  <2>2. /\ Len(a) \in Nat \ {0} /\ Segment(a) \in 1 .. Len(a) /\ Capacity \in Nat \ {0}
        /\ Low(a) \in 1 .. Len(a) /\ Len(b) = Len(a) - Low(a) + 1
        /\ \A i \in 1 .. Len(b) : b[i] = a[Low(a) - 1 + i]
    BY <1>2, <2>1, LowIn DEF Keeps
  <2>. HIDE DEF new
  <2>3. CASE Len(b) = Capacity
    <3>1. Low(a) = Len(a) - Capacity + 1 /\ Low(a) >= Segment(a)
      BY <2>2, <2>3 DEF Low
    <3>2. Low(new) = Low(a) + 1
      BY <1>0, <2>1, <2>2, <3>1 DEF Low
    <3>. DEFINE q == Append(Tail(b), e)
    <3>3. /\ q \in Seq(Sample) /\ Len(q) = Len(b)
          /\ \A i \in 1 .. Len(b) - 1 : q[i] = b[i + 1]
          /\ q[Len(b)] = e
      <4>1. /\ Tail(b) \in Seq(Sample) /\ Len(Tail(b)) = Len(b) - 1 /\ Len(b) \in Nat \ {0}
            /\ \A i \in 1 .. Len(b) - 1 : Tail(b)[i] = b[i + 1]
        BY <2>2, <2>3
      <4>. QED
        BY <4>1, Appended
    <3>. HIDE DEF q
    <3>4. Len(q) = Len(new) - Low(new) + 1
      BY <1>0, <2>2, <3>2, <3>3
    <3>5. ASSUME NEW i \in 1 .. Len(q) PROVE q[i] = new[Low(new) - 1 + i]
      <4>1. CASE i = Len(b)
        <5>1. Low(new) - 1 + i = Len(a) + 1
          BY <2>2, <3>2, <4>1
        <5>. QED
          BY <1>0, <3>3, <4>1, <5>1
      <4>2. CASE i # Len(b)
        <5>1. i \in 1 .. Len(b) - 1 /\ i + 1 \in 1 .. Len(b)
          BY <2>2, <3>3, <4>2
        <5>2. q[i] = a[Low(a) - 1 + (i + 1)]
          BY <2>2, <3>3, <5>1
        <5>3. Low(a) - 1 + (i + 1) \in 1 .. Len(a) /\ Low(new) - 1 + i = Low(a) - 1 + (i + 1)
          <6>1. /\ Len(a) \in Nat /\ Low(a) \in 1 .. Len(a) /\ Len(b) = Len(a) - Low(a) + 1
                /\ Low(new) = Low(a) + 1
            BY ONLY <2>2, <3>2
          <6>2. Low(a) - 1 + (i + 1) \in 1 .. Len(a)
            BY ONLY <5>1, <6>1
          <6>3. Low(new) - 1 + i = Low(a) - 1 + (i + 1)
            BY ONLY <5>1, <6>1
          <6>. QED
            BY ONLY <6>2, <6>3
        <5>4. new[Low(new) - 1 + i] = a[Low(a) - 1 + (i + 1)]
          BY ONLY <1>0, <5>3
        <5>. QED
          BY ONLY <5>2, <5>4
      <4>. QED
        BY <4>1, <4>2
    <3>. QED
      BY <1>0, <2>1, <2>3, <3>3, <3>4, <3>5 DEF Keeps, Push, q, new
  <2>4. CASE Len(b) # Capacity
    <3>1. Low(a) = Segment(a) /\ Len(a) + 1 - Capacity + 1 <= Segment(a)
      BY <2>2, <2>4 DEF Low
    <3>2. Low(new) = Low(a)
      BY <1>0, <2>1, <2>2, <3>1 DEF Low
    <3>. DEFINE q == Append(b, e)
    <3>3. /\ q \in Seq(Sample) /\ Len(q) = Len(b) + 1 /\ q[Len(b) + 1] = e
          /\ \A i \in 1 .. Len(b) : q[i] = b[i]
      BY Appended
    <3>. HIDE DEF q
    <3>4. Len(q) = Len(new) - Low(new) + 1
      BY <1>0, <2>2, <3>2, <3>3
    <3>5. ASSUME NEW i \in 1 .. Len(q) PROVE q[i] = new[Low(new) - 1 + i]
      <4>1. CASE i = Len(b) + 1
        BY <1>0, <2>2, <3>2, <3>3, <4>1
      <4>2. CASE i # Len(b) + 1
        <5>1. i \in 1 .. Len(b)
          BY <2>2, <3>3, <4>2
        <5>2. Low(a) - 1 + i \in 1 .. Len(a)
          BY <2>2, <5>1
        <5>. QED
          BY <1>0, <2>2, <3>2, <3>3, <5>1, <5>2
      <4>. QED
        BY <4>1, <4>2
    <3>. QED
      BY <1>0, <2>1, <2>4, <3>3, <3>4, <3>5 DEF Keeps, Push, q, new
  <2>. QED
    BY <2>3, <2>4
<1>. QED
  BY <1>1, <1>2

LEMMA ResetKeeps ==
  ASSUME NEW a \in Seq(Sample), NEW e \in Sample, a # <<>>, ~Follows(a[Len(a)], e)
  PROVE  Keeps(<<e>>, Append(a, e)) /\ <<e>> \in Seq(Sample)
<1>. DEFINE new == Append(a, e)
<1>0. Len(new) = Len(a) + 1 /\ Len(a) \in Nat /\ new[Len(a) + 1] = e /\ new # <<>>
  BY Appended
<1>1. Segment(new) = Len(a) + 1 /\ SegmentIsLast(new)
  BY NewSegment
<1>. HIDE DEF new
<1>2. Low(new) = Len(a) + 1
  BY <1>0, <1>1, HistoryAssumption DEF Low, Capacity
<1>3. Len(<<e>>) = 1 /\ <<e>>[1] = e
  OBVIOUS
<1>4. Keeps(<<e>>, new)
  BY <1>0, <1>1, <1>2, <1>3 DEF Keeps
<1>. QED
  BY <1>4 DEF new

-----------------------------------------------------------------------------
(* The gate                                                                *)

\* The counter is the number of rows at the end that the gate counts and of the last
\* segment, not one less and not one more.
GateKeeps(rows, count, a) ==
  IF a = <<>> THEN rows = <<>> /\ count = 0
  ELSE /\ count <= Len(rows)
       /\ \A i \in 1 .. Len(rows) : rows[i].segment <= Segment(a)
       /\ \A i \in Len(rows) - count + 1 .. Len(rows) :
            rows[i].counted /\ rows[i].segment = Segment(a)
       /\ count < Len(rows) =>
            ~(rows[Len(rows) - count].counted /\ rows[Len(rows) - count].segment = Segment(a))

\* The next sample may start a segment, and then the counter starts again.
LEMMA SegmentKeepsGate ==
  ASSUME NEW a \in Seq(Sample), NEW e \in Sample, a # <<>> => SegmentIsLast(a),
         NEW rows \in Seq(Rows), NEW count \in Nat, GateKeeps(rows, count, a), NEW status,
         \/ status = "APPENDED" /\ (a # <<>> => Follows(a[Len(a)], e))
         \/ IsReset(status) /\ a # <<>> /\ ~Follows(a[Len(a)], e)
  PROVE  GateKeeps(rows, IF IsReset(status) THEN 0 ELSE count, Append(a, e))
<1>. DEFINE new == Append(a, e)
<1>0. new # <<>> /\ Len(a) \in Nat /\ Len(rows) \in Nat
  <2>1. Len(new) = Len(a) + 1 /\ Len(a) \in Nat /\ Len(rows) \in Nat
    BY Appended
  <2>2. Len(new) # 0
    BY <2>1
  <2>. HIDE DEF new
  <2>3. new # <<>>
    BY <2>2
  <2>. QED
    BY <2>1, <2>3
<1>1. CASE a = <<>>
  <2>1. rows = <<>> /\ count = 0 /\ Len(rows) = 0
    BY <1>1 DEF GateKeeps
  <2>. QED
    BY <1>0, <2>1 DEF GateKeeps
<1>2. CASE a # <<>> /\ ~IsReset(status)
  <2>1. Segment(new) = Segment(a)
    BY <1>2, SameSegment
  <2>. HIDE DEF new
  <2>2. GateKeeps(rows, count, new)
    BY <1>0, <1>2, <2>1 DEF GateKeeps
  <2>. QED
    BY <1>2, <2>2 DEF new
<1>3. CASE IsReset(status)
  <2>0. a # <<>> /\ ~Follows(a[Len(a)], e)
    BY <1>3 DEF IsReset
  <2>1. Segment(new) = Len(a) + 1 /\ Segment(a) \in 1 .. Len(a)
    BY <2>0, NewSegment DEF SegmentIsLast
  <2>2. \A i \in 1 .. Len(rows) : rows[i].segment < Segment(new) /\ rows[i].segment \in Nat
    <3>1. ASSUME NEW i \in 1 .. Len(rows) PROVE rows[i].segment \in Nat
      <4>1. rows[i] \in Rows
        OBVIOUS
      <4>. QED
        BY <4>1 DEF Rows
    <3>. QED
      BY <1>0, <2>0, <2>1, <3>1 DEF GateKeeps
  <2>. HIDE DEF new
  <2>3. GateKeeps(rows, 0, new)
    BY <1>0, <2>1, <2>2 DEF GateKeeps
  <2>. QED
    BY <1>3, <2>3 DEF new
<1>. QED
  BY <1>1, <1>2, <1>3

LEMMA SeenIsRow ==
  ASSUME NEW segment \in Nat, NEW out \in BOOLEAN, NEW counted \in BOOLEAN, counted => out
  PROVE  LET row == Seen(segment, out, counted)
         IN row \in Rows /\ row.segment = segment /\ row.counted = counted
  BY DEF Rows, Seen

\* The gate sees a row of the last segment.
LEMMA RowKeepsGate ==
  ASSUME NEW a, a # <<>>, Segment(a) \in Nat, NEW rows \in Seq(Rows), NEW count \in Nat,
         GateKeeps(rows, count, a), NEW out \in BOOLEAN,
         NEW counted \in BOOLEAN, counted => out
  PROVE  GateKeeps(Append(rows, Seen(Segment(a), out, counted)),
                   IF counted THEN count + 1 ELSE 0, a)
<1>. DEFINE row == Seen(Segment(a), out, counted)
            seen == Append(rows, row)
<1>1. row \in Rows /\ row.segment = Segment(a) /\ row.counted = counted
  BY SeenIsRow
<1>. HIDE DEF row
<1>2. /\ Len(rows) \in Nat /\ Len(seen) = Len(rows) + 1 /\ seen[Len(rows) + 1] = row
      /\ \A i \in 1 .. Len(rows) : seen[i] = rows[i]
  BY <1>1, Appended
<1>. HIDE DEF seen
<1>3. \A i \in 1 .. Len(seen) : seen[i].segment <= Segment(a)
  BY <1>1, <1>2 DEF GateKeeps
<1>4. CASE counted
  <2>1. ASSUME NEW i \in Len(seen) - (count + 1) + 1 .. Len(seen)
        PROVE  seen[i].counted /\ seen[i].segment = Segment(a)
    <3>1. CASE i = Len(seen)
      BY <1>1, <1>2, <1>4, <3>1
    <3>2. CASE i # Len(seen)
      <4>1. i \in Len(rows) - count + 1 .. Len(rows) /\ i \in 1 .. Len(rows)
        BY <1>2, <3>2 DEF GateKeeps
      <4>. QED
        BY <1>2, <4>1 DEF GateKeeps
    <3>. QED
      BY <3>1, <3>2
  <2>2. ASSUME count + 1 < Len(seen)
        PROVE  ~(seen[Len(seen) - (count + 1)].counted
                 /\ seen[Len(seen) - (count + 1)].segment = Segment(a))
    <3>1. /\ count < Len(rows) /\ Len(seen) - (count + 1) = Len(rows) - count
          /\ Len(rows) - count \in 1 .. Len(rows)
      BY <1>2, <2>2
    <3>. QED
      BY <1>2, <3>1 DEF GateKeeps
  <2>3. count + 1 <= Len(seen)
    BY <1>2 DEF GateKeeps
  <2>. QED
    BY <1>3, <1>4, <2>1, <2>2, <2>3 DEF GateKeeps, seen, row
<1>5. CASE ~counted
  <2>1. ~seen[Len(seen) - 0].counted /\ 0 <= Len(seen)
    BY <1>1, <1>2, <1>5
  <2>2. Len(seen) - 0 + 1 .. Len(seen) = {}
    BY <1>2
  <2>3. GateKeeps(seen, 0, a)
    BY <1>3, <2>1, <2>2 DEF GateKeeps
  <2>. QED
    BY <1>5, <2>3 DEF seen, row
<1>. QED
  BY <1>4, <1>5

\* The counter tells what the mask over the rows tells, when the last row is new.
LEMMA CounterIsMask ==
  ASSUME NEW a, a # <<>>, NEW rows \in Seq(Rows), rows # <<>>, NEW count \in Nat,
         GateKeeps(rows, count, a), rows[Len(rows)].segment = Segment(a)
  PROVE  count >= ConsecutiveSteps <=> GateMask(rows, "counted")
<1>1. Len(rows) \in Nat \ {0} /\ ConsecutiveSteps \in Nat \ {0} /\ count <= Len(rows)
  BY ForecasterAssumption DEF GateKeeps
<1>2. ASSUME count >= ConsecutiveSteps PROVE GateMask(rows, "counted")
  <2>1. \A i \in Len(rows) - ConsecutiveSteps + 1 .. Len(rows) :
          i \in Len(rows) - count + 1 .. Len(rows)
    BY <1>1, <1>2
  <2>. QED
    BY <1>1, <1>2, <2>1 DEF GateKeeps, GateMask
<1>3. ASSUME count < ConsecutiveSteps, GateMask(rows, "counted") PROVE FALSE
  <2>1. /\ count < Len(rows)
        /\ Len(rows) - count \in Len(rows) - ConsecutiveSteps + 1 .. Len(rows)
    BY <1>1, <1>3 DEF GateMask
  <2>2. /\ rows[Len(rows) - count].counted
        /\ rows[Len(rows) - count].segment = rows[Len(rows)].segment
    BY <1>3, <2>1 DEF GateMask
  <2>. QED
    BY <2>1, <2>2 DEF GateKeeps
<1>. QED
  BY <1>1, <1>2, <1>3

\* Rows that the gate counts are out of range: its mask is within the offline one.
LEMMA MaskNests ==
  ASSUME NEW rows \in Seq(Rows), GateMask(rows, "counted")
  PROVE  GateMask(rows, "out")
<1>1. Len(rows) \in Nat /\ ConsecutiveSteps \in Nat \ {0} /\ Len(rows) >= ConsecutiveSteps
  BY ForecasterAssumption DEF GateMask
<1>2. ASSUME NEW i \in Len(rows) - ConsecutiveSteps + 1 .. Len(rows)
      PROVE  rows[i]["out"] /\ rows[i].segment = rows[Len(rows)].segment
  <2>1. i \in 1 .. Len(rows) /\ rows[i].counted /\ rows[i].segment = rows[Len(rows)].segment
    BY <1>1 DEF GateMask
  <2>2. rows[i] \in Rows
    BY <2>1
  <2>. QED
    BY <2>1, <2>2 DEF Rows
<1>. QED
  BY <1>1, <1>2 DEF GateMask

-----------------------------------------------------------------------------
(* A call of the service                                                   *)

ForecasterInvariant ==
  /\ ForecasterTypes
  /\ \A c \in Controller : /\ Keeps(buffer[c], accepted[c])
                           /\ GateKeeps(evaluated[c], consecutive[c], accepted[c])
  /\ GateFollowsMask /\ ForecastUsesItsSnapshot

LEMMA ForecasterBegins == ASSUME ForecasterInit PROVE ForecasterInvariant
<1>. USE DEF ForecasterInit, NoForecast
<1>1. ForecasterTypes
  BY ForecasterAssumption DEF ForecasterTypes
<1>2. \A c \in Controller : /\ Keeps(buffer[c], accepted[c])
                            /\ GateKeeps(evaluated[c], consecutive[c], accepted[c])
  BY DEF Keeps, GateKeeps
<1>3. GateFollowsMask /\ ForecastUsesItsSnapshot
  BY DEF GateFollowsMask, ForecastUsesItsSnapshot, IsCurrent
<1>. QED
  BY <1>1, <1>2, <1>3 DEF ForecasterInvariant

Entry(c, time, bad) == [time |-> time, id |-> snapshots + 1, good |-> c \notin bad]
Status(c, time, valid, bad) == AppendStatus(buffer[c], Entry(c, time, bad), valid)

\* What a turn does to its controller.
LEMMA TurnOf ==
  ASSUME ForecasterTypes, NEW done \in SUBSET Controller, NEW time \in 0 .. MaxTime,
         NEW valid \in BOOLEAN, NEW bad, NEW out, NEW counted,
         Turns(done, time, valid, bad, out, counted),
         NEW c \in Controller
  PROVE  LET e == Entry(c, time, bad)
             st == Status(c, time, valid, bad)
             row == Evaluates(buffer'[c], st)
         IN IF c \in done
            THEN /\ buffer'[c] = Stored(buffer[c], e, st)
                 /\ consecutive'[c] = CountAfter(consecutive[c], st, row, c \in counted)
                 /\ accepted'[c] = IF ~IsRejected(st) THEN Append(accepted[c], e) ELSE accepted[c]
                 /\ evaluated'[c] =
                      IF row THEN Append(evaluated[c], Seen(Segment(Append(accepted[c], e)),
                                                 c \in out, c \in counted))
                             ELSE evaluated[c]
            ELSE /\ buffer'[c] = buffer[c] /\ consecutive'[c] = consecutive[c]
                 /\ accepted'[c] = accepted[c] /\ evaluated'[c] = evaluated[c]
  BY DEF Turns, Entry, Status, Segment, Seen

LEMMA TurnAccepts ==
  ASSUME NEW time, NEW valid, NEW bad, NEW out, NEW counted,
         Turns(Controller, time, valid, bad, out, counted),
         NEW c \in Controller
  PROVE  accepted'[c] = IF ~IsRejected(Status(c, time, valid, bad))
                        THEN Append(accepted[c], Entry(c, time, bad)) ELSE accepted[c]
  BY DEF Turns, Entry, Status

LEMMA CountedIsOut ==
  ASSUME NEW done, NEW time, NEW valid, NEW bad, NEW out, NEW counted,
         Turns(done, time, valid, bad, out, counted), NEW c
  PROVE  c \in counted => c \in out
  BY DEF Turns

LEMMA TurnsAreFunctions ==
  ASSUME NEW done, NEW time, NEW valid, NEW bad, NEW out, NEW counted,
         Turns(done, time, valid, bad, out, counted)
  PROVE  /\ buffer' = [c \in Controller |-> buffer'[c]]
         /\ accepted' = [c \in Controller |-> accepted'[c]]
         /\ evaluated' = [c \in Controller |-> evaluated'[c]]
         /\ consecutive' = [c \in Controller |-> consecutive'[c]]
  BY DEF Turns

LEMMA EntryType ==
  ASSUME ForecasterTypes, snapshots < MaxSnapshots, NEW time \in 0 .. MaxTime, NEW bad, NEW c
  PROVE  Entry(c, time, bad) \in Sample
  BY ForecasterAssumption DEF ForecasterTypes, Entry, Sample

\* A turn keeps the books of its controller.
LEMMA TurnKeeps ==
  ASSUME ForecasterInvariant, snapshots < MaxSnapshots,
         NEW done \in SUBSET Controller, NEW time \in 0 .. MaxTime,
         NEW valid \in BOOLEAN, NEW bad, NEW out, NEW counted,
         Turns(done, time, valid, bad, out, counted),
         NEW c \in Controller
  PROVE  /\ buffer'[c] \in Seq(Sample) /\ accepted'[c] \in Seq(Sample)
         /\ evaluated'[c] \in Seq(Rows) /\ consecutive'[c] \in Nat
         /\ Keeps(buffer'[c], accepted'[c])
         /\ GateKeeps(evaluated'[c], consecutive'[c], accepted'[c])
<1>. DEFINE a == accepted[c]
            b == buffer[c]
            e == Entry(c, time, bad)
            st == Status(c, time, valid, bad)
            row == Evaluates(buffer'[c], st)
            new == Append(a, e)
            count == IF IsReset(st) THEN 0 ELSE consecutive[c]
<1>0. /\ a \in Seq(Sample) /\ b \in Seq(Sample) /\ evaluated[c] \in Seq(Rows)
      /\ consecutive[c] \in Nat /\ e \in Sample /\ Keeps(b, a)
      /\ GateKeeps(evaluated[c], consecutive[c], a)
  BY EntryType DEF ForecasterInvariant, ForecasterTypes
<1>n. c \in counted => c \in out
  BY CountedIsOut
<1>t. IF c \in done
      THEN /\ buffer'[c] = Stored(b, e, st)
           /\ consecutive'[c] = CountAfter(consecutive[c], st, row, c \in counted)
           /\ accepted'[c] = IF ~IsRejected(st) THEN new ELSE a
           /\ evaluated'[c] = IF row THEN Append(evaluated[c],
                                            Seen(Segment(new), c \in out, c \in counted))
                                     ELSE evaluated[c]
      ELSE /\ buffer'[c] = b /\ consecutive'[c] = consecutive[c]
           /\ accepted'[c] = a /\ evaluated'[c] = evaluated[c]
  <2>1. ForecasterTypes
    BY DEF ForecasterInvariant
  <2>. QED
    BY <2>1, TurnOf
<1>1. CASE c \notin done
  BY <1>0, <1>1, <1>t
<1>2. CASE c \in done /\ IsRejected(st)
  <2>1. ~row /\ ~IsReset(st)
    BY <1>2 DEF Evaluates, IsRejected, IsReset
  <2>2. Stored(b, e, st) = b
    BY <1>2 DEF Stored, IsRejected
  <2>3. CountAfter(consecutive[c], st, row, c \in counted) = consecutive[c]
    BY <2>1 DEF CountAfter
  <2>. QED
    BY <1>0, <1>2, <1>t, <2>1, <2>2, <2>3
<1>3. CASE c \in done /\ ~IsRejected(st)
  <2>1. /\ buffer'[c] = Stored(b, e, st) /\ accepted'[c] = new
        /\ consecutive'[c] = CountAfter(consecutive[c], st, row, c \in counted)
        /\ evaluated'[c] = IF row THEN Append(evaluated[c],
                                              Seen(Segment(new), c \in out, c \in counted))
                                  ELSE evaluated[c]
    BY <1>3, <1>t
  <2>2. \/ st = "APPENDED" /\ (a # <<>> => Follows(a[Len(a)], e))
        \/ IsReset(st) /\ a # <<>> /\ ~Follows(a[Len(a)], e)
    BY <1>0, <1>3, StatusOf DEF Status
  <2>3. Keeps(buffer'[c], new) /\ buffer'[c] \in Seq(Sample)
    <3>1. CASE st = "APPENDED"
      <4>1. Stored(b, e, st) = Push(b, e)
        BY <3>1 DEF Stored
      <4>2. a # <<>> => Follows(a[Len(a)], e)
        BY <2>2, <3>1 DEF IsReset
      <4>. QED
        BY <1>0, <2>1, <4>1, <4>2, PushKeeps
    <3>2. CASE IsReset(st)
      <4>1. Stored(b, e, st) = <<e>>
        BY <3>2 DEF Stored, IsReset
      <4>2. a # <<>> /\ ~Follows(a[Len(a)], e)
        BY <2>2, <3>2 DEF IsReset
      <4>. QED
        BY <1>0, <2>1, <4>1, <4>2, ResetKeeps
    <3>. QED
      BY <2>2, <3>1, <3>2
  <2>4. new \in Seq(Sample) /\ new # <<>> /\ SegmentIsLast(new)
    <3>1. new \in Seq(Sample) /\ Len(new) = Len(a) + 1 /\ Len(a) \in Nat
      BY <1>0, Appended
    <3>2. Len(new) # 0
      BY <3>1
    <3>. HIDE DEF new
    <3>3. new # <<>>
      BY <3>2
    <3>. QED
      BY <2>3, <3>1, <3>3 DEF Keeps
  <2>5. GateKeeps(evaluated[c], count, new) /\ count \in Nat
    <3>1. a # <<>> => SegmentIsLast(a)
      BY <1>0 DEF Keeps
    <3>2. GateKeeps(evaluated[c], IF IsReset(st) THEN 0 ELSE consecutive[c], Append(a, e))
      BY <1>0, <2>2, <3>1, SegmentKeepsGate
    <3>. QED
      BY <1>0, <3>2
  <2>6. Segment(new) \in Nat
    BY <2>4 DEF SegmentIsLast
  <2>. HIDE DEF new, count
  <2>7. CASE ~row
    <3>1. consecutive'[c] = count
      BY <2>1, <2>7 DEF CountAfter, count
    <3>. QED
      BY <1>0, <2>1, <2>3, <2>4, <2>5, <2>7, <3>1
  <2>8. CASE row
    <3>1. consecutive'[c] = IF c \in counted THEN count + 1 ELSE 0
      BY <2>1, <2>8 DEF CountAfter, count
    <3>2. Seen(Segment(new), c \in out, c \in counted) \in Rows
      <4>1. (c \in out) \in BOOLEAN /\ (c \in counted) \in BOOLEAN
        OBVIOUS
      <4>. QED
        BY <1>n, <2>6, <4>1, SeenIsRow
    <3>3. GateKeeps(evaluated'[c], consecutive'[c], new)
      <4>1. (c \in out) \in BOOLEAN /\ (c \in counted) \in BOOLEAN
        OBVIOUS
      <4>. QED
        BY <1>0, <1>n, <2>1, <2>4, <2>5, <2>6, <2>8, <3>1, <4>1, RowKeepsGate
    <3>4. evaluated'[c] \in Seq(Rows)
      BY <1>0, <2>1, <2>8, <3>2, Appended
    <3>. QED
      BY <2>1, <2>3, <2>4, <2>5, <3>1, <3>3, <3>4
  <2>. QED
    BY <2>7, <2>8
<1>. QED
  BY <1>1, <1>2, <1>3

LEMMA TurnsKeepTypes ==
  ASSUME ForecasterInvariant, snapshots < MaxSnapshots, snapshots' = snapshots + 1,
         NEW done \in SUBSET Controller, NEW time \in 0 .. MaxTime,
         NEW valid \in BOOLEAN, NEW bad, NEW out, NEW counted,
         Turns(done, time, valid, bad, out, counted),
         forecast'.snapshot \in 0 .. snapshots'
  PROVE  /\ ForecasterTypes'
         /\ \A c \in Controller : /\ Keeps(buffer[c], accepted[c])'
                                  /\ GateKeeps(evaluated[c], consecutive[c], accepted[c])'
<1>1. /\ buffer' \in [Controller -> Seq(Sample)] /\ accepted' \in [Controller -> Seq(Sample)]
      /\ evaluated' \in [Controller -> Seq(Rows)] /\ consecutive' \in [Controller -> Nat]
  BY TurnKeeps, TurnsAreFunctions
<1>2. snapshots' \in 0 .. MaxSnapshots
  BY ForecasterAssumption DEF ForecasterInvariant, ForecasterTypes
<1>3. ForecasterTypes'
  BY <1>1, <1>2 DEF ForecasterTypes
<1>4. ASSUME NEW c \in Controller
      PROVE  /\ Keeps(buffer'[c], accepted'[c])
             /\ GateKeeps(evaluated'[c], consecutive'[c], accepted'[c])
  BY TurnKeeps
<1>5. \A c \in Controller :
        /\ Keeps(buffer[c], accepted[c])' <=> Keeps(buffer'[c], accepted'[c])
        /\ GateKeeps(evaluated[c], consecutive[c], accepted[c])'
             <=> GateKeeps(evaluated'[c], consecutive'[c], accepted'[c])
  BY DEF Keeps, GateKeeps
<1>. QED
  BY <1>3, <1>4, <1>5

\* Sample i of the last HistorySteps of n is in place k of the history and j of the buffer.
LEMMA HistoryIsEnd ==
  ASSUME NEW S, NEW b \in Seq(S), NEW n \in Nat \ {0}, Len(b) >= n
  PROVE  LET h == SubSeq(b, Len(b) - n + 1, Len(b))
         IN /\ h \in Seq(S) /\ Len(h) = n
            /\ \A m \in 1 .. n : h[m] = b[Len(b) - n + m]
<1>. DEFINE from == Len(b) - n + 1
            h == SubSeq(b, from, Len(b))
<1>1. /\ Len(b) \in Int /\ from \in Int /\ from >= 1 /\ from <= Len(b)
      /\ Len(b) - from + 1 = n
  OBVIOUS
<1>2. \A m \in from .. Len(b) : b[m] \in S
  <2>1. from .. Len(b) \subseteq 1 .. Len(b)
    BY <1>1
  <2>. QED
    BY <2>1
<1>3. \A m \in 1 .. n : from + m - 1 = Len(b) - n + m
  OBVIOUS
<1>. HIDE DEF from
<1>4. /\ h \in Seq(S) /\ Len(h) = Len(b) - from + 1
      /\ \A m \in 1 .. Len(b) - from + 1 : h[m] = b[from + m - 1]
  BY <1>1, <1>2, SubSeqProperties
<1>. QED
  BY <1>1, <1>3, <1>4 DEF from

\* A forecast with numbers rests on the rows and samples that have just been appended.
LEMMA ForecastKeeps ==
  ASSUME ForecasterInvariant, NEW time \in 0 .. MaxTime, NEW valid \in BOOLEAN,
         NEW bad, NEW out, NEW counted,
         Update(time, valid, bad, out, counted), NEW c \in Controller,
         forecast'.of[c] \in {"MODEL", "PERSISTENCE"}
  PROVE  /\ forecast'.of[c] = "PERSISTENCE" <=> GateMask(evaluated'[c], "counted")
         /\ forecast'.of[c] = "PERSISTENCE" => GateMask(evaluated'[c], "out")
         /\ accepted'[c][Len(accepted'[c])].id = snapshots + 1
         /\ Len(accepted'[c]) - Segment(accepted'[c]) + 1 >= HistorySteps
         /\ \A i \in Len(accepted'[c]) - HistorySteps + 1 .. Len(accepted'[c]) :
              accepted'[c][i].good
<1>. DEFINE a == accepted[c]
            e == Entry(c, time, bad)
            st == Status(c, time, valid, bad)
            new == accepted'[c]
            b == buffer'[c]
<1>0. snapshots < MaxSnapshots /\ ForecasterTypes
      /\ Turns(Controller, time, valid, bad, out, counted)
      /\ Controller \in SUBSET Controller
  BY DEF Update, ForecasterInvariant
<1>n. c \in counted => c \in out
  BY <1>0, CountedIsOut
<1>1. AppendStatus(buffer[c], [time |-> time, id |-> snapshots + 1], valid) = st
  BY DEF AppendStatus, Status, Entry
<1>2. forecast'.of[c] = PredictionOf(b, st, consecutive'[c], gapSeen'[c])
  BY <1>1 DEF Update
<1>3. /\ ~IsRejected(st) /\ HasRow(b)
      /\ forecast'.of[c] = IF consecutive'[c] >= ConsecutiveSteps THEN "PERSISTENCE" ELSE "MODEL"
  BY <1>2 DEF PredictionOf, IsRejected, HasRow
<1>4. /\ new = Append(a, e)
      /\ evaluated'[c] = Append(evaluated[c], Seen(Segment(new), c \in out, c \in counted))
  <2>1. Evaluates(b, st)
    BY <1>3 DEF Evaluates
  <2>2. /\ new = IF ~IsRejected(st) THEN Append(a, e) ELSE a
        /\ evaluated'[c] = IF Evaluates(b, st)
                           THEN Append(evaluated[c],
                                       Seen(Segment(Append(a, e)), c \in out, c \in counted))
                           ELSE evaluated[c]
    BY <1>0, TurnOf
  <2>. QED
    BY <1>3, <2>1, <2>2
<1>5. /\ b \in Seq(Sample) /\ new \in Seq(Sample) /\ evaluated'[c] \in Seq(Rows)
      /\ consecutive'[c] \in Nat /\ Keeps(b, new)
      /\ GateKeeps(evaluated'[c], consecutive'[c], new)
  BY <1>0, TurnKeeps
<1>6. a \in Seq(Sample) /\ e \in Sample /\ evaluated[c] \in Seq(Rows) /\ e.id = snapshots + 1
  BY <1>0, EntryType DEF ForecasterTypes, Entry
<1>7. Len(new) = Len(a) + 1 /\ Len(a) \in Nat /\ new[Len(new)] = e
  BY <1>4, <1>6, Appended
<1>8. new # <<>>
  BY <1>5, <1>7
<1>. HIDE DEF new, b, e, a, st
<1>9. /\ forecast'.of[c] = "PERSISTENCE" <=> GateMask(evaluated'[c], "counted")
      /\ forecast'.of[c] = "PERSISTENCE" => GateMask(evaluated'[c], "out")
  <2>. DEFINE row == Seen(Segment(new), c \in out, c \in counted)
              rows == evaluated'[c]
  <2>1. row.segment = Segment(new) /\ row \in Rows
    <3>1. Segment(new) \in Nat
      BY <1>5, <1>8 DEF Keeps, SegmentIsLast
    <3>2. (c \in out) \in BOOLEAN /\ (c \in counted) \in BOOLEAN
      OBVIOUS
    <3>. QED
      BY <1>n, <3>1, <3>2, SeenIsRow
  <2>2. rows = Append(evaluated[c], row)
    BY <1>4
  <2>. HIDE DEF row
  <2>3. Len(rows) = Len(evaluated[c]) + 1 /\ Len(evaluated[c]) \in Nat /\ rows[Len(rows)] = row
    BY <1>6, <2>1, <2>2, Appended
  <2>4. rows # <<>>
    BY <1>5, <2>3
  <2>5. consecutive'[c] >= ConsecutiveSteps <=> GateMask(rows, "counted")
    BY <1>5, <1>8, <2>1, <2>3, <2>4, CounterIsMask
  <2>6. GateMask(rows, "counted") => GateMask(rows, "out")
    BY <1>5, MaskNests
  <2>. QED
    BY <1>3, <2>5, <2>6
<1>10. /\ Len(b) >= HistorySteps /\ Len(b) \in Nat /\ HistorySteps \in Nat \ {0}
       /\ Len(b) = Len(new) - Low(new) + 1 /\ Low(new) \in 1 .. Len(new)
       /\ Low(new) >= Segment(new) /\ Segment(new) \in Nat
       /\ \A i \in 1 .. Len(b) : b[i] = new[Low(new) - 1 + i]
  BY <1>3, <1>5, <1>8, LowIn, HistoryAssumption DEF Keeps, HasRow, HasHistory
<1>11. Len(new) - Segment(new) + 1 >= HistorySteps
  BY <1>7, <1>10
<1>12. ASSUME NEW i \in Len(new) - HistorySteps + 1 .. Len(new) PROVE new[i].good
  <2>. DEFINE h == History(b)
              k == i - (Len(new) - HistorySteps)
              j == Len(b) - HistorySteps + k
  <2>1. k \in 1 .. HistorySteps /\ j \in 1 .. Len(b) /\ Low(new) - 1 + j = i
    <3>1. /\ Len(new) \in Nat /\ Low(new) \in Nat /\ Len(b) \in Nat
          /\ HistorySteps \in Nat \ {0}
          /\ Len(b) = Len(new) - Low(new) + 1 /\ Len(b) >= HistorySteps
          /\ i \in Len(new) - HistorySteps + 1 .. Len(new)
      BY <1>7, <1>10
    <3>2. LET p == i - (Len(new) - HistorySteps)
              q == Len(b) - HistorySteps + p
          IN p \in 1 .. HistorySteps /\ q \in 1 .. Len(b) /\ Low(new) - 1 + q = i
      <4>. HIDE DEF new
      <4>1. i - (Len(new) - HistorySteps) \in 1 .. HistorySteps
        BY ONLY <3>1
      <4>2. Len(b) - HistorySteps + (i - (Len(new) - HistorySteps)) = i - Low(new) + 1
        BY ONLY <3>1
      <4>3. i - Low(new) + 1 \in 1 .. Len(b)
        BY ONLY <3>1
      <4>4. Low(new) - 1 + (i - Low(new) + 1) = i
        BY ONLY <3>1
      <4>. QED
        BY ONLY <4>1, <4>2, <4>3, <4>4
    <3>. QED
      BY ONLY <3>2
  <2>3. /\ h \in Seq(Sample) /\ Len(h) = HistorySteps
        /\ \A m \in 1 .. HistorySteps : h[m] = b[Len(b) - HistorySteps + m]
    <3>. HIDE DEF new
    <3>1. b \in Seq(Sample) /\ HistorySteps \in Nat \ {0} /\ Len(b) >= HistorySteps
      BY <1>5, <1>10
    <3>. QED
      BY ONLY <3>1, HistoryIsEnd DEF History
  <2>4. h[k].good
    BY <1>3, <2>1, <2>3 DEF HasRow
  <2>. QED
    BY <1>10, <2>1, <2>3, <2>4
<1>. QED
  BY <1>6, <1>7, <1>9, <1>11, <1>12 DEF new

LEMMA Payload ==
  ASSUME NEW c
  PROVE  LastSegment(c) = Segment(accepted[c])
         /\ SegmentLength(c) = Len(accepted[c]) - Segment(accepted[c]) + 1
  BY DEF LastSegment, SegmentLength, Segment

LEMMA UpdateStep ==
  ASSUME ForecasterInvariant, NEW time \in 0 .. MaxTime, NEW valid \in BOOLEAN,
         NEW bad, NEW out, NEW counted,
         Update(time, valid, bad, out, counted)
  PROVE  ForecasterInvariant'
<1>1. snapshots \in Nat /\ snapshots < MaxSnapshots /\ snapshots' = snapshots + 1
      /\ Turns(Controller, time, valid, bad, out, counted) /\ Controller \in SUBSET Controller
      /\ forecast'.snapshot = snapshots + 1
  BY DEF Update, ForecasterInvariant, ForecasterTypes
<1>2. forecast'.snapshot \in 0 .. snapshots'
  BY <1>1
<1>3. /\ ForecasterTypes'
      /\ \A c \in Controller : /\ Keeps(buffer[c], accepted[c])'
                               /\ GateKeeps(evaluated[c], consecutive[c], accepted[c])'
  BY <1>1, <1>2, TurnsKeepTypes
<1>4. GateFollowsMask'
  <2>1. \A c \in Controller :
          forecast'.of[c] \in {"MODEL", "PERSISTENCE"} =>
            /\ forecast'.of[c] = "PERSISTENCE" <=> GateMask(evaluated'[c], "counted")
            /\ forecast'.of[c] = "PERSISTENCE" => GateMask(evaluated'[c], "out")
    BY ForecastKeeps
  <2>2. \A c \in Controller, flag \in {"counted", "out"} :
          GateMask(evaluated[c], flag)' <=> GateMask(evaluated'[c], flag)
    BY DEF GateMask
  <2>. QED
    BY <2>1, <2>2 DEF GateFollowsMask
<1>5. ForecastUsesItsSnapshot'
  <2>1. \A c \in Controller :
          forecast'.of[c] \in {"MODEL", "PERSISTENCE"} =>
            /\ accepted'[c][Len(accepted'[c])].id = forecast'.snapshot
            /\ Len(accepted'[c]) - Segment(accepted'[c]) + 1 >= HistorySteps
            /\ \A i \in Len(accepted'[c]) - HistorySteps + 1 .. Len(accepted'[c]) :
                 accepted'[c][i].good
    BY <1>1, ForecastKeeps
  <2>2. \A c \in Controller :
          SegmentLength(c)' = Len(accepted'[c]) - Segment(accepted'[c]) + 1
    BY DEF SegmentLength, LastSegment, Segment
  <2>. QED
    BY <2>1, <2>2 DEF ForecastUsesItsSnapshot
<1>. QED
  BY <1>3, <1>4, <1>5 DEF ForecasterInvariant

\* A call that fails leaves a payload that is not the answer to it.
LEMMA UpdateFailsStep ==
  ASSUME ForecasterInvariant, NEW done \in SUBSET Controller, NEW time \in 0 .. MaxTime,
         NEW bad, NEW out, NEW counted, UpdateFails(done, time, bad, out, counted)
  PROVE  ForecasterInvariant'
<1>1. /\ snapshots < MaxSnapshots /\ snapshots' = snapshots + 1 /\ forecast' = forecast
      /\ Turns(done, time, TRUE, bad, out, counted)
  BY DEF UpdateFails
<1>b. snapshots \in Nat /\ forecast.snapshot \in 0 .. snapshots
  BY DEF ForecasterInvariant, ForecasterTypes
<1>2. forecast'.snapshot \in 0 .. snapshots'
  BY <1>1, <1>b
<1>3. /\ ForecasterTypes'
      /\ \A c \in Controller : /\ Keeps(buffer[c], accepted[c])'
                               /\ GateKeeps(evaluated[c], consecutive[c], accepted[c])'
  BY <1>1, <1>2, TurnsKeepTypes
<1>4. ~IsCurrent'
  <2>1. forecast'.snapshot # snapshots'
    BY <1>1, <1>b
  <2>. QED
    BY <2>1 DEF IsCurrent
<1>5. GateFollowsMask' /\ ForecastUsesItsSnapshot'
  BY <1>4 DEF GateFollowsMask, ForecastUsesItsSnapshot
<1>. QED
  BY <1>3, <1>5 DEF ForecasterInvariant

LEMMA ForecasterStutters ==
  ASSUME ForecasterInvariant, UNCHANGED forecasterVars PROVE ForecasterInvariant'
<1>. USE DEF forecasterVars, forecasterState, history
<1>1. ForecasterTypes'
  BY DEF ForecasterInvariant, ForecasterTypes
<1>2. \A c \in Controller : /\ Keeps(buffer[c], accepted[c])'
                            /\ GateKeeps(evaluated[c], consecutive[c], accepted[c])'
  BY DEF ForecasterInvariant, Keeps, GateKeeps
<1>3. GateFollowsMask'
  BY DEF ForecasterInvariant, GateFollowsMask, IsCurrent, GateMask
<1>4. ForecastUsesItsSnapshot'
  BY DEF ForecasterInvariant, ForecastUsesItsSnapshot, IsCurrent, SegmentLength, LastSegment
<1>. QED
  BY <1>1, <1>2, <1>3, <1>4 DEF ForecasterInvariant

\* Whatever twin states come, valid or not, with whatever times, and whichever calls fail:
\* history, counter and payload of RuntimeForecaster agree with the samples accepted.
THEOREM ForecasterInvariantHolds == ForecasterSpec => []ForecasterInvariant
<1>1. ForecasterInit => ForecasterInvariant
  BY ForecasterBegins
<1>2. ForecasterInvariant /\ [ForecasterNext]_forecasterVars => ForecasterInvariant'
  <2>. SUFFICES ASSUME ForecasterInvariant, [ForecasterNext]_forecasterVars
                PROVE  ForecasterInvariant'
    OBVIOUS
  <2>1. CASE UNCHANGED forecasterVars
    BY <2>1, ForecasterStutters
  <2>2. CASE ForecasterNext
    <3>1. PICK time \in 0 .. MaxTime, bad, out, counted \in SUBSET Controller :
            \/ \E valid \in BOOLEAN : Update(time, valid, bad, out, counted)
            \/ \E done \in SUBSET Controller : UpdateFails(done, time, bad, out, counted)
      BY <2>2 DEF ForecasterNext
    <3>2. CASE \E valid \in BOOLEAN : Update(time, valid, bad, out, counted)
      BY <3>2, UpdateStep
    <3>3. CASE \E done \in SUBSET Controller : UpdateFails(done, time, bad, out, counted)
      BY <3>3, UpdateFailsStep
    <3>. QED
      BY <3>1, <3>2, <3>3
  <2>. QED
    BY <2>1, <2>2
<1>. QED
  BY <1>1, <1>2, PTL DEF ForecasterSpec

LEMMA KeepsIsEnd ==
  ASSUME NEW a \in Seq(Sample), a # <<>>, NEW b \in Seq(Sample), Keeps(b, a)
  PROVE  b = SubSeq(a, Low(a), Len(a))
<1>. DEFINE q == SubSeq(a, Low(a), Len(a))
<1>1. /\ Len(a) \in Nat \ {0} /\ Low(a) \in 1 .. Len(a)
      /\ Len(b) = Len(a) - Low(a) + 1 /\ \A i \in 1 .. Len(b) : b[i] = a[Low(a) - 1 + i]
  BY LowIn DEF Keeps
<1>2. \A i \in Low(a) .. Len(a) : a[i] \in Sample
  <2>1. Low(a) .. Len(a) \subseteq 1 .. Len(a)
    BY <1>1
  <2>. QED
    BY <2>1
<1>3. /\ q \in Seq(Sample) /\ Len(q) = Len(a) - Low(a) + 1
      /\ \A i \in 1 .. Len(a) - Low(a) + 1 : q[i] = a[Low(a) + i - 1]
  BY <1>1, <1>2, SubSeqProperties
<1>. HIDE DEF q
<1>4. \A i \in 1 .. Len(b) : b[i] = q[i]
  <2>1. \A i \in 1 .. Len(b) : Low(a) + i - 1 = Low(a) - 1 + i
    BY <1>1
  <2>. QED
    BY <1>1, <1>3, <2>1
<1>5. b = q
  BY <1>1, <1>3, <1>4, SeqEqual
<1>. QED
  BY <1>5 DEF q

\* The history that the model is fed at run time is the end of the segment that the data set
\* has at this place: SnapshotHistory and assign_segments split alike.
THEOREM HistoryIsDataset == ForecasterSpec => []HistoryMatchesDataset
<1>1. ForecasterInvariant => HistoryMatchesDataset
  <2>. SUFFICES ASSUME ForecasterInvariant, NEW c \in Controller
                PROVE  LET a == accepted[c]
                           room == Len(a) - Capacity + 1
                       IN  IF a = <<>> THEN buffer[c] = <<>>
                           ELSE buffer[c] = SubSeq(a, IF room > LastSegment(c) THEN room
                                                      ELSE LastSegment(c), Len(a))
    BY DEF HistoryMatchesDataset
  <2>1. accepted[c] \in Seq(Sample) /\ buffer[c] \in Seq(Sample)
        /\ Keeps(buffer[c], accepted[c])
    BY DEF ForecasterInvariant, ForecasterTypes
  <2>2. CASE accepted[c] = <<>>
    BY <2>1, <2>2 DEF Keeps
  <2>3. CASE accepted[c] # <<>>
    BY <2>1, <2>3, KeepsIsEnd, Payload DEF Low
  <2>. QED
    BY <2>2, <2>3
<1>. QED
  BY <1>1, ForecasterInvariantHolds, PTL

\* The fallback of the telemetry thread is taken exactly where ood.gate_mask is on for the
\* rows that the gate counts, and so only where the offline evaluation of the model, whose
\* mask ignores no feature, takes it too.
THEOREM GateIsMask == ForecasterSpec => []GateFollowsMask
<1>1. ForecasterInvariant => GateFollowsMask
  BY DEF ForecasterInvariant
<1>. QED
  BY <1>1, ForecasterInvariantHolds, PTL

\* A forecast with numbers rests on HistorySteps good samples of one segment, the last of
\* them of the snapshot it names.
THEOREM ForecastRestsOnSnapshot == ForecasterSpec => []ForecastUsesItsSnapshot
<1>1. ForecasterInvariant => ForecastUsesItsSnapshot
  BY DEF ForecasterInvariant
<1>. QED
  BY <1>1, ForecasterInvariantHolds, PTL

-----------------------------------------------------------------------------
(* Why there is no forecast                                                *)

\* A controller waits because of a hole when its segment is not the first and still short.
GapKnown(c) ==
  gapSeen[c] <=> /\ accepted[c] # <<>> /\ Segment(accepted[c]) > 1
                 /\ ~HasHistory(buffer[c])

ReasonInvariant ==
  gapSeen \in [Controller -> BOOLEAN] /\ (\A c \in Controller : GapKnown(c)) /\ ReasonIsTrue

\* The buffer is long enough when the segment is.
LEMMA HistoryLength ==
  ASSUME NEW a \in Seq(Sample), NEW b \in Seq(Sample), Keeps(b, a)
  PROVE  /\ a # <<>> => (HasHistory(b) <=> Len(a) - Segment(a) + 1 >= HistorySteps)
         /\ a = <<>> => ~HasHistory(b)
<1>1. HistorySteps \in Nat \ {0} /\ SafetyBuffer \in Nat
  BY HistoryAssumption
<1>2. CASE a = <<>>
  <2>1. Len(b) = 0
    BY <1>2 DEF Keeps
  <2>. QED
    BY <1>1, <1>2, <2>1 DEF HasHistory
<1>3. CASE a # <<>>
  <2>1. /\ Len(a) \in Nat \ {0} /\ Segment(a) \in 1 .. Len(a) /\ Len(b) = Len(a) - Low(a) + 1
    BY <1>3, LowIn DEF Keeps
  <2>2. HasHistory(b) <=> Len(a) - Low(a) + 1 >= HistorySteps
    BY <2>1 DEF HasHistory
  <2>. QED
    BY <1>1, <1>3, <2>1, <2>2 DEF Low, Capacity
<1>. QED
  BY <1>2, <1>3

LEMMA TurnKeepsGap ==
  ASSUME ForecasterInvariant, ReasonInvariant, snapshots < MaxSnapshots,
         NEW done \in SUBSET Controller, NEW time \in 0 .. MaxTime,
         NEW valid \in BOOLEAN, NEW bad, NEW out, NEW counted,
         Turns(done, time, valid, bad, out, counted),
         NEW c \in Controller
  PROVE  /\ gapSeen'[c] \in BOOLEAN
         /\ gapSeen'[c] <=> /\ accepted'[c] # <<>> /\ Segment(accepted'[c]) > 1
                            /\ ~HasHistory(buffer'[c])
<1>. DEFINE a == accepted[c]
            b == buffer[c]
            e == Entry(c, time, bad)
            st == Status(c, time, valid, bad)
            row == Evaluates(buffer'[c], st)
            new == Append(a, e)
<1>0. /\ a \in Seq(Sample) /\ b \in Seq(Sample) /\ e \in Sample /\ Keeps(b, a)
      /\ gapSeen[c] \in BOOLEAN
      /\ gapSeen[c] <=> a # <<>> /\ Segment(a) > 1 /\ ~HasHistory(b)
  BY EntryType DEF ForecasterInvariant, ForecasterTypes, ReasonInvariant, GapKnown
<1>1. /\ buffer'[c] \in Seq(Sample) /\ accepted'[c] \in Seq(Sample)
      /\ Keeps(buffer'[c], accepted'[c])
  BY TurnKeeps
<1>2. gapSeen'[c] = IF c \in done THEN GapAfter(gapSeen[c], buffer'[c], st) ELSE gapSeen[c]
  BY DEF Turns, Status, Entry
<1>3. IF c \in done
      THEN /\ buffer'[c] = Stored(b, e, st)
           /\ consecutive'[c] = CountAfter(consecutive[c], st, row, c \in counted)
           /\ accepted'[c] = IF ~IsRejected(st) THEN new ELSE a
           /\ evaluated'[c] = IF row THEN Append(evaluated[c],
                                            Seen(Segment(new), c \in out, c \in counted))
                                     ELSE evaluated[c]
      ELSE /\ buffer'[c] = b /\ consecutive'[c] = consecutive[c]
           /\ accepted'[c] = a /\ evaluated'[c] = evaluated[c]
  <2>1. ForecasterTypes
    BY DEF ForecasterInvariant
  <2>. QED
    BY <2>1, TurnOf
<1>4. CASE c \notin done
  BY <1>0, <1>2, <1>3, <1>4
<1>5. CASE c \in done /\ IsRejected(st)
  <2>1. buffer'[c] = b /\ accepted'[c] = a
    BY <1>3, <1>5 DEF Stored, IsRejected
  <2>2. gapSeen'[c] = gapSeen[c]
    BY <1>2, <1>5 DEF GapAfter
  <2>. QED
    BY <1>0, <2>1, <2>2
<1>6. CASE c \in done /\ ~IsRejected(st)
  <2>1. accepted'[c] = new
    BY <1>3, <1>6
  <2>2. gapSeen'[c] = ((gapSeen[c] \/ IsReset(st)) /\ ~HasHistory(buffer'[c]))
    BY <1>2, <1>6 DEF GapAfter
  <2>3. \/ st = "APPENDED" /\ (a # <<>> => Follows(a[Len(a)], e))
        \/ IsReset(st) /\ a # <<>> /\ ~Follows(a[Len(a)], e)
    BY <1>0, <1>6, StatusOf DEF Status
  <2>4. Len(new) = Len(a) + 1 /\ Len(a) \in Nat /\ new # <<>>
    <3>1. Len(new) = Len(a) + 1 /\ Len(a) \in Nat
      BY <1>0, Appended
    <3>2. Len(new) # 0
      BY <3>1
    <3>. HIDE DEF new
    <3>3. new # <<>>
      BY <3>2
    <3>. QED
      BY <3>1, <3>3
  <2>5. CASE IsReset(st)
    <3>1. a # <<>> /\ ~Follows(a[Len(a)], e)
      BY <2>3, <2>5 DEF IsReset
    <3>2. Segment(new) = Len(a) + 1 /\ Len(a) > 0
      BY <1>0, <3>1, NewSegment
    <3>. HIDE DEF new, a, st
    <3>3. Segment(new) > 1
      BY <2>4, <3>2
    <3>4. gapSeen'[c] = ~HasHistory(buffer'[c])
      BY <2>2, <2>5
    <3>. QED
      BY <2>1, <2>4, <3>3, <3>4
  <2>6. CASE ~IsReset(st) /\ a = <<>>
    <3>1. Segment(new) = Len(a) + 1 /\ Len(a) = 0
      BY <1>0, <2>6, NewSegment
    <3>. QED
      BY <1>0, <2>1, <2>2, <2>6, <3>1
  <2>7. CASE ~IsReset(st) /\ a # <<>>
    <3>1. Segment(new) = Segment(a) /\ Segment(a) \in Nat
      BY <1>0, <2>3, <2>7, SameSegment DEF Keeps, SegmentIsLast
    <3>2. HasHistory(b) => HasHistory(buffer'[c])
      <4>. HIDE DEF new, a, b
      <4>1. HistorySteps \in Nat
        BY HistoryAssumption
      <4>2. HasHistory(b) <=> Len(a) - Segment(a) + 1 >= HistorySteps
        BY <1>0, <2>7, HistoryLength
      <4>3. HasHistory(buffer'[c]) <=> Len(new) - Segment(new) + 1 >= HistorySteps
        BY <1>1, <2>1, <2>4, HistoryLength
      <4>. QED
        BY <2>4, <3>1, <4>1, <4>2, <4>3
    <3>. QED
      BY <1>0, <2>1, <2>2, <2>4, <2>7, <3>1, <3>2
  <2>. QED
    BY <2>5, <2>6, <2>7
<1>. QED
  BY <1>4, <1>5, <1>6

LEMMA TurnsKeepGaps ==
  ASSUME ForecasterInvariant, ReasonInvariant, snapshots < MaxSnapshots,
         NEW done \in SUBSET Controller, NEW time \in 0 .. MaxTime,
         NEW valid \in BOOLEAN, NEW bad, NEW out, NEW counted,
         Turns(done, time, valid, bad, out, counted)
  PROVE  gapSeen' \in [Controller -> BOOLEAN] /\ \A c \in Controller : GapKnown(c)'
<1>1. gapSeen' = [c \in Controller |-> gapSeen'[c]]
  BY DEF Turns
<1>2. gapSeen' \in [Controller -> BOOLEAN]
  BY <1>1, TurnKeepsGap
<1>3. \A c \in Controller :
        GapKnown(c)' <=> (gapSeen'[c] <=> /\ accepted'[c] # <<>> /\ Segment(accepted'[c]) > 1
                                         /\ ~HasHistory(buffer'[c]))
  BY DEF GapKnown
<1>. QED
  BY <1>2, <1>3, TurnKeepsGap

\* The reason in the payload is read off the controller's wait.
LEMMA ReasonKeeps ==
  ASSUME ForecasterInvariant, ReasonInvariant, NEW time \in 0 .. MaxTime,
         NEW valid \in BOOLEAN, NEW bad, NEW out, NEW counted,
         Update(time, valid, bad, out, counted),
         NEW c \in Controller, forecast'.of[c] \in {"INSUFFICIENT_HISTORY", "HISTORY_GAP"}
  PROVE  /\ Len(accepted'[c]) - Segment(accepted'[c]) + 1 < HistorySteps
         /\ forecast'.of[c] = "HISTORY_GAP" <=> Segment(accepted'[c]) > 1
<1>. DEFINE a == accepted[c]
            e == Entry(c, time, bad)
            st == Status(c, time, valid, bad)
            new == accepted'[c]
            b == buffer'[c]
<1>1. snapshots < MaxSnapshots /\ ForecasterTypes
      /\ Turns(Controller, time, valid, bad, out, counted)
      /\ Controller \in SUBSET Controller
  BY DEF Update, ForecasterInvariant
<1>2. AppendStatus(buffer[c], [time |-> time, id |-> snapshots + 1], valid) = st
  BY DEF AppendStatus, Status, Entry
<1>3. forecast'.of[c] = PredictionOf(b, st, consecutive'[c], gapSeen'[c])
  BY <1>2 DEF Update
<1>4. ~IsRejected(st) /\ ~HasHistory(b) /\ (forecast'.of[c] = "HISTORY_GAP" <=> gapSeen'[c])
  <2>. HIDE DEF st
  <2>1. CASE st \in {"REJECTED_INVALID_SNAPSHOT", "REJECTED_DUPLICATE"} \/ HasHistory(b)
    <3>1. forecast'.of[c] \notin {"INSUFFICIENT_HISTORY", "HISTORY_GAP"}
      BY ONLY <1>3, <2>1 DEF PredictionOf
    <3>. QED
      BY ONLY <3>1, forecast'.of[c] \in {"INSUFFICIENT_HISTORY", "HISTORY_GAP"}
  <2>2. CASE st \notin {"REJECTED_INVALID_SNAPSHOT", "REJECTED_DUPLICATE"} /\ ~HasHistory(b)
    <3>1. forecast'.of[c] = IF gapSeen'[c] THEN "HISTORY_GAP" ELSE "INSUFFICIENT_HISTORY"
      BY ONLY <1>3, <2>2 DEF PredictionOf
    <3>. QED
      BY ONLY <2>2, <3>1 DEF IsRejected
  <2>. QED
    BY ONLY <2>1, <2>2
<1>5. new = Append(a, e)
  <2>. HIDE DEF st, new, a, e
  <2>1. IF ~IsRejected(st) THEN new = Append(a, e) ELSE new = a
    BY <1>1, TurnAccepts DEF st, new, a, e
  <2>. QED
    BY ONLY <1>4, <2>1
<1>6. new # <<>>
  <2>1. a \in Seq(Sample) /\ e \in Sample
    BY <1>1, EntryType DEF ForecasterTypes
  <2>2. Len(new) = Len(a) + 1 /\ Len(a) \in Nat
    BY <1>5, <2>1, Appended
  <2>3. Len(new) # 0
    BY <2>2
  <2>. HIDE DEF new
  <2>. QED
    BY <2>3
<1>7. /\ b \in Seq(Sample) /\ new \in Seq(Sample) /\ Keeps(b, new)
      /\ gapSeen'[c] <=> new # <<>> /\ Segment(new) > 1 /\ ~HasHistory(b)
  BY <1>1, TurnKeeps, TurnKeepsGap
<1>8. Len(new) \in Nat /\ Segment(new) \in Nat /\ HistorySteps \in Nat
      /\ ~(Len(new) - Segment(new) + 1 >= HistorySteps)
  BY <1>4, <1>6, <1>7, HistoryLength, HistoryAssumption DEF Keeps, SegmentIsLast
<1>. HIDE DEF new, b
<1>9. Len(new) - Segment(new) + 1 < HistorySteps
  BY <1>8
<1>10. forecast'.of[c] = "HISTORY_GAP" <=> Segment(new) > 1
  BY <1>4, <1>6, <1>7
<1>. QED
  BY <1>9, <1>10 DEF new

\* The reason of a NOT_READY forecast is true: there was a hole in the recording, or not yet
\* enough of it.
THEOREM ReasonsAreTrue == ForecasterSpec => []ReasonIsTrue
<1>1. ForecasterInit => ReasonInvariant
  BY DEF ForecasterInit, NoForecast, ReasonInvariant, GapKnown, ReasonIsTrue, IsCurrent
<1>2. ForecasterInvariant /\ ReasonInvariant /\ [ForecasterNext]_forecasterVars
        => ReasonInvariant'
  <2>. SUFFICES ASSUME ForecasterInvariant, ReasonInvariant, [ForecasterNext]_forecasterVars
                PROVE  ReasonInvariant'
    OBVIOUS
  <2>1. CASE UNCHANGED forecasterVars
    BY <2>1 DEF forecasterVars, forecasterState, history, ReasonInvariant, GapKnown,
                ReasonIsTrue, IsCurrent, SegmentLength, LastSegment
  <2>2. ASSUME NEW time \in 0 .. MaxTime, NEW valid \in BOOLEAN, NEW bad, NEW out, NEW counted,
               Update(time, valid, bad, out, counted)
        PROVE  ReasonInvariant'
    <3>1. snapshots < MaxSnapshots /\ Turns(Controller, time, valid, bad, out, counted)
          /\ Controller \in SUBSET Controller
      BY <2>2 DEF Update
    <3>2. gapSeen' \in [Controller -> BOOLEAN] /\ \A c \in Controller : GapKnown(c)'
      BY <3>1, TurnsKeepGaps
    <3>3. \A c \in Controller :
            forecast'.of[c] \in {"INSUFFICIENT_HISTORY", "HISTORY_GAP"} =>
              /\ Len(accepted'[c]) - Segment(accepted'[c]) + 1 < HistorySteps
              /\ forecast'.of[c] = "HISTORY_GAP" <=> Segment(accepted'[c]) > 1
      BY <2>2, ReasonKeeps
    <3>4. \A c \in Controller :
            /\ SegmentLength(c)' = Len(accepted'[c]) - Segment(accepted'[c]) + 1
            /\ LastSegment(c)' = Segment(accepted'[c])
      BY DEF SegmentLength, LastSegment, Segment
    <3>5. ReasonIsTrue'
      BY <3>3, <3>4 DEF ReasonIsTrue
    <3>. QED
      BY <3>2, <3>5 DEF ReasonInvariant
  <2>3. ASSUME NEW done \in SUBSET Controller, NEW time \in 0 .. MaxTime,
               NEW bad, NEW out, NEW counted,
               UpdateFails(done, time, bad, out, counted)
        PROVE  ReasonInvariant'
    <3>1. /\ snapshots < MaxSnapshots /\ snapshots' = snapshots + 1 /\ forecast' = forecast
          /\ Turns(done, time, TRUE, bad, out, counted) /\ TRUE \in BOOLEAN
      BY <2>3 DEF UpdateFails
    <3>2. snapshots \in Nat /\ forecast.snapshot \in 0 .. snapshots
      BY DEF ForecasterInvariant, ForecasterTypes
    <3>3. gapSeen' \in [Controller -> BOOLEAN] /\ \A c \in Controller : GapKnown(c)'
      BY <3>1, TurnsKeepGaps
    <3>4. forecast'.snapshot # snapshots'
      BY <3>1, <3>2
    <3>5. ReasonIsTrue'
      BY <3>4 DEF ReasonIsTrue, IsCurrent
    <3>. QED
      BY <3>3, <3>5 DEF ReasonInvariant
  <2>. QED
    BY <2>1, <2>2, <2>3 DEF ForecasterNext
<1>3. ReasonInvariant => ReasonIsTrue
  BY DEF ReasonInvariant
<1>. QED
  BY <1>1, <1>2, <1>3, ForecasterInvariantHolds, PTL DEF ForecasterSpec
=============================================================================
