--------------------------- MODULE TrainingProofs ---------------------------
(***************************************************************************)
(* The offline side of forecasting, for every plan of runs, every set of   *)
(* horizons and families and every order of scripts, stops and retrainings:*)
(* the held-out runs stay held out, the test is read behind the frozen     *)
(* selection, and a chain of scripts gives an artifact of one training.    *)
(***************************************************************************)
EXTENDS ForecastTraining, SequenceTheorems, TLAPS

(***************************************************************************)
(* What the files hold.                                                    *)
(***************************************************************************)

Rows == [Runs -> 0 .. MaxTakes]

TrainSet == {"selection", "linear", "scaler", "forest", "schema", "reports", "training",
             "pointer"}

DataMem(h) == [rows : Rows, steps : {h}]
TrainContent == [session : 1 .. MaxSessions, family : Families, rows : Rows,
                 steps : Horizons, on : SUBSET Runs]
MarginContent == [family : Families, weights : SUBSET Nat, rows : Rows,
                  on : SUBSET Runs, logged : Nat]
CardContent == [family : Families, steps : Horizons, rows : Rows, run : Nat]
SummaryContent == [family : Families, session : Nat]

Files ==
  /\ model \in [ModelFiles -> {Absent} \cup TrainContent \cup MarginContent
                                \cup CardContent \cup SummaryContent]
  /\ \A f \in TrainSet : model[f] # Absent => model[f] \in TrainContent
  /\ \A f \in {"margin", "ranges"} : model[f] # Absent => model[f] \in MarginContent
  /\ model["card"] # Absent => model["card"] \in CardContent
  /\ model["summary"] # Absent => model["summary"] \in SummaryContent

Types ==
  /\ raw \in [Runs -> [take : 1 .. MaxTakes, usable : BOOLEAN]]
  /\ horizon \in Horizons
  /\ data \in [Horizons -> [DataFiles -> {Absent} \cup UNION {DataMem(h) : h \in Horizons}]]
  /\ \A h \in Horizons, f \in DataFiles : data[h][f] \in {Absent} \cup DataMem(h)
  /\ sessions \in 0 .. MaxSessions
  /\ chain \in {"none", "trained", "margin", "exported"}
  /\ Files

(***************************************************************************)
(* Where the scripts stand.                                                *)
(***************************************************************************)

\* What is left of the files of a script when the first k are written.
Left(files, k) == SubSeq(files, k + 1, Len(files))

\* The rows of the dataset that the configured horizon names.
Current(rows) == data[horizon]["dataset"] # Absent /\ data[horizon]["dataset"].rows = rows

DataScript ==
  /\ script \in [name : {"dataset", "splits"}, todo : Seq(DataFiles), mem : DataMem(horizon),
                 dir : {horizon}]
  /\ chain = "none"

FromTraining(f, mem) ==
  /\ model[f] # Absent
  /\ model[f].session = mem.session /\ model[f].rows = mem.rows

TrainScript ==
  /\ script \in [name : {"train"}, todo : Seq(TrainSet), dir : {horizon},
                 mem : [session : 1 .. MaxSessions, family : Families, tracked : BOOLEAN,
                        rows : Rows, steps : Horizons]]
  /\ chain = "none" /\ script.mem.session = sessions /\ Current(script.mem.rows)
  /\ \E k \in 0 .. 8 :
       /\ script.todo = Left(TrainFiles, k)
       /\ \A i \in 1 .. k : i # 8 => FromTraining(TrainFiles[i], script.mem)

\* The error of the weights that are on disk, on the rows of the configured dataset.
ExactMargin(margin) ==
  /\ margin.weights = Sessions(WeightFiles(margin.family))
  /\ Current(margin.rows)

MarginScript ==
  /\ script \in [name : {"margin"}, todo : Seq({"margin", "ranges"}), dir : {horizon},
                 mem : [family : Families, rows : Rows, weights : SUBSET Nat]]
  /\ chain \in {"none", "trained"}
  /\ chain = "trained" => ExactMargin(script.mem)
  /\ \E k \in 0 .. 2 :
       /\ script.todo = Left(MarginFiles, k)
       /\ k > 0 => model["margin"] # Absent
       /\ k > 0 /\ chain = "trained" => ExactMargin(model["margin"])

ExactCard(family) ==
  /\ model["card"] # Absent
  /\ model["card"].family = family
  /\ model["card"].steps = model["training"].steps
  /\ Current(model["card"].rows)

ExactSummary(family) ==
  model["summary"] = [family |-> family, session |-> model["training"].session]

ExportScript ==
  /\ script \in [name : {"export"}, todo : Seq({"card", "summary"}), dir : {horizon},
                 mem : [family : Families]]
  /\ chain \in {"none", "margin"}
  /\ Present({"selection", "training", "schema"})
  /\ \E k \in 0 .. 2 :
       /\ script.todo = Left(ExportFiles, k)
       /\ k > 0 /\ chain = "margin" => ExactCard(script.mem.family)
       /\ k > 1 /\ chain = "margin" => ExactSummary(script.mem.family)

Scripts == script = Idle \/ DataScript \/ TrainScript \/ MarginScript \/ ExportScript

(***************************************************************************)
(* The inductive invariant.                                                *)
(***************************************************************************)

LookedAt ==
  \A f \in {"selection", "linear", "scaler", "forest", "margin", "ranges"} :
    model[f] # Absent => model[f].on \subseteq Split("train") \cup Split("validation")

SessionsPast == \A f \in TrainSet : model[f] # Absent => model[f].session <= sessions

OneTraining ==
  /\ \A f \in TrainSet \ {"pointer"} : FromTraining(f, model["training"])
  /\ Current(model["training"].rows)

Chain ==
  /\ chain # "none" => OneTraining
  /\ chain \in {"margin", "exported"} => model["margin"] # Absent /\ ExactMargin(model["margin"])
  /\ chain = "exported" =>
       /\ ExactCard(model["card"].family) /\ ExactSummary(model["card"].family)
       /\ ValidArtifact

TrainingInvariant ==
  Types /\ Scripts /\ LookedAt /\ SessionsPast /\ TestAfterFreeze /\ Chain

-----------------------------------------------------------------------------
(***************************************************************************)
(* The files of a script, one after the other.                             *)
(***************************************************************************)

LEMMA LeftIsWritten ==
  ASSUME NEW S, NEW files \in Seq(S), NEW k \in 0 .. Len(files)
  PROVE  /\ Left(files, k) \in Seq(S)
         /\ Left(files, k) = <<>> => k = Len(files)
         /\ Left(files, k) # <<>> =>
              /\ k + 1 \in 1 .. Len(files)
              /\ Head(Left(files, k)) = files[k + 1]
              /\ Head(Left(files, k)) \in S
              /\ Tail(Left(files, k)) = Left(files, k + 1)
<1>1. \A i \in k + 1 .. Len(files) : files[i] \in S
  OBVIOUS
<1>2. /\ Left(files, k) \in Seq(S)
      /\ Len(Left(files, k)) = IF k + 1 <= Len(files) THEN Len(files) - (k + 1) + 1 ELSE 0
      /\ \A i \in 1 .. Len(files) - (k + 1) + 1 : Left(files, k)[i] = files[k + 1 + i - 1]
  BY <1>1, SubSeqProperties DEF Left
<1>3. Left(files, k) = <<>> => k = Len(files)
  BY <1>2
<1>4. ASSUME Left(files, k) # <<>>
      PROVE  /\ k + 1 \in 1 .. Len(files)
             /\ Head(Left(files, k)) = files[k + 1]
             /\ Head(Left(files, k)) \in S
             /\ Tail(Left(files, k)) = Left(files, k + 1)
  <2>1. k + 1 \in 1 .. Len(files)
    BY <1>2, <1>4
  <2>2. Head(Left(files, k)) = files[k + 1] /\ files[k + 1] \in S
    BY <1>2, <1>4, <2>1
  <2>3. \A n \in 1 .. Len(files) + 1 : n = k + 1 /\ n <= Len(files) =>
          Tail(SubSeq(files, n, Len(files))) = SubSeq(files, n + 1, Len(files))
    BY HeadTailOfSubSeq
  <2>. QED
    BY <2>1, <2>2, <2>3 DEF Left
<1>. QED
  BY <1>2, <1>3, <1>4

LEMMA Orders ==
  /\ DatasetFiles \in Seq(DataFiles) /\ SplitFiles \in Seq(DataFiles)
  /\ TrainFiles \in Seq(TrainSet) /\ Len(TrainFiles) = 8
  /\ MarginFiles \in Seq({"margin", "ranges"}) /\ Len(MarginFiles) = 2
  /\ ExportFiles \in Seq({"card", "summary"}) /\ Len(ExportFiles) = 2
  /\ TrainFiles[1] = "selection" /\ TrainFiles[2] = "linear" /\ TrainFiles[3] = "scaler"
  /\ TrainFiles[4] = "forest" /\ TrainFiles[5] = "schema" /\ TrainFiles[6] = "reports"
  /\ TrainFiles[7] = "training" /\ TrainFiles[8] = "pointer"
  /\ MarginFiles[1] = "margin" /\ MarginFiles[2] = "ranges"
  /\ ExportFiles[1] = "card" /\ ExportFiles[2] = "summary"
BY DEF DatasetFiles, SplitFiles, TrainFiles, MarginFiles, ExportFiles, DataFiles, TrainSet

\* Where each script stands, and what it writes next.
LEMMA TrainOrder ==
  /\ \A i \in 1 .. 8 : /\ TrainFiles[i] \in TrainSet
                       /\ TrainFiles[i] = "reports" => i = 6
                       /\ TrainFiles[i] = "pointer" => i = 8
  /\ \A k \in 0 .. 8 :
       /\ Left(TrainFiles, k) = <<>> => k = 8
       /\ Left(TrainFiles, k) # <<>> =>
            /\ k + 1 \in 1 .. 8
            /\ Head(Left(TrainFiles, k)) = TrainFiles[k + 1]
            /\ Tail(Left(TrainFiles, k)) = Left(TrainFiles, k + 1)
<1>1. TrainFiles \in Seq(TrainSet) /\ Len(TrainFiles) = 8
  BY Orders
<1>2. ASSUME NEW i \in 1 .. 8
      PROVE  /\ TrainFiles[i] \in TrainSet
             /\ TrainFiles[i] = "reports" => i = 6
             /\ TrainFiles[i] = "pointer" => i = 8
  <2>1. i = 1 \/ i = 2 \/ i = 3 \/ i = 4 \/ i = 5 \/ i = 6 \/ i = 7 \/ i = 8
    OBVIOUS
  <2>. QED
    BY <2>1, Orders DEF TrainSet
<1>3. ASSUME NEW k \in 0 .. 8
      PROVE  /\ Left(TrainFiles, k) = <<>> => k = 8
             /\ Left(TrainFiles, k) # <<>> =>
                  /\ k + 1 \in 1 .. 8
                  /\ Head(Left(TrainFiles, k)) = TrainFiles[k + 1]
                  /\ Tail(Left(TrainFiles, k)) = Left(TrainFiles, k + 1)
  BY <1>1, LeftIsWritten
<1>. QED
  BY <1>2, <1>3

LEMMA TwoFiles ==
  ASSUME NEW a, NEW b, NEW k \in 0 .. 2
  PROVE  /\ Left(<<a, b>>, k) = <<>> => k = 2
         /\ Left(<<a, b>>, k) # <<>> =>
              /\ k \in {0, 1}
              /\ Head(Left(<<a, b>>, k)) = IF k = 0 THEN a ELSE b
              /\ Tail(Left(<<a, b>>, k)) = Left(<<a, b>>, k + 1)
<1>. DEFINE two == <<a, b>>
<1>. PICK S : S = {a, b}
  OBVIOUS
<1>1. two \in Seq(S) /\ Len(two) = 2 /\ two[1] = a /\ two[2] = b
  OBVIOUS
<1>. HIDE DEF two
<1>2. /\ Left(two, k) = <<>> => k = 2
      /\ Left(two, k) # <<>> =>
           /\ k + 1 \in 1 .. 2
           /\ Head(Left(two, k)) = two[k + 1]
           /\ Tail(Left(two, k)) = Left(two, k + 1)
  <2>1. k \in 0 .. Len(two)
    BY <1>1
  <2>2. /\ Left(two, k) = <<>> => k = Len(two)
        /\ Left(two, k) # <<>> =>
             /\ k + 1 \in 1 .. Len(two)
             /\ Head(Left(two, k)) = two[k + 1]
             /\ Tail(Left(two, k)) = Left(two, k + 1)
    <3>1. two \in Seq(S)
      BY <1>1
    <3>. QED
      BY ONLY <2>1, <3>1, LeftIsWritten
  <2>. QED
    BY <1>1, <2>2
<1>3. /\ Left(two, k) = <<>> => k = 2
      /\ Left(two, k) # <<>> =>
           /\ k \in {0, 1}
           /\ Head(Left(two, k)) = IF k = 0 THEN a ELSE b
           /\ Tail(Left(two, k)) = Left(two, k + 1)
  BY <1>1, <1>2
<1>. QED
  BY <1>3 DEF two

LEMMA TheFiles ==
  /\ {TrainFiles[i] : i \in DOMAIN TrainFiles} = TrainSet
  /\ ModelFiles = TrainSet \cup {"margin", "ranges", "card", "summary"}
<1>1. DOMAIN TrainFiles = 1 .. 8
  BY Orders
<1>2. \A i \in 1 .. 8 : i = 1 \/ i = 2 \/ i = 3 \/ i = 4 \/ i = 5 \/ i = 6 \/ i = 7 \/ i = 8
  OBVIOUS
<1>3. {TrainFiles[i] : i \in 1 .. 8} = TrainSet
  BY <1>2, Orders DEF TrainSet
<1>. QED
  BY <1>1, <1>3 DEF ModelFiles

\* A file that holds something is not an absent one.
LEMMA ContentIsThere ==
  /\ \A c \in TrainContent : c # Absent
  /\ \A c \in MarginContent : c # Absent
  /\ \A c \in CardContent : c # Absent
  /\ \A c \in SummaryContent : c # Absent
  /\ \A h : \A c \in DataMem(h) : c # Absent
<1>1. DOMAIN Absent = {"absent"}
  BY DEF Absent
<1>2. \A c \in TrainContent : "session" \in DOMAIN c
  BY DEF TrainContent
<1>3. \A c \in MarginContent : "family" \in DOMAIN c
  BY DEF MarginContent
<1>4. \A c \in CardContent : "family" \in DOMAIN c
  BY DEF CardContent
<1>5. \A c \in SummaryContent : "family" \in DOMAIN c
  BY DEF SummaryContent
<1>6. \A h : \A c \in DataMem(h) : "rows" \in DOMAIN c
  BY DEF DataMem
<1>. QED
  BY <1>1, <1>2, <1>3, <1>4, <1>5, <1>6

\* The content that belongs into a file.
Fits(f, c) ==
  \/ f \in TrainSet /\ c \in TrainContent
  \/ f \in {"margin", "ranges"} /\ c \in MarginContent
  \/ f = "card" /\ c \in CardContent
  \/ f = "summary" /\ c \in SummaryContent

Put(f, c) == model' = [model EXCEPT ![f] = c]

LEMMA WriteOne ==
  ASSUME Files, NEW f, NEW c, Fits(f, c), Put(f, c)
  PROVE  /\ Files'
         /\ model'[f] = c /\ c # Absent
         /\ \A g \in ModelFiles : g # f => model'[g] = model[g]
<1>1. f \in ModelFiles /\ c # Absent
  BY TheFiles, ContentIsThere DEF Fits
<1>2. /\ model' \in [ModelFiles -> {Absent} \cup TrainContent \cup MarginContent
                                     \cup CardContent \cup SummaryContent]
      /\ model'[f] = c
      /\ \A g \in ModelFiles : g # f => model'[g] = model[g]
  BY <1>1 DEF Files, Fits, Put
<1>3. \A g \in TrainSet : model'[g] # Absent => model'[g] \in TrainContent
  <2>1. f \in TrainSet => c \in TrainContent
    BY DEF Fits, TrainSet
  <2>. QED
    BY <1>2, <2>1, TheFiles DEF Files
<1>4. \A g \in {"margin", "ranges"} : model'[g] # Absent => model'[g] \in MarginContent
  <2>1. f \in {"margin", "ranges"} => c \in MarginContent
    BY DEF Fits, TrainSet
  <2>. QED
    BY <1>2, <2>1, TheFiles DEF Files
<1>5. /\ model'["card"] # Absent => model'["card"] \in CardContent
      /\ model'["summary"] # Absent => model'["summary"] \in SummaryContent
  <2>1. (f = "card" => c \in CardContent) /\ (f = "summary" => c \in SummaryContent)
    BY DEF Fits, TrainSet
  <2>. QED
    BY <1>2, <2>1, TheFiles DEF Files
<1>. QED
  BY <1>1, <1>2, <1>3, <1>4, <1>5 DEF Files

\* What the files say does not depend on the scripts.
LEMMA FilesSame ==
  ASSUME TrainingInvariant, UNCHANGED model, sessions' \in Nat, sessions <= sessions'
  PROVE  Files' /\ LookedAt' /\ SessionsPast' /\ TestAfterFreeze'
<1>1. Files' /\ LookedAt' /\ TestAfterFreeze'
  BY DEF TrainingInvariant, Types, Files, LookedAt, TestAfterFreeze
<1>2. \A f \in TrainSet : model[f] # Absent => model[f].session \in Nat
  BY DEF TrainingInvariant, Types, Files, TrainContent
<1>3. sessions \in Nat
  BY DEF TrainingInvariant, Types
<1>4. SessionsPast'
  BY <1>2, <1>3 DEF TrainingInvariant, SessionsPast
<1>. QED
  BY <1>1, <1>4

\* Where a script stands does not depend on the recordings.
LEMMA ScriptSame ==
  ASSUME Scripts, UNCHANGED <<horizon, data, model, script, sessions, chain>>
  PROVE  Scripts'
<1>1. CASE script = Idle
  BY <1>1 DEF Scripts
<1>2. CASE DataScript
  BY <1>2 DEF Scripts, DataScript
<1>3. CASE TrainScript
  <2>1. TrainScript'
    BY <1>3 DEF TrainScript, FromTraining, Current
  <2>. QED
    BY <2>1 DEF Scripts
<1>4. CASE MarginScript
  <2>1. MarginScript'
    BY <1>4 DEF MarginScript, ExactMargin, Current, Sessions
  <2>. QED
    BY <2>1 DEF Scripts
<1>5. CASE ExportScript
  <2>1. ExportScript'
    BY <1>5 DEF ExportScript, ExactCard, ExactSummary, Current, Present
  <2>. QED
    BY <2>1 DEF Scripts
<1>. QED
  BY <1>1, <1>2, <1>3, <1>4, <1>5 DEF Scripts

-----------------------------------------------------------------------------
(***************************************************************************)
(* The operator, and the scripts of the dataset.                           *)
(***************************************************************************)

LEMMA RecollectStep ==
  ASSUME TrainingInvariant, NEW r \in Runs, Recollect(r)
  PROVE  TrainingInvariant'
<1>1. /\ UNCHANGED <<horizon, data, model, script, sessions, chain>>
      /\ raw[r].take < MaxTakes
      /\ \E usable \in BOOLEAN :
           raw' = [raw EXCEPT ![r] = [take |-> raw[r].take + 1, usable |-> usable]]
  BY DEF Recollect
<1>2. raw' \in [Runs -> [take : 1 .. MaxTakes, usable : BOOLEAN]]
  <2>1. raw \in [Runs -> [take : 1 .. MaxTakes, usable : BOOLEAN]] /\ MaxTakes \in Nat
    BY ForecastTrainingAssumption DEF TrainingInvariant, Types
  <2>2. raw[r].take + 1 \in 1 .. MaxTakes
    BY <1>1, <2>1
  <2>. QED
    BY <1>1, <2>1, <2>2
<1>3. sessions' \in Nat /\ sessions <= sessions'
  BY <1>1 DEF TrainingInvariant, Types
<1>4. Files' /\ LookedAt' /\ SessionsPast' /\ TestAfterFreeze'
  BY <1>1, <1>3, FilesSame
<1>5. Types'
  BY <1>1, <1>2, <1>4 DEF TrainingInvariant, Types
<1>6. Scripts'
  BY <1>1, ScriptSame DEF TrainingInvariant
<1>7. Chain'
  BY <1>1 DEF TrainingInvariant, Chain, OneTraining, FromTraining, ExactMargin, ExactCard,
     ExactSummary, Current, Present, Sessions, ValidArtifact
<1>. QED
  BY <1>4, <1>5, <1>6, <1>7 DEF TrainingInvariant

\* The steps behind which nothing is claimed of a chain of scripts.
LEMMA Unchained ==
  ASSUME TrainingInvariant, chain' = "none", UNCHANGED <<raw, model>>,
         horizon' \in Horizons, sessions' \in 0 .. MaxSessions, sessions <= sessions',
         UNCHANGED data, Scripts'
  PROVE  TrainingInvariant'
<1>1. Files' /\ LookedAt' /\ SessionsPast' /\ TestAfterFreeze'
  BY FilesSame
<1>2. Types'
  BY <1>1 DEF TrainingInvariant, Types
<1>3. Chain'
  BY DEF Chain
<1>. QED
  BY <1>1, <1>2, <1>3 DEF TrainingInvariant

LEMMA HorizonStep ==
  ASSUME TrainingInvariant, NEW h \in Horizons, SetHorizon(h)
  PROVE  TrainingInvariant'
BY Unchained DEF SetHorizon, TrainingInvariant, Types, Scripts

LEMMA BuildStep ==
  ASSUME TrainingInvariant, BuildDataset \/ BuildSplits
  PROVE  TrainingInvariant'
<1>1. /\ chain' = "none" /\ UNCHANGED <<raw, horizon, data, model, sessions>>
      /\ horizon \in Horizons /\ sessions \in 0 .. MaxSessions
  BY DEF BuildDataset, BuildSplits, TrainingInvariant, Types
<1>2. CASE BuildDataset
  <2>1. /\ script' = [name |-> "dataset", todo |-> DatasetFiles, dir |-> horizon,
                      mem |-> [rows |-> [r \in Runs |-> IF raw[r].usable THEN raw[r].take ELSE 0],
                               steps |-> horizon]]
    BY <1>2 DEF BuildDataset, Start
  <2>2. [r \in Runs |-> IF raw[r].usable THEN raw[r].take ELSE 0] \in Rows
    <3>1. \A r \in Runs : raw[r].take \in 0 .. MaxTakes /\ raw[r].usable \in BOOLEAN
      BY ForecastTrainingAssumption DEF TrainingInvariant, Types
    <3>2. \A r \in Runs : (IF raw[r].usable THEN raw[r].take ELSE 0) \in 0 .. MaxTakes
      BY <3>1, ForecastTrainingAssumption
    <3>. QED
      BY <3>2 DEF Rows
  <2>3. DataScript'
    BY <1>1, <2>1, <2>2, Orders DEF DataScript, DataMem
  <2>. QED
    BY <1>1, <2>3, Unchained DEF Scripts
<1>3. CASE BuildSplits
  <2>1. /\ script' = [name |-> "splits", todo |-> SplitFiles, dir |-> horizon,
                      mem |-> [rows |-> data[horizon]["dataset"].rows, steps |-> horizon]]
        /\ data[horizon]["dataset"] # Absent
    BY <1>3 DEF BuildSplits, Start, Loadable
  <2>2. data[horizon]["dataset"].rows \in Rows
    BY <1>1, <2>1 DEF TrainingInvariant, Types, DataFiles, DataMem
  <2>3. DataScript'
    BY <1>1, <2>1, <2>2, Orders DEF DataScript, DataMem
  <2>. QED
    BY <1>1, <2>3, Unchained DEF Scripts
<1>. QED
  BY <1>2, <1>3

LEMMA WriteDataStep ==
  ASSUME TrainingInvariant, WriteDataFile
  PROVE  TrainingInvariant'
<1>1. /\ script.name \in {"dataset", "splits"} /\ script.todo # <<>>
      /\ data' = [data EXCEPT ![script.dir][Head(script.todo)] = script.mem]
      /\ script' = [script EXCEPT !.todo = Tail(@)]
      /\ UNCHANGED <<raw, horizon, model, sessions, chain>>
  BY DEF WriteDataFile
<1>2. DataScript
  BY <1>1 DEF TrainingInvariant, Scripts, Idle, TrainScript, MarginScript, ExportScript
<1>3. /\ script \in [name : {"dataset", "splits"}, todo : Seq(DataFiles),
                     mem : DataMem(horizon), dir : {horizon}]
      /\ chain = "none" /\ horizon \in Horizons /\ sessions \in 0 .. MaxSessions
  BY <1>2 DEF DataScript, TrainingInvariant, Types
<1>4. Head(script.todo) \in DataFiles /\ Tail(script.todo) \in Seq(DataFiles)
  BY <1>1, <1>3
<1>5. DataScript'
  BY <1>1, <1>3, <1>4 DEF DataScript
<1>6. /\ data' \in [Horizons -> [DataFiles -> {Absent} \cup UNION {DataMem(h) : h \in Horizons}]]
      /\ \A h \in Horizons, f \in DataFiles : data'[h][f] \in {Absent} \cup DataMem(h)
  <2>1. script.dir = horizon /\ script.mem \in DataMem(horizon)
    BY <1>3
  <2>2. data \in [Horizons -> [DataFiles -> {Absent} \cup UNION {DataMem(h) : h \in Horizons}]]
    BY DEF TrainingInvariant, Types
  <2>3. /\ data' \in [Horizons -> [DataFiles -> {Absent} \cup UNION {DataMem(h) : h \in Horizons}]]
        /\ \A h \in Horizons, f \in DataFiles :
             data'[h][f] = IF h = horizon /\ f = Head(script.todo) THEN script.mem ELSE data[h][f]
    BY <1>1, <1>3, <1>4, <2>1, <2>2
  <2>. QED
    BY <2>1, <2>3 DEF TrainingInvariant, Types
<1>7. Files' /\ LookedAt' /\ SessionsPast' /\ TestAfterFreeze'
  BY <1>1, <1>3, FilesSame
<1>8. Types'
  BY <1>1, <1>6, <1>7 DEF TrainingInvariant, Types
<1>. QED
  BY <1>1, <1>3, <1>5, <1>7, <1>8 DEF TrainingInvariant, Scripts, Chain

\* Every script may stop between two files; the dataset's end so too.
LEMMA StopStep ==
  ASSUME TrainingInvariant, Stop \/ DataDone
  PROVE  TrainingInvariant'
<1>1. /\ script' = Idle /\ UNCHANGED <<raw, horizon, data, model, sessions>>
      /\ horizon \in Horizons /\ sessions \in 0 .. MaxSessions
  BY DEF Stop, DataDone, TrainingInvariant, Types
<1>2. chain' = "none"
  <2>1. CASE Stop
    BY <2>1 DEF Stop
  <2>2. CASE DataDone
    BY <2>2 DEF DataDone, TrainingInvariant, Scripts, Idle, DataScript, TrainScript,
       MarginScript, ExportScript
  <2>. QED
    BY <2>1, <2>2
<1>. QED
  BY <1>1, <1>2, Unchained DEF Scripts

-----------------------------------------------------------------------------
(***************************************************************************)
(* The training.                                                           *)
(***************************************************************************)

LEMMA TrainStep ==
  ASSUME TrainingInvariant, NEW tracked \in BOOLEAN, Train(tracked)
  PROVE  TrainingInvariant'
<1>1. /\ script = Idle /\ sessions < MaxSessions /\ sessions' = sessions + 1
      /\ chain' = "none" /\ UNCHANGED <<raw, horizon, data, model>>
  BY DEF Train
<1>2. /\ horizon \in Horizons /\ sessions \in Nat /\ MaxSessions \in Nat
      /\ sessions' \in 1 .. MaxSessions /\ sessions <= sessions'
  BY <1>1, ForecastTrainingAssumption DEF TrainingInvariant, Types
<1>3. Scripts'
  <2>1. CASE script' = script
    BY <1>1, <2>1 DEF Scripts
  <2>2. CASE script' # script
    <3>1. /\ data[horizon]["dataset"] # Absent /\ data[horizon]["manifest"] # Absent
          /\ \E family \in Families :
               script' = [name |-> "train", todo |-> TrainFiles, dir |-> horizon,
                          mem |-> [session |-> sessions', family |-> family,
                                   tracked |-> tracked,
                                   rows |-> data[horizon]["dataset"].rows,
                                   steps |-> data[horizon]["manifest"].steps]]
      BY <2>2 DEF Train, Start, Loadable
    <3>2. data[horizon]["dataset"].rows \in Rows /\ data[horizon]["manifest"].steps \in Horizons
      BY <1>2, <3>1 DEF TrainingInvariant, Types, DataFiles, DataMem
    <3>3. TrainFiles = Left(TrainFiles, 0)
      BY Orders, SubSeqFull DEF Left
    <3>4. Current(script.mem.rows)' /\ script'.mem.session = sessions'
      BY <1>1, <3>1 DEF Current
    <3>5. script' \in [name : {"train"}, todo : Seq(TrainSet), dir : {horizon'},
                       mem : [session : 1 .. MaxSessions, family : Families,
                              tracked : BOOLEAN, rows : Rows, steps : Horizons]]
      BY <1>1, <1>2, <3>1, <3>2, Orders
    <3>6. script'.todo = Left(TrainFiles, 0)
      BY <3>1, <3>3
    <3>7. \E k \in 0 .. 8 :
            /\ script'.todo = Left(TrainFiles, k)
            /\ \A i \in 1 .. k : i # 8 => FromTraining(TrainFiles[i], script.mem)'
      <4>1. 0 \in 0 .. 8 /\ 1 .. 0 = {}
        OBVIOUS
      <4>. QED
        BY <3>6, <4>1
    <3>8. TrainScript'
      BY <1>1, <3>4, <3>5, <3>7 DEF TrainScript
    <3>. QED
      BY <3>8 DEF Scripts
  <2>. QED
    BY <2>1, <2>2
<1>. QED
  BY <1>1, <1>2, <1>3, Unchained

LEMMA TrainFileStep ==
  ASSUME TrainingInvariant, WriteTrainFile
  PROVE  TrainingInvariant'
<1>1. /\ script.name = "train" /\ script.todo # <<>>
      /\ script' = [script EXCEPT !.todo = Tail(@)]
      /\ UNCHANGED <<raw, horizon, data, sessions, chain>>
  BY DEF WriteTrainFile
<1>2. TrainScript
  BY <1>1 DEF TrainingInvariant, Scripts, Idle, DataScript, MarginScript, ExportScript
<1>3. /\ script \in [name : {"train"}, todo : Seq(TrainSet), dir : {horizon},
                     mem : [session : 1 .. MaxSessions, family : Families,
                            tracked : BOOLEAN, rows : Rows, steps : Horizons]]
      /\ chain = "none" /\ script.mem.session = sessions /\ Current(script.mem.rows)
  BY <1>2 DEF TrainScript
<1>. PICK mem : mem = script.mem
  OBVIOUS
<1>4. PICK k \in 0 .. 8 :
        /\ script.todo = Left(TrainFiles, k)
        /\ \A i \in 1 .. k : i # 8 => FromTraining(TrainFiles[i], mem)
  BY <1>2 DEF TrainScript
<1>. PICK f : f = Head(script.todo)
  OBVIOUS
<1>5. /\ k + 1 \in 1 .. 8 /\ f = TrainFiles[k + 1] /\ f \in TrainSet
      /\ Tail(script.todo) = Left(TrainFiles, k + 1) /\ Tail(script.todo) \in Seq(TrainSet)
  <2>1. Tail(script.todo) \in Seq(TrainSet)
    BY <1>1, <1>3
  <2>2. /\ k + 1 \in 1 .. 8 /\ f = TrainFiles[k + 1]
        /\ Tail(script.todo) = Left(TrainFiles, k + 1)
    BY <1>1, <1>4, TrainOrder
  <2>. QED
    BY <2>1, <2>2, TrainOrder
<1>6. /\ script' \in [name : {"train"}, todo : Seq(TrainSet), dir : {horizon'},
                      mem : [session : 1 .. MaxSessions, family : Families,
                             tracked : BOOLEAN, rows : Rows, steps : Horizons]]
      /\ script'.mem = mem /\ script'.todo = Left(TrainFiles, k + 1)
  BY <1>1, <1>3, <1>5
<1>7. sessions \in Nat /\ \A g \in TrainSet : model[g] # Absent => model[g].session \in Nat
                                                               /\ model[g].session <= sessions
  BY DEF TrainingInvariant, Types, Files, TrainContent, SessionsPast
<1>8. k + 1 # 8 => f # "pointer"
  BY <1>5, Orders
<1>9. SUFFICES Files' /\ LookedAt' /\ SessionsPast' /\ TestAfterFreeze' /\
               (\A i \in 1 .. k + 1 : i # 8 => FromTraining(TrainFiles[i], mem)')
  <2>0. k + 1 \in 0 .. 8 /\ Current(script.mem.rows)' /\ script'.mem.session = sessions'
    BY <1>1, <1>3, <1>5, <1>6 DEF Current
  <2>3. \A i \in 1 .. k + 1 : i # 8 => FromTraining(TrainFiles[i], script.mem)'
    BY <1>6, <1>9 DEF FromTraining
  <2>4. \E n \in 0 .. 8 :
          /\ script'.todo = Left(TrainFiles, n)
          /\ \A i \in 1 .. n : i # 8 => FromTraining(TrainFiles[i], script.mem)'
    BY <1>6, <2>0, <2>3
  <2>1. TrainScript'
    BY <1>1, <1>3, <1>6, <2>0, <2>4 DEF TrainScript
  <2>2. Types'
    BY <1>1, <1>9 DEF TrainingInvariant, Types
  <2>. QED
    BY <1>1, <1>3, <1>9, <2>1, <2>2 DEF TrainingInvariant, Scripts, Chain
<1>10. CASE f = "pointer" /\ ~mem.tracked
  <2>1. model' = model
    BY <1>10 DEF WriteTrainFile
  <2>2. Files' /\ LookedAt' /\ SessionsPast' /\ TestAfterFreeze'
    BY <1>1, <1>7, <2>1, FilesSame
  <2>3. k + 1 = 8
    BY <1>8, <1>10
  <2>. QED
    BY <1>4, <2>1, <2>2, <2>3 DEF FromTraining
<1>11. CASE ~(f = "pointer" /\ ~mem.tracked)
  <2>. PICK c : c = [session |-> mem.session, family |-> mem.family, rows |-> mem.rows,
                     steps |-> mem.steps, on |-> TrainedOn(f)]
    OBVIOUS
  <2>1. model' = [model EXCEPT ![f] = c]
    BY <1>11 DEF WriteTrainFile
  <2>2. TrainedOn(f) \in SUBSET Runs
    BY DEF TrainedOn, Split
  <2>3. c \in TrainContent /\ c.session = sessions /\ c.rows = mem.rows /\ c.on = TrainedOn(f)
    BY <1>3, <2>2 DEF TrainContent
  <2>4. Files \in BOOLEAN /\ Files
    BY DEF TrainingInvariant, Types, Files
  <2>5. /\ Files' /\ model'[f] = c /\ c # Absent
        /\ \A g \in ModelFiles : g # f => model'[g] = model[g]
    <3>1. Fits(f, c)
      BY <1>5, <2>3 DEF Fits
    <3>2. Put(f, c)
      BY <2>1 DEF Put
    <3>. QED
      BY ONLY <2>4, <3>1, <3>2, WriteOne
  <2>6. \A g \in TrainSet : model'[g] = IF g = f THEN c ELSE model[g]
    BY <2>5, TheFiles
  <2>7. LookedAt'
    <3>1. \A g \in {"selection", "linear", "scaler", "forest", "margin", "ranges"} :
            g # f => model'[g] = model[g]
      BY <2>5, TheFiles DEF TrainSet
    <3>2. f \in {"selection", "linear", "scaler", "forest"} =>
            c.on \subseteq Split("train") \cup Split("validation")
      BY <2>3 DEF TrainedOn
    <3>3. f \notin {"margin", "ranges"}
      BY <1>5 DEF TrainSet
    <3>. QED
      BY <2>5, <3>1, <3>2, <3>3 DEF TrainingInvariant, LookedAt, Split
  <2>8. SessionsPast'
    BY <1>1, <1>7, <2>3, <2>6 DEF SessionsPast
  <2>9. \A i \in 1 .. k + 1 : i # 8 => FromTraining(TrainFiles[i], mem)'
    <3>1. ASSUME NEW i \in 1 .. k + 1, i # 8
          PROVE  FromTraining(TrainFiles[i], mem)'
      <4>1. TrainFiles[i] \in TrainSet
        <5>1. i \in 1 .. 8
          BY <1>5
        <5>. QED
          BY <5>1, TrainOrder
      <4>2. i \in 1 .. k \/ TrainFiles[i] = f
        BY <1>5
      <4>3. c.session = mem.session
        BY <1>3, <2>3
      <4>. QED
        BY <1>4, <2>3, <2>5, <2>6, <3>1, <4>1, <4>2, <4>3 DEF FromTraining
    <3>. QED
      BY <3>1
  <2>10. TestAfterFreeze'
    <3>. PICK reports, selection, pointer :
           reports = "reports" /\ selection = "selection" /\ pointer = "pointer"
      OBVIOUS
    <3>0. {"reports", "selection", "pointer"} \subseteq TrainSet
      BY DEF TrainSet
    <3>1. model'["reports"] # Absent =>
            /\ model'["selection"] # Absent
            /\ model'["reports"].session <= model'["selection"].session
      <4>1. CASE f = "reports"
        <5>1. k + 1 = 6
          BY <1>5, <4>1, TrainOrder
        <5>2. FromTraining("selection", mem)
          BY <1>4, <5>1, Orders
        <5>. QED
          BY <1>3, <1>7, <2>3, <2>6, <3>0, <4>1, <5>2 DEF FromTraining
      <4>2. CASE f = "selection"
        BY <1>7, <2>3, <2>5, <2>6, <3>0, <4>2
      <4>3. CASE f \notin {"reports", "selection"}
        BY <2>6, <3>0, <4>3 DEF TrainingInvariant, TestAfterFreeze
      <4>. QED
        BY <4>1, <4>2, <4>3
    <3>2. ASSUME model'["pointer"] # Absent, NEW g \in TrainSet
          PROVE  /\ model'[g] # Absent
                 /\ model'["pointer"].session <= model'[g].session
      <4>1. CASE f = "pointer"
        <5>1. k + 1 = 8
          BY <1>8, <4>1
        <5>2. g = f \/ FromTraining(g, mem)
          <6>1. g = TrainFiles[1] \/ g = TrainFiles[2] \/ g = TrainFiles[3] \/ g = TrainFiles[4]
                \/ g = TrainFiles[5] \/ g = TrainFiles[6] \/ g = TrainFiles[7] \/ g = "pointer"
            BY Orders DEF TrainSet
          <6>. QED
            BY <1>4, <4>1, <5>1, <6>1
        <5>. QED
          BY <1>3, <1>7, <2>3, <2>5, <2>6, <3>0, <4>1, <5>2 DEF FromTraining
      <4>2. CASE f # "pointer"
        <5>1. model'["pointer"] = model["pointer"] /\ model["pointer"] # Absent
          BY <2>6, <3>0, <3>2, <4>2
        <5>2. model[g] # Absent /\ model["pointer"].session <= model[g].session
          BY <5>1, TheFiles DEF TrainingInvariant, TestAfterFreeze
        <5>. QED
          BY <1>7, <2>3, <2>5, <2>6, <3>0, <5>1, <5>2
      <4>. QED
        BY <4>1, <4>2
    <3>. QED
      BY <3>1, <3>2, TheFiles DEF TestAfterFreeze
  <2>. QED
    BY <2>5, <2>7, <2>8, <2>9, <2>10
<1>. QED
  BY <1>10, <1>11

\* A training that comes to its end has replaced every file of its directory.
LEMMA TrainDoneStep ==
  ASSUME TrainingInvariant, TrainDone
  PROVE  TrainingInvariant'
<1>1. /\ script.name = "train" /\ script.todo = <<>> /\ script' = Idle
      /\ chain' = "trained" /\ UNCHANGED <<raw, horizon, data, model, sessions>>
  BY DEF TrainDone
<1>2. TrainScript
  BY <1>1 DEF TrainingInvariant, Scripts, Idle, DataScript, MarginScript, ExportScript
<1>3. PICK k \in 0 .. 8 :
        /\ script.todo = Left(TrainFiles, k)
        /\ \A i \in 1 .. k : i # 8 => FromTraining(TrainFiles[i], script.mem)
  BY <1>2 DEF TrainScript
<1>4. k = 8
  BY <1>1, <1>3, TrainOrder
<1>5. \A f \in TrainSet \ {"pointer"} : FromTraining(f, script.mem)
  <2>1. ASSUME NEW f \in TrainSet \ {"pointer"}
        PROVE  FromTraining(f, script.mem)
    <3>1. f = TrainFiles[1] \/ f = TrainFiles[2] \/ f = TrainFiles[3] \/ f = TrainFiles[4]
          \/ f = TrainFiles[5] \/ f = TrainFiles[6] \/ f = TrainFiles[7]
      BY Orders DEF TrainSet
    <3>. QED
      BY <1>3, <1>4, <3>1
  <2>. QED
    BY <2>1
<1>6. OneTraining
  <2>1. "training" \in TrainSet \ {"pointer"}
    BY DEF TrainSet
  <2>2. Current(script.mem.rows)
    BY <1>2 DEF TrainScript
  <2>. QED
    BY <1>5, <2>1, <2>2 DEF OneTraining, FromTraining
<1>7. Files' /\ LookedAt' /\ SessionsPast' /\ TestAfterFreeze'
  <2>1. sessions \in Nat
    BY DEF TrainingInvariant, Types
  <2>. QED
    BY <1>1, <2>1, FilesSame
<1>8. Types'
  BY <1>1, <1>7 DEF TrainingInvariant, Types
<1>9. Chain'
  BY <1>1, <1>6 DEF Chain, OneTraining, FromTraining, Current
<1>. QED
  BY <1>1, <1>7, <1>8, <1>9 DEF TrainingInvariant, Scripts

-----------------------------------------------------------------------------
(***************************************************************************)
(* The margin and the export: they write beside the training's files.      *)
(***************************************************************************)

\* The weights of a family are files of the training, and no reports.
LEMMA WeightsAreTrained ==
  \A family : WeightFiles(family) \subseteq {"linear", "scaler", "forest"}
BY DEF WeightFiles

\* A write outside the training's files.
LEMMA Beside ==
  ASSUME TrainingInvariant, UNCHANGED <<horizon, data, sessions>>,
         \A g \in TrainSet : model'[g] = model[g]
  PROVE  /\ SessionsPast' /\ TestAfterFreeze'
         /\ OneTraining => OneTraining'
         /\ \A family : Sessions(WeightFiles(family))' = Sessions(WeightFiles(family))
         /\ \A rows : Current(rows)' <=> Current(rows)
<1>1. SessionsPast'
  BY DEF TrainingInvariant, SessionsPast
<1>2. TestAfterFreeze'
  BY TheFiles DEF TrainingInvariant, TestAfterFreeze, TrainSet
<1>3. \A rows : Current(rows)' <=> Current(rows)
  BY DEF Current
<1>4. "training" \in TrainSet
  BY DEF TrainSet
<1>5. OneTraining => OneTraining'
  BY <1>3, <1>4 DEF OneTraining, FromTraining, Current
<1>6. \A family : \A f \in WeightFiles(family) : model'[f] = model[f]
  BY WeightsAreTrained DEF TrainSet
<1>7. \A family : Sessions(WeightFiles(family))' = Sessions(WeightFiles(family))
  BY <1>6 DEF Sessions
<1>. QED
  BY <1>1, <1>2, <1>3, <1>5, <1>7

\* The family that a margin or a card is of.
LEMMA ChosenFamily ==
  ASSUME TrainingInvariant, NEW family \in Families \cup {"selected"},
         family = "selected" => model["selection"] # Absent
  PROVE  Chosen(family) \in Families
<1>1. model["selection"] # Absent => model["selection"].family \in Families
  BY DEF TrainingInvariant, Types, Files, TrainSet, TrainContent
<1>. QED
  BY <1>1 DEF Chosen

LEMMA MarginStart ==
  ASSUME TrainingInvariant, NEW family \in Families \cup {"selected"}, ComputeMargin(family)
  PROVE  TrainingInvariant'
<1>1. /\ script = Idle /\ data[horizon]["dataset"] # Absent
      /\ family = "selected" => model["selection"] # Absent
      /\ Present(WeightFiles(Chosen(family)))
      /\ script' = [name |-> "margin", todo |-> MarginFiles, dir |-> horizon,
                    mem |-> [family |-> Chosen(family), rows |-> data[horizon]["dataset"].rows,
                             weights |-> Sessions(WeightFiles(Chosen(family)))]]
      /\ chain' = IF chain = "trained" THEN chain ELSE "none"
      /\ UNCHANGED <<raw, horizon, data, model, sessions>>
  BY DEF ComputeMargin, Start, Loadable
<1>2. Chosen(family) \in Families /\ horizon \in Horizons /\ sessions \in Nat
  BY <1>1, ChosenFamily DEF TrainingInvariant, Types
<1>3. data[horizon]["dataset"].rows \in Rows
  BY <1>1, <1>2 DEF TrainingInvariant, Types, DataFiles, DataMem
<1>4. Sessions(WeightFiles(Chosen(family))) \in SUBSET Nat
  <2>1. \A f \in WeightFiles(Chosen(family)) : f \in TrainSet /\ model[f] # Absent
    BY <1>1, WeightsAreTrained DEF Present, TrainSet
  <2>2. \A f \in TrainSet : model[f] # Absent => model[f].session \in Nat
    BY DEF TrainingInvariant, Types, Files, TrainContent
  <2>. QED
    BY <2>1, <2>2 DEF Sessions
<1>5. script' \in [name : {"margin"}, todo : Seq({"margin", "ranges"}), dir : {horizon'},
                   mem : [family : Families, rows : Rows, weights : SUBSET Nat]]
  BY <1>1, <1>2, <1>3, <1>4, Orders
<1>6. ExactMargin(script.mem)'
  BY <1>1 DEF ExactMargin, Current, Sessions
<1>7. script'.todo = Left(MarginFiles, 0)
  BY <1>1, Orders, SubSeqFull DEF Left
<1>8. MarginScript'
  <2>1. chain' \in {"none", "trained"}
    BY <1>1
  <2>2. 0 \in 0 .. 2 /\ ~(0 > 0)
    OBVIOUS
  <2>. QED
    BY <1>5, <1>6, <1>7, <2>1, <2>2 DEF MarginScript
<1>9. Files' /\ LookedAt' /\ SessionsPast' /\ TestAfterFreeze'
  BY <1>1, <1>2, FilesSame
<1>10. Types'
  BY <1>1, <1>9 DEF TrainingInvariant, Types
<1>11. Chain'
  BY <1>1 DEF TrainingInvariant, Chain, OneTraining, FromTraining, Current
<1>. QED
  BY <1>8, <1>9, <1>10, <1>11 DEF TrainingInvariant, Scripts

LEMMA MarginFileStep ==
  ASSUME TrainingInvariant, WriteMarginFile
  PROVE  TrainingInvariant'
<1>1. /\ script.name = "margin" /\ script.todo # <<>>
      /\ script' = [script EXCEPT !.todo = Tail(@)]
      /\ UNCHANGED <<raw, horizon, data, sessions, chain>>
  BY DEF WriteMarginFile
<1>2. MarginScript
  BY <1>1 DEF TrainingInvariant, Scripts, Idle, DataScript, TrainScript, ExportScript
<1>3. /\ script \in [name : {"margin"}, todo : Seq({"margin", "ranges"}), dir : {horizon},
                     mem : [family : Families, rows : Rows, weights : SUBSET Nat]]
      /\ chain \in {"none", "trained"}
      /\ chain = "trained" => ExactMargin(script.mem)
  BY <1>2 DEF MarginScript
<1>. PICK mem : mem = script.mem
  OBVIOUS
<1>4. PICK k \in 0 .. 2 :
        /\ script.todo = Left(MarginFiles, k)
        /\ k > 0 => model["margin"] # Absent
        /\ k > 0 /\ chain = "trained" => ExactMargin(model["margin"])
  BY <1>2 DEF MarginScript
<1>. PICK f : f = Head(script.todo)
  OBVIOUS
<1>5. /\ k \in {0, 1} /\ f = IF k = 0 THEN "margin" ELSE "ranges"
      /\ Tail(script.todo) = Left(MarginFiles, k + 1)
  BY <1>1, <1>4, TwoFiles DEF MarginFiles
<1>6. Tail(script.todo) \in Seq({"margin", "ranges"})
  BY <1>1, <1>3
<1>. PICK c : c = [family |-> mem.family, weights |-> mem.weights, rows |-> mem.rows,
                   on |-> MarginOn(f), logged |-> 0]
  OBVIOUS
<1>7. /\ c \in MarginContent /\ c.family = mem.family /\ c.weights = mem.weights
      /\ c.rows = mem.rows /\ c.on = MarginOn(f)
  <2>1. MarginOn(f) \in SUBSET Runs
    BY DEF MarginOn, Split
  <2>. QED
    BY <1>3, <2>1 DEF MarginContent
<1>8. /\ Files' /\ model'[f] = c /\ c # Absent
      /\ \A g \in ModelFiles : g # f => model'[g] = model[g]
  <2>1. Put(f, c)
    BY DEF WriteMarginFile, Put
  <2>2. Fits(f, c) /\ Files
    BY <1>5, <1>7 DEF Fits, TrainingInvariant, Types
  <2>. QED
    BY ONLY <2>1, <2>2, WriteOne
<1>9. \A g \in TrainSet \cup {"card", "summary"} : model'[g] = model[g]
  BY <1>5, <1>8, TheFiles DEF TrainSet
<1>10. /\ SessionsPast' /\ TestAfterFreeze' /\ (OneTraining => OneTraining')
       /\ \A family : Sessions(WeightFiles(family))' = Sessions(WeightFiles(family))
       /\ \A rows : Current(rows)' <=> Current(rows)
  BY <1>1, <1>9, Beside
<1>11. LookedAt'
  <2>1. \A g \in {"selection", "linear", "scaler", "forest", "margin", "ranges"} :
          g # f => model'[g] = model[g]
    BY <1>8, TheFiles DEF TrainSet
  <2>2. c.on \subseteq Split("train") \cup Split("validation")
    BY <1>7 DEF MarginOn
  <2>. QED
    BY <1>8, <2>1, <2>2 DEF TrainingInvariant, LookedAt, Split
<1>12. /\ model'["margin"] # Absent
       /\ chain = "trained" => ExactMargin(mem)' /\ ExactMargin(model["margin"])'
  <2>1. model'["margin"] = IF k = 0 THEN c ELSE model["margin"]
    BY <1>5, <1>8, TheFiles
  <2>2. chain = "trained" => ExactMargin(mem)'
    BY <1>3, <1>10 DEF ExactMargin
  <2>3. k = 0 /\ chain = "trained" => ExactMargin(model["margin"])'
    BY <1>7, <2>1, <2>2 DEF ExactMargin
  <2>4. k # 0 /\ chain = "trained" => ExactMargin(model["margin"])'
    BY <1>4, <1>5, <1>10, <2>1 DEF ExactMargin
  <2>. QED
    BY <1>4, <1>5, <1>8, <2>1, <2>2, <2>3, <2>4
<1>13. MarginScript'
  <2>1. /\ script' \in [name : {"margin"}, todo : Seq({"margin", "ranges"}), dir : {horizon'},
                        mem : [family : Families, rows : Rows, weights : SUBSET Nat]]
        /\ script'.mem = mem /\ script'.todo = Left(MarginFiles, k + 1)
    BY <1>1, <1>3, <1>5, <1>6
  <2>2. chain = "trained" => ExactMargin(script.mem)'
    BY <1>12, <2>1 DEF ExactMargin
  <2>3. k + 1 \in 0 .. 2
    BY <1>5
  <2>. QED
    BY <1>1, <1>3, <1>12, <2>1, <2>2, <2>3 DEF MarginScript
<1>14. Types'
  BY <1>1, <1>8 DEF TrainingInvariant, Types
<1>15. Chain'
  BY <1>1, <1>3, <1>10 DEF TrainingInvariant, Chain
<1>. QED
  BY <1>10, <1>11, <1>13, <1>14, <1>15 DEF TrainingInvariant, Scripts

LEMMA MarginDoneStep ==
  ASSUME TrainingInvariant, MarginDone
  PROVE  TrainingInvariant'
<1>1. /\ script.name = "margin" /\ script.todo = <<>> /\ script' = Idle
      /\ model' = IF model["pointer"] = Absent THEN model
                  ELSE [model EXCEPT !["margin"].logged = model["pointer"].session]
      /\ chain' = IF chain = "trained" THEN "margin" ELSE "none"
      /\ UNCHANGED <<raw, horizon, data, sessions>>
  BY DEF MarginDone
<1>2. MarginScript
  BY <1>1 DEF TrainingInvariant, Scripts, Idle, DataScript, TrainScript, ExportScript
<1>3. /\ model["margin"] # Absent
      /\ chain = "trained" => ExactMargin(model["margin"])
  <2>1. PICK k \in 0 .. 2 :
          /\ script.todo = Left(MarginFiles, k)
          /\ k > 0 => model["margin"] # Absent
          /\ k > 0 /\ chain = "trained" => ExactMargin(model["margin"])
    BY <1>2 DEF MarginScript
  <2>2. k = 2
    BY <1>1, <2>1, TwoFiles DEF MarginFiles
  <2>. QED
    BY <2>1, <2>2
<1>4. model["margin"] \in MarginContent /\ Files /\ sessions \in Nat
  BY <1>3 DEF TrainingInvariant, Types, Files
<1>5. /\ Files' /\ \A g \in ModelFiles : g # "margin" => model'[g] = model[g]
      /\ model'["margin"] # Absent
      /\ model'["margin"].family = model["margin"].family
      /\ model'["margin"].weights = model["margin"].weights
      /\ model'["margin"].rows = model["margin"].rows
      /\ model'["margin"].on = model["margin"].on
  <2>1. CASE model["pointer"] = Absent
    <3>1. model' = model
      BY <1>1, <2>1
    <3>. QED
      BY <1>3, <1>4, <3>1 DEF Files
  <2>2. CASE model["pointer"] # Absent
    <3>. PICK c : c = [model["margin"] EXCEPT !.logged = model["pointer"].session]
      OBVIOUS
    <3>1. model["pointer"].session \in Nat
      BY <1>4, <2>2 DEF Files, TrainSet, TrainContent
    <3>2. /\ c \in MarginContent /\ c.family = model["margin"].family
          /\ c.weights = model["margin"].weights /\ c.rows = model["margin"].rows
          /\ c.on = model["margin"].on
      BY <1>4, <3>1 DEF MarginContent
    <3>3. Put("margin", c)
      BY <1>1, <2>2 DEF Put
    <3>4. Fits("margin", c)
      BY <3>2 DEF Fits
    <3>5. /\ Files' /\ model'["margin"] = c /\ c # Absent
          /\ \A g \in ModelFiles : g # "margin" => model'[g] = model[g]
      BY ONLY <1>4, <3>3, <3>4, WriteOne
    <3>. QED
      BY <3>2, <3>5
  <2>. QED
    BY <2>1, <2>2
<1>6. \A g \in TrainSet \cup {"ranges", "card", "summary"} : model'[g] = model[g]
  BY <1>5, TheFiles DEF TrainSet
<1>7. /\ SessionsPast' /\ TestAfterFreeze' /\ (OneTraining => OneTraining')
      /\ \A family : Sessions(WeightFiles(family))' = Sessions(WeightFiles(family))
      /\ \A rows : Current(rows)' <=> Current(rows)
  BY <1>1, <1>6, Beside
<1>8. LookedAt'
  BY <1>3, <1>5, <1>6 DEF TrainingInvariant, LookedAt, Split, TrainSet
<1>9. Types'
  BY <1>1, <1>5 DEF TrainingInvariant, Types
<1>10. Chain'
  <2>1. chain = "trained" => ExactMargin(model["margin"])'
    BY <1>3, <1>5, <1>7 DEF ExactMargin
  <2>2. chain = "trained" => OneTraining
    BY DEF TrainingInvariant, Chain
  <2>. QED
    BY <1>1, <1>5, <1>7, <2>1, <2>2 DEF Chain
<1>. QED
  BY <1>1, <1>7, <1>8, <1>9, <1>10 DEF TrainingInvariant, Scripts

LEMMA ExportStart ==
  ASSUME TrainingInvariant, NEW family \in Families \cup {"selected"}, Export(family)
  PROVE  TrainingInvariant'
<1>1. /\ script = Idle /\ Present({"selection", "training", "schema"})
      /\ script' = [name |-> "export", todo |-> ExportFiles, dir |-> horizon,
                    mem |-> [family |-> Chosen(family)]]
      /\ chain' = IF chain = "margin" THEN chain ELSE "none"
      /\ UNCHANGED <<raw, horizon, data, model, sessions>>
  BY DEF Export, Start
<1>2. Chosen(family) \in Families /\ horizon \in Horizons /\ sessions \in Nat
  <2>1. model["selection"] # Absent
    BY <1>1 DEF Present
  <2>. QED
    BY <2>1, ChosenFamily DEF TrainingInvariant, Types
<1>3. script' \in [name : {"export"}, todo : Seq({"card", "summary"}), dir : {horizon'},
                   mem : [family : Families]]
  BY <1>1, <1>2, Orders
<1>4. script'.todo = Left(ExportFiles, 0)
  BY <1>1, Orders, SubSeqFull DEF Left
<1>5. ExportScript'
  <2>1. chain' \in {"none", "margin"} /\ Present({"selection", "training", "schema"})'
    BY <1>1 DEF Present
  <2>2. 0 \in 0 .. 2 /\ ~(0 > 0) /\ ~(0 > 1)
    OBVIOUS
  <2>. QED
    BY <1>3, <1>4, <2>1, <2>2 DEF ExportScript
<1>6. Files' /\ LookedAt' /\ SessionsPast' /\ TestAfterFreeze'
  BY <1>1, <1>2, FilesSame
<1>7. Types'
  BY <1>1, <1>6 DEF TrainingInvariant, Types
<1>8. Chain'
  BY <1>1 DEF TrainingInvariant, Chain, OneTraining, FromTraining, Current, ExactMargin, Sessions
<1>. QED
  BY <1>5, <1>6, <1>7, <1>8 DEF TrainingInvariant, Scripts

LEMMA ExportFileStep ==
  ASSUME TrainingInvariant, WriteExportFile
  PROVE  TrainingInvariant'
<1>1. /\ script.name = "export" /\ script.todo # <<>>
      /\ script' = [script EXCEPT !.todo = Tail(@)]
      /\ UNCHANGED <<raw, horizon, data, sessions, chain>>
  BY DEF WriteExportFile
<1>2. ExportScript
  BY <1>1 DEF TrainingInvariant, Scripts, Idle, DataScript, TrainScript, MarginScript
<1>3. /\ script \in [name : {"export"}, todo : Seq({"card", "summary"}), dir : {horizon},
                     mem : [family : Families]]
      /\ chain \in {"none", "margin"} /\ horizon \in Horizons
      /\ Present({"selection", "training", "schema"})
  BY <1>2 DEF ExportScript, TrainingInvariant, Types
<1>. PICK mem : mem = script.mem
  OBVIOUS
<1>4. PICK k \in 0 .. 2 :
        /\ script.todo = Left(ExportFiles, k)
        /\ k > 0 /\ chain = "margin" => ExactCard(mem.family)
        /\ k > 1 /\ chain = "margin" => ExactSummary(mem.family)
  BY <1>2 DEF ExportScript
<1>. PICK f : f = Head(script.todo)
  OBVIOUS
<1>5. /\ k \in {0, 1} /\ f = IF k = 0 THEN "card" ELSE "summary"
      /\ Tail(script.todo) = Left(ExportFiles, k + 1)
  BY <1>1, <1>4, TwoFiles DEF ExportFiles
<1>6. Tail(script.todo) \in Seq({"card", "summary"})
  BY <1>1, <1>3
<1>7. /\ model["training"] # Absent /\ model["training"] \in TrainContent
      /\ model["pointer"] # Absent => model["pointer"] \in TrainContent
      /\ model["reports"] # Absent => model["reports"] \in TrainContent
  BY <1>3 DEF Present, TrainingInvariant, Types, Files, TrainSet
<1>8. chain = "margin" => OneTraining
  BY DEF TrainingInvariant, Chain
\* What is written: the card, or the summary.
<1>9. PICK c : /\ Put(f, c) /\ Fits(f, c)
               /\ f = "card" /\ chain = "margin" =>
                    /\ c.family = mem.family /\ c.steps = model["training"].steps
                    /\ Current(c.rows)
               /\ f = "summary" /\ chain = "margin" =>
                    c = [family |-> mem.family, session |-> model["training"].session]
  <2>1. CASE k = 0
    <3>. PICK now : now = data[horizon]["dataset"]
      OBVIOUS
    <3>. PICK c : c = [family |-> mem.family, steps |-> model["training"].steps,
                       rows |-> IF now = Absent THEN [r \in Runs |-> 0] ELSE now.rows,
                       run |-> IF model["pointer"] = Absent THEN 0
                               ELSE model["pointer"].session]
      OBVIOUS
    <3>1. f = "card" /\ script.dir = horizon
      BY <1>3, <1>5, <2>1
    <3>2. Put(f, c)
      BY <3>1 DEF WriteExportFile, Put
    <3>3. /\ mem.family \in Families /\ model["training"].steps \in Horizons
          /\ (IF now = Absent THEN [r \in Runs |-> 0] ELSE now.rows) \in Rows
          /\ (IF model["pointer"] = Absent THEN 0 ELSE model["pointer"].session) \in Nat
      <4>1. mem.family \in Families /\ model["training"].steps \in Horizons
        BY <1>3, <1>7 DEF TrainContent
      <4>2. [r \in Runs |-> 0] \in Rows
        BY ForecastTrainingAssumption DEF Rows
      <4>3. now # Absent => now.rows \in Rows
        BY <1>3 DEF TrainingInvariant, Types, DataFiles, DataMem
      <4>4. model["pointer"] # Absent => model["pointer"].session \in Nat
        BY <1>7 DEF TrainContent
      <4>. QED
        BY <4>1, <4>2, <4>3, <4>4
    <3>4. c \in CardContent
      BY <3>3 DEF CardContent
    <3>5. chain = "margin" => now # Absent
      BY <1>8 DEF OneTraining, Current
    <3>6. chain = "margin" => Current(c.rows)
      BY <3>5 DEF Current
    <3>. QED
      BY <3>1, <3>2, <3>4, <3>6 DEF Fits
  <2>2. CASE k = 1
    <3>. PICK c : c = [family |-> mem.family, session |-> model["reports"].session]
      OBVIOUS
    <3>1. f = "summary"
      BY <1>5, <2>2
    <3>2. Put(f, c) /\ model["reports"] # Absent
      BY <3>1 DEF WriteExportFile, Put
    <3>3. c \in SummaryContent
      BY <1>3, <1>7, <3>2 DEF SummaryContent, TrainContent
    <3>4. chain = "margin" => model["reports"].session = model["training"].session
      BY <1>8 DEF OneTraining, FromTraining, TrainSet
    <3>. QED
      BY <3>1, <3>2, <3>3, <3>4 DEF Fits
  <2>. QED
    BY <1>5, <2>1, <2>2
<1>10. /\ Files' /\ model'[f] = c /\ c # Absent
       /\ \A g \in ModelFiles : g # f => model'[g] = model[g]
  <2>1. Files
    BY DEF TrainingInvariant, Types
  <2>. QED
    BY ONLY <1>9, <2>1, WriteOne
<1>11. \A g \in TrainSet \cup {"margin", "ranges"} : model'[g] = model[g]
  BY <1>5, <1>10, TheFiles DEF TrainSet
<1>12. /\ SessionsPast' /\ TestAfterFreeze' /\ (OneTraining => OneTraining')
       /\ \A family : Sessions(WeightFiles(family))' = Sessions(WeightFiles(family))
       /\ \A rows : Current(rows)' <=> Current(rows)
  BY <1>1, <1>11, Beside
<1>13. LookedAt'
  BY <1>11 DEF TrainingInvariant, LookedAt, Split, TrainSet
<1>14. ExportScript'
  <2>1. /\ script' \in [name : {"export"}, todo : Seq({"card", "summary"}), dir : {horizon'},
                        mem : [family : Families]]
        /\ script'.mem = mem /\ script'.todo = Left(ExportFiles, k + 1)
    BY <1>1, <1>3, <1>5, <1>6
  <2>2. Present({"selection", "training", "schema"})'
    BY <1>3, <1>11 DEF Present, TrainSet
  <2>3. model'["training"] = model["training"]
    BY <1>11 DEF TrainSet
  <2>4. model'["card"] = IF k = 0 THEN c ELSE model["card"]
    BY <1>5, <1>10, TheFiles
  <2>5. chain = "margin" => ExactCard(mem.family)'
    <3>1. CASE k = 0
      BY <1>5, <1>9, <1>10, <1>12, <2>3, <2>4, <3>1 DEF ExactCard
    <3>2. CASE k = 1
      BY <1>4, <1>12, <2>3, <2>4, <3>2 DEF ExactCard
    <3>. QED
      BY <1>5, <3>1, <3>2
  <2>6. k = 1 /\ chain = "margin" => ExactSummary(mem.family)'
    BY <1>5, <1>9, <1>10, <2>3 DEF ExactSummary
  <2>7. /\ k + 1 \in 0 .. 2 /\ (k + 1 > 1 => k = 1)
    BY <1>5
  <2>8. chain = "margin" => ExactCard(script.mem.family)'
    BY <2>1, <2>5 DEF ExactCard
  <2>9. k = 1 /\ chain = "margin" => ExactSummary(script.mem.family)'
    BY <2>1, <2>6 DEF ExactSummary
  <2>. QED
    BY <1>1, <1>3, <2>1, <2>2, <2>7, <2>8, <2>9 DEF ExportScript
<1>15. Types'
  BY <1>1, <1>10 DEF TrainingInvariant, Types
<1>16. Chain'
  <2>1. chain = "margin" => model'["margin"] # Absent /\ ExactMargin(model["margin"])'
    BY <1>11, <1>12 DEF TrainingInvariant, Chain, ExactMargin
  <2>. QED
    BY <1>1, <1>3, <1>8, <1>12, <2>1 DEF Chain
<1>. QED
  BY <1>12, <1>13, <1>14, <1>15, <1>16 DEF TrainingInvariant, Scripts

LEMMA ExportDoneStep ==
  ASSUME TrainingInvariant, ExportDone
  PROVE  TrainingInvariant'
<1>1. /\ script.name = "export" /\ script.todo = <<>> /\ script' = Idle
      /\ chain' = IF chain = "margin" /\ ValidArtifact THEN "exported" ELSE "none"
      /\ UNCHANGED <<raw, horizon, data, model, sessions>>
  BY DEF ExportDone
<1>2. ExportScript
  BY <1>1 DEF TrainingInvariant, Scripts, Idle, DataScript, TrainScript, MarginScript
<1>3. chain = "margin" => ExactCard(script.mem.family) /\ ExactSummary(script.mem.family)
  <2>1. PICK k \in 0 .. 2 :
          /\ script.todo = Left(ExportFiles, k)
          /\ k > 0 /\ chain = "margin" => ExactCard(script.mem.family)
          /\ k > 1 /\ chain = "margin" => ExactSummary(script.mem.family)
    BY <1>2 DEF ExportScript
  <2>2. k = 2
    BY <1>1, <2>1, TwoFiles DEF ExportFiles
  <2>. QED
    BY <2>1, <2>2
<1>4. chain = "margin" => /\ ExactCard(model["card"].family) /\ ExactSummary(model["card"].family)
                          /\ OneTraining /\ model["margin"] # Absent
                          /\ ExactMargin(model["margin"])
  BY <1>3 DEF ExactCard, TrainingInvariant, Chain
<1>5. Files' /\ LookedAt' /\ SessionsPast' /\ TestAfterFreeze'
  <2>1. sessions \in Nat
    BY DEF TrainingInvariant, Types
  <2>. QED
    BY <1>1, <2>1, FilesSame
<1>6. Types'
  BY <1>1, <1>5 DEF TrainingInvariant, Types
<1>7. Chain'
  BY <1>1, <1>4 DEF Chain, OneTraining, FromTraining, ExactMargin, ExactCard, ExactSummary,
     Current, Present, Sessions, ValidArtifact
<1>. QED
  BY <1>1, <1>5, <1>6, <1>7 DEF TrainingInvariant, Scripts

-----------------------------------------------------------------------------
(***************************************************************************)
(* The theorems.                                                           *)
(***************************************************************************)

LEMMA TrainingBegins ==
  ASSUME Init
  PROVE  TrainingInvariant
<1>1. /\ model \in [ModelFiles -> {Absent} \cup TrainContent \cup MarginContent
                                   \cup CardContent \cup SummaryContent]
      /\ \A f \in ModelFiles : model[f] = Absent
  BY DEF Init
<1>2. Files
  BY <1>1, TheFiles DEF Files
<1>3. Types
  BY <1>2, ForecastTrainingAssumption DEF Init, Types
<1>4. LookedAt /\ SessionsPast /\ TestAfterFreeze
  BY <1>1, TheFiles DEF LookedAt, SessionsPast, TestAfterFreeze, TrainSet
<1>5. Scripts /\ Chain
  BY DEF Init, Scripts, Chain
<1>. QED
  BY <1>3, <1>4, <1>5 DEF TrainingInvariant

LEMMA TrainingStays ==
  ASSUME TrainingInvariant, UNCHANGED vars
  PROVE  TrainingInvariant'
<1>1. UNCHANGED <<raw, horizon, data, model, script, sessions, chain>> /\ sessions \in Nat
  BY DEF vars, TrainingInvariant, Types
<1>2. Files' /\ LookedAt' /\ SessionsPast' /\ TestAfterFreeze'
  BY <1>1, FilesSame
<1>3. Scripts'
  BY <1>1, ScriptSame DEF TrainingInvariant
<1>4. Types'
  BY <1>1, <1>2 DEF TrainingInvariant, Types
<1>5. Chain'
  BY <1>1 DEF TrainingInvariant, Chain, OneTraining, FromTraining, ExactMargin, ExactCard,
     ExactSummary, Current, Present, Sessions, ValidArtifact
<1>. QED
  BY <1>2, <1>3, <1>4, <1>5 DEF TrainingInvariant

\* The inductive invariant holds whatever scripts run, stop or run again.
THEOREM TrainingInvariantHolds == Spec => []TrainingInvariant
<1>1. Init => TrainingInvariant
  BY TrainingBegins
<1>2. TrainingInvariant /\ [Next]_vars => TrainingInvariant'
  BY RecollectStep, HorizonStep, BuildStep, WriteDataStep, StopStep, TrainStep, TrainFileStep,
     TrainDoneStep, MarginStart, MarginFileStep, MarginDoneStep, ExportStart, ExportFileStep,
     ExportDoneStep, TrainingStays DEF Next
<1>. QED
  BY <1>1, <1>2, PTL DEF Spec

\* Every file is absent or has a provenance of its kind.
THEOREM TrainingTypesHold == Spec => []ForecastTrainingTypeOK
<1>1. TrainingInvariant => ForecastTrainingTypeOK
  <2>. SUFFICES ASSUME TrainingInvariant
                PROVE  ForecastTrainingTypeOK
    OBVIOUS
  <2>1. \A h \in Horizons, f \in DataFiles :
          data[h][f] \in {Absent} \cup [rows : [Runs -> 0 .. MaxTakes], steps : {h}]
    BY DEF TrainingInvariant, Types, DataMem, Rows
  <2>2. ASSUME NEW i \in DOMAIN TrainFiles
        PROVE  model[TrainFiles[i]] \in Contents
    <3>1. TrainFiles[i] \in TrainSet
      BY TheFiles
    <3>. QED
      BY <3>1 DEF TrainingInvariant, Types, Files, TrainContent, Contents, Rows
  <2>. QED
    BY <2>1, <2>2 DEF TrainingInvariant, Types, ForecastTrainingTypeOK
<1>. QED
  BY <1>1, TrainingInvariantHolds, PTL

\* A run of the train or the validation split is neither of an unseen workload nor a test repeat.
LEMMA HeldOut ==
  ASSUME NEW r \in Split("train") \cup Split("validation")
  PROVE  r.workload \notin UnseenWorkloads /\ r.repeat \notin TestRepeats
<1>1. r \in Runs /\ AssignSplit(r) \in {"train", "validation"}
  BY DEF Split
<1>2. r.workload \notin UnseenWorkloads
  BY <1>1 DEF AssignSplit
<1>3. r.repeat \in TestRepeats => r.repeat \notin TrainRepeats \cup ValidationRepeats
  BY ForecastTrainingAssumption
<1>4. r.repeat \notin TestRepeats
  BY <1>1, <1>2, <1>3 DEF AssignSplit
<1>. QED
  BY <1>2, <1>4

\* What was fitted, selected or calibrated has never looked at an unseen workload or a
\* test repeat.
THEOREM HeldOutRunsStayHeldOut == Spec => []HeldOutStaysHeldOut
<1>1. TrainingInvariant => HeldOutStaysHeldOut
  BY HeldOut DEF TrainingInvariant, LookedAt, HeldOutStaysHeldOut
<1>. QED
  BY <1>1, TrainingInvariantHolds, PTL

\* The test is read behind the selection of its own training or a later one, and the pointer
\* is never ahead of a file of the directory.
THEOREM TestReadAfterFreeze == Spec => []TestAfterFreeze
<1>1. TrainingInvariant => TestAfterFreeze
  BY DEF TrainingInvariant
<1>. QED
  BY <1>1, TrainingInvariantHolds, PTL

\* A training, a margin and an export that follow one another to their end give an artifact
\* of one training, whatever the directories held before.
THEOREM WorkflowIsExact == Spec => []WorkflowGivesExactArtifact
<1>1. TrainingInvariant => WorkflowGivesExactArtifact
  <2>. SUFFICES ASSUME TrainingInvariant, chain = "exported"
                PROVE  /\ ValidArtifact
                       /\ Sessions(WeightFiles(model["card"].family))
                            \subseteq {model["training"].session}
                       /\ model["margin"].weights = Sessions(WeightFiles(model["card"].family))
                       /\ model["margin"].rows = model["training"].rows
                       /\ model["card"].rows = model["training"].rows
                       /\ model["card"].steps = model["training"].steps
                       /\ model["summary"] = [family |-> model["card"].family,
                                              session |-> model["training"].session]
    BY DEF WorkflowGivesExactArtifact
  <2>1. /\ OneTraining /\ ExactMargin(model["margin"])
        /\ ExactCard(model["card"].family) /\ ExactSummary(model["card"].family)
        /\ ValidArtifact
    BY DEF TrainingInvariant, Chain
  <2>2. model["margin"].family = model["card"].family
    BY <2>1 DEF ValidArtifact
  <2>3. \A f \in {"linear", "scaler", "forest"} : model[f].session = model["training"].session
    BY <2>1 DEF OneTraining, FromTraining, TrainSet
  <2>4. Sessions(WeightFiles(model["card"].family)) \subseteq {model["training"].session}
    BY <2>3, WeightsAreTrained DEF Sessions
  <2>. QED
    BY <2>1, <2>2, <2>4 DEF OneTraining, ExactMargin, ExactCard, ExactSummary, Current
<1>. QED
  BY <1>1, TrainingInvariantHolds, PTL
=============================================================================
