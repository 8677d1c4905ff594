--------------------------- MODULE ProviderRunProofs ---------------------------
(***************************************************************************)
(* Proofs about ProviderRun for any providers, modules and regions, and    *)
(* gathers that make any calls of the writer, any number of them.          *)
(***************************************************************************)
EXTENDS ProviderRun, InventoryWriterProofs

(* The regional tasks are numbered row by row: quotient and remainder of an    *)
(* index find the row and the column again.                                    *)
LEMMA RowAndColumn ==
    ASSUME NEW a \in Nat, NEW b \in Nat, NEW k \in 1 .. a * b
    PROVE  /\ ((k - 1) \div a) + 1 \in 1 .. b
           /\ ((k - 1) % a) + 1 \in 1 .. a
<1>1. a > 0
  <2>1. CASE a = 0
    BY <2>1
  <2> QED BY <2>1
<1> DEFINE q == (k - 1) \div a
           m == (k - 1) % a
<1>2. q \in Int /\ m \in 0 .. a - 1 /\ k - 1 = a * q + m
  BY <1>1
<1>3. q >= 0
  BY <1>1
<1>4. a * b \in Nat /\ k \in Nat /\ k >= 1 /\ k <= a * b
  OBVIOUS
<1> HIDE DEF q, m
<1>5. q < b
  <2> SUFFICES ASSUME q >= b PROVE FALSE
    BY <1>2
  <2>1. a * q >= a * b
    BY <1>1, <1>2
  <2> QED BY <1>2, <1>4, <2>1
<1> QED BY <1>2, <1>3, <1>5 DEF q, m

LEMMA TaskCountType ==
    ASSUME RunTypeOK
    PROVE  /\ TaskCount \in Nat /\ RegionalTasks \in Nat
           /\ PerRegion \in Seq(Sources) /\ GlobalModules[provider] \in Seq(Sources)
           /\ target \in Seq(Regions)
<1>1. PerRegion \in Seq(Sources) /\ GlobalModules[provider] \in Seq(Sources)
  BY RunAssumption DEF RunTypeOK, PerRegion
<1>2. target \in Seq(Regions)
  <2>1. <<>> \in Seq(Regions)
    OBVIOUS
  <2>2. target \in RegionLists \cup {<<>>}
    BY DEF RunTypeOK
  <2> QED BY <2>1, <2>2, RunAssumption
<1>3. Len(PerRegion) \in Nat /\ Len(target) \in Nat /\ Len(GlobalModules[provider]) \in Nat
  BY <1>1, <1>2
<1>4. \A a, b \in Nat : a * b \in Nat
  OBVIOUS
<1>5. RegionalTasks \in Nat
  BY <1>3, <1>4 DEF RegionalTasks
<1> QED BY <1>1, <1>2, <1>3, <1>5 DEF TaskCount

LEMMA TaskType ==
    ASSUME RunTypeOK, NEW k \in 1 .. TaskCount
    PROVE  Task(k).region \in Regions /\ Task(k).name \in Sources
<1>1. CASE k <= RegionalTasks
  <2> DEFINE a == Len(PerRegion)
             b == Len(target)
  <2>1. a \in Nat /\ b \in Nat /\ RegionalTasks = a * b
    BY TaskCountType DEF RegionalTasks
  <2> HIDE DEF a, b
  <2>2. k \in 1 .. a * b
    BY <1>1, <2>1, TaskCountType
  <2>3. ((k - 1) \div a) + 1 \in 1 .. b /\ ((k - 1) % a) + 1 \in 1 .. a
    BY <2>1, <2>2, RowAndColumn
  <2>4. target[((k - 1) \div a) + 1] \in Regions
    BY <2>3, TaskCountType DEF b
  <2>5. PerRegion[((k - 1) % a) + 1] \in Sources
    BY <2>3, TaskCountType DEF a
  <2> QED BY <1>1, <2>4, <2>5 DEF Task, a
<1>2. CASE k > RegionalTasks
  <2>1. k - RegionalTasks \in 1 .. Len(GlobalModules[provider])
    BY <1>2, TaskCountType DEF TaskCount
  <2>2. GlobalModules[provider][k - RegionalTasks] \in Sources
    BY <2>1, TaskCountType
  <2> QED BY <1>2, <2>2, RunAssumption, TaskCountType DEF Task
<1> QED BY <1>1, <1>2, TaskCountType

LEMMA CurrentType ==
    ASSUME RunTypeOK, Gathering
    PROVE  Current.region \in Regions /\ Current.name \in Sources
<1>1. Len(outcomes) + 1 \in 1 .. TaskCount
  BY TaskCountType DEF RunTypeOK, Gathering
<1> QED BY <1>1, TaskType DEF Current

-----------------------------------------------------------------------------
(* Every step but the end by a signal is a step of the writer or leaves it be. *)
LEMMA StepOfWriter ==
    ASSUME RunTypeOK, [RunNext]_allVars, ~Killed
    PROVE  [AnyCall]_writerVars
<1>1. CASE GatherCalls
  <2>1. Current.region \in Regions /\ GatherSources \subseteq Sources
    BY <1>1, CurrentType, RunAssumption DEF GatherCalls
  <2> QED BY <1>1, <2>1 DEF GatherCalls, AnyCall, SomeAddResource, SomeAddError
<1>2. CASE GatherRaises
  BY <1>2, CurrentType DEF GatherRaises, AnyCall, SomeAddError
<1>3. CASE Write
  BY <1>3 DEF Write, AnyCall
<1>4. CASE ~GatherCalls /\ ~GatherRaises /\ ~Write
  BY <1>4 DEF RunNext, Progress, LoadProvider, OpenSession, ChooseRegions, GatherReturns,
              RunReturns, WriteEnds, PrintSummary, RunRaises, allVars
<1> QED BY <1>1, <1>2, <1>3, <1>4

(* What a killed process leaves of a file is a shorter prefix. *)
LEMMA KilledWriteInv ==
    ASSUME WriteInv, Killed
    PROVE  WriteInv'
<1>1. UNCHANGED <<records, counts, regions, errors, tagSuppressions, edges, phase>>
  BY DEF Killed
<1>2. AllLines' = AllLines /\ ManifestNow' = ManifestNow
  BY <1>1 DEF AllLines, LinesOf, ManifestNow, Count
<1>3. CASE phase = "writing"
  <2>1. file \in File /\ file \notin {NoFile, StaleFile}
    BY <1>3, WriterAssumption DEF WriteInv, WriterTypeOK
  <2>2. PICK n \in 0 .. Len(file.lines) :
            file' = [file EXCEPT !.lines = SubSeq(file.lines, 1, n)]
    BY <1>3 DEF Killed
  <2>3. file.lines \in Seq(Line) /\ Len(file.lines) \in Nat
    BY <2>1 DEF File
  <2>4. /\ SubSeq(file.lines, 1, n) \in Seq(Line)
        /\ Len(SubSeq(file.lines, 1, n)) = n /\ n \in Nat /\ n <= Len(file.lines)
    BY <2>3
  <2>5. /\ file' \in File /\ file'.closed = file.closed /\ file'.manifest = file.manifest
        /\ file'.lines = SubSeq(file.lines, 1, n)
    <3> DEFINE short == SubSeq(file.lines, 1, n)
    <3>1. short \in Seq(Line) /\ file' = [file EXCEPT !.lines = short]
      BY <2>2, <2>4
    <3> HIDE DEF short
    <3>2. /\ file' \in File /\ file'.closed = file.closed
          /\ file'.manifest = file.manifest /\ file'.lines = short
      BY <2>1, <3>1 DEF File
    <3> QED BY <3>2 DEF short
  <2>6. /\ AllLines \in Seq(Line) /\ file.lines = SubSeq(AllLines, 1, Len(file.lines))
        /\ Len(file.lines) <= Len(AllLines)
    BY <2>1, AllLinesType DEF WriteInv, FileInv
  <2>7. SubSeq(file.lines, 1, n) = SubSeq(AllLines, 1, n)
    <3>1. \A i \in 1 .. n : file.lines[i] = AllLines[i]
      BY <2>3, <2>4, <2>6
    <3> QED BY <2>3, <2>4, <2>6, <3>1
  <2>8. file' \notin {NoFile, StaleFile}
    BY <2>5, WriterAssumption
  <2> QED BY <1>1, <1>2, <1>3, <2>1, <2>4, <2>5, <2>6, <2>7, <2>8
             DEF WriteInv, FileInv, WriterTypeOK
<1>4. CASE phase # "writing"
  BY <1>1, <1>2, <1>4 DEF Killed, WriteInv, FileInv, WriterTypeOK
<1> QED BY <1>3, <1>4

-----------------------------------------------------------------------------
(* Where main() stands tells how far run() and write() have come. *)
ControlInv ==
    /\ pc \in {"load", "session", "regions"} => outcomes = <<>>
    /\ pc \in {"load", "session", "regions", "gather"} => phase = "gathering"
    /\ pc \in {"write", "summary"} => Len(outcomes) = TaskCount
    /\ pc = "summary" => phase = "written"
    /\ exit = "0" => phase = "written" /\ Len(outcomes) = TaskCount

RunInv == RunTypeOK /\ WriteInv /\ ControlInv

LEMMA InitRunInv == RunInit => RunInv
<1> SUFFICES ASSUME RunInit PROVE RunInv
  OBVIOUS
<1>1. WriterInit /\ WriteInv /\ WriterTypeOK
  BY InitWriteInv DEF RunInit, WriteInv
<1>2. /\ provider \in Providers /\ regionArg \in RegionLists \cup {<<>>}
      /\ target = <<>> /\ outcomes = <<>> /\ pc = "load" /\ exit = "none"
  BY DEF RunInit
<1>3. Len(outcomes) <= TaskCount /\ outcomes \in Seq({"done", "error"})
  <2>1. Len(target) = 0 /\ Len(outcomes) = 0
    BY <1>2
  <2>2. Len(PerRegion) \in Nat /\ Len(GlobalModules[provider]) \in Nat
    BY <1>2, RunAssumption DEF PerRegion
  <2>3. TaskCount = Len(GlobalModules[provider])
    <3>1. \A a \in Nat : a * 0 = 0
      OBVIOUS
    <3>2. RegionalTasks = 0
      BY <2>1, <2>2, <3>1 DEF RegionalTasks
    <3> QED BY <2>2, <3>2 DEF TaskCount
  <2> QED BY <1>2, <2>1, <2>2, <2>3
<1> QED BY <1>1, <1>2, <1>3 DEF RunInv, RunTypeOK, ControlInv, WriterInit

(* The writer's half of the invariant, for every step. *)
LEMMA StepWriteInv ==
    ASSUME RunInv, [RunNext]_allVars
    PROVE  WriteInv' /\ WriterTypeOK'
  BY StepOfWriter, CallWriteInv, KilledWriteInv DEF RunInv, WriteInv

SameTasks == provider' = provider /\ target' = target

LEMMA TasksKept ==
    ASSUME SameTasks
    PROVE  /\ TaskCount' = TaskCount
           /\ \A k : Task(k)' = Task(k)
  BY DEF SameTasks, TaskCount, RegionalTasks, PerRegion, Task

LEMMA StartUpInv ==
    ASSUME RunInv, LoadProvider \/ OpenSession \/ ChooseRegions
    PROVE  RunTypeOK' /\ ControlInv'
<1> USE DEF RunInv, ControlInv, RunTypeOK, Goto, EndWith
<1>1. CASE LoadProvider \/ OpenSession
  <2>1. SameTasks
    BY <1>1 DEF LoadProvider, OpenSession, SameTasks
  <2> QED BY <1>1, <2>1, TasksKept, StepWriteInv DEF LoadProvider, OpenSession,
             RunNext, Progress, writerVars
<1>2. CASE ChooseRegions
  <2>1. target' \in RegionLists \cup {<<>>} /\ provider' = provider
    BY <1>2 DEF ChooseRegions
  <2>2. Len(outcomes') = 0 /\ outcomes' = outcomes /\ outcomes = <<>>
    BY <1>2 DEF ChooseRegions
  <2>3. WriterTypeOK'
    BY <1>2, StepWriteInv DEF RunNext, Progress
  <2>4. TaskCount' \in Nat
    <3>1. Len(PerRegion)' \in Nat /\ Len(GlobalModules[provider])' \in Nat
      BY <2>1, RunAssumption DEF PerRegion
    <3>2. Len(target') \in Nat
      <4>1. <<>> \in Seq(Regions) OBVIOUS
      <4> QED BY <2>1, <4>1, RunAssumption
    <3>3. \A a, b \in Nat : a * b \in Nat
      OBVIOUS
    <3>4. RegionalTasks' = Len(PerRegion)' * Len(target')
      BY DEF RegionalTasks
    <3>5. RegionalTasks' \in Nat
      BY <3>1, <3>2, <3>3, <3>4
    <3>6. TaskCount' = RegionalTasks' + Len(GlobalModules[provider])'
      BY DEF TaskCount
    <3> QED BY <3>1, <3>5, <3>6
  <2> QED BY <1>2, <2>1, <2>2, <2>3, <2>4 DEF ChooseRegions, writerVars
<1> QED BY <1>1, <1>2

LEMMA GatherInv ==
    ASSUME RunInv, GatherCalls \/ GatherReturns \/ GatherRaises
    PROVE  RunTypeOK' /\ ControlInv'
<1>1. SameTasks /\ pc' = pc /\ exit' = exit /\ UNCHANGED <<provider, regionArg, target>>
         /\ pc = "gather" /\ Len(outcomes) < TaskCount
  BY DEF GatherCalls, GatherReturns, GatherRaises, SameTasks, Gathering, runVars
<1>2. phase' = "gathering"
  BY DEF GatherCalls, GatherReturns, GatherRaises, AddResource, SomeAddEdge, AddEdge,
         AddError, writerVars, RunInv, ControlInv, Gathering
<1>3. WriterTypeOK'
  BY StepWriteInv DEF RunNext, Progress
<1>4. outcomes' \in Seq({"done", "error"}) /\ Len(outcomes') <= TaskCount
  <2>1. outcomes \in Seq({"done", "error"}) /\ TaskCount \in Nat
    BY TaskCountType DEF RunInv, RunTypeOK
  <2>2. \/ outcomes' = outcomes
        \/ outcomes' = Append(outcomes, "done")
        \/ outcomes' = Append(outcomes, "error")
    BY DEF GatherCalls, GatherReturns, GatherRaises, runVars
  <2> QED BY <1>1, <2>1, <2>2
<1>5. TaskCount' = TaskCount
  BY <1>1, TasksKept
<1> QED BY <1>1, <1>2, <1>3, <1>4, <1>5 DEF RunInv, RunTypeOK, ControlInv

LEMMA EndingInv ==
    ASSUME RunInv, RunRaises \/ RunReturns \/ Write \/ WriteEnds \/ PrintSummary \/ Killed
    PROVE  RunTypeOK' /\ ControlInv'
<1>1. SameTasks /\ UNCHANGED <<provider, regionArg, target, outcomes>>
  BY DEF RunRaises, RunReturns, Write, WriteEnds, PrintSummary, Killed, SameTasks, runVars
<1>2. WriterTypeOK'
  BY StepWriteInv DEF RunNext, Progress
<1>3. TaskCount' = TaskCount
  BY <1>1, TasksKept
<1>4. CASE Write
  BY <1>1, <1>2, <1>3, <1>4 DEF Write, runVars, RunInv, RunTypeOK, ControlInv
<1>5. CASE RunRaises \/ RunReturns \/ WriteEnds \/ PrintSummary \/ Killed
  <2>1. phase' = phase
    BY <1>5 DEF RunRaises, RunReturns, WriteEnds, PrintSummary, Killed, writerVars
  <2> QED BY <1>1, <1>2, <1>3, <1>5, <2>1
             DEF RunRaises, RunReturns, WriteEnds, PrintSummary, Killed, Goto, EndWith,
                 RunInv, RunTypeOK, ControlInv
<1> QED BY <1>4, <1>5

LEMMA RunStepInv ==
    ASSUME RunInv, [RunNext]_allVars
    PROVE  RunInv'
<1>1. CASE RunNext
  BY <1>1, StepWriteInv, StartUpInv, GatherInv, EndingInv DEF RunNext, Progress, RunInv
<1>2. CASE UNCHANGED allVars
  <2>1. SameTasks
    BY <1>2 DEF allVars, runVars, SameTasks
  <2>2. TaskCount' = TaskCount
    BY <2>1, TasksKept
  <2> QED BY <1>2, <2>2, StepWriteInv
             DEF allVars, runVars, writerVars, RunInv, RunTypeOK, ControlInv
<1> QED BY <1>1, <1>2

LEMMA RunInvAlways == RunSpec => []RunInv
<1>1. RunInv /\ [RunNext]_allVars => RunInv'
  BY RunStepInv
<1> QED BY <1>1, InitRunInv, PTL DEF RunSpec

(* Types, and never more outcomes than calls of gather functions to be made. *)
THEOREM RunTypeCorrect == RunSpec => []RunTypeOK
<1>1. RunInv => RunTypeOK
  BY DEF RunInv
<1> QED BY <1>1, RunInvAlways, PTL

(* main() returns 0 only with a closed file that holds all that was gathered,
   after every module was called for every region. *)
THEOREM ZeroIsComplete == RunSpec => []ExitZeroIsComplete
<1>1. RunInv => ExitZeroIsComplete
  BY DEF RunInv, ControlInv, WriteInv, FileInv, ExitZeroIsComplete
<1> QED BY <1>1, RunInvAlways, PTL

(* A run cut short before all modules were tried leaves the earlier file alone. *)
THEOREM EarlierFileStays == RunSpec => EarlierFileKept
<1>1. RunInv /\ [RunNext]_allVars
          => [file' # file => Len(outcomes) = TaskCount /\ pc = "write"]_allVars
  <2> SUFFICES ASSUME RunInv, RunNext, file' # file
               PROVE  Len(outcomes) = TaskCount /\ pc = "write"
    OBVIOUS
  <2>1. Write \/ (Killed /\ phase = "writing")
    BY DEF RunNext, Progress, LoadProvider, OpenSession, ChooseRegions, GatherCalls,
           AddResource, SomeAddEdge, AddEdge, AddError, GatherReturns, GatherRaises,
           RunReturns, WriteEnds, PrintSummary, RunRaises, Killed, writerVars
  <2>2. pc = "write"
    BY <2>1 DEF Write, Killed, RunInv, RunTypeOK, ControlInv
  <2> QED BY <2>2 DEF RunInv, ControlInv
<1> QED BY <1>1, RunInvAlways, PTL DEF RunSpec, EarlierFileKept

-----------------------------------------------------------------------------
(* The entries of the inventory and the failures of the gathers, counted side  *)
(* by side for every region and source.                                        *)
Reported(region, name) ==
    /\ Cardinality(FailuresOf(region, name)) <= Cardinality(ReportsOf(region, name))
    /\ name \notin GatherSources =>
           Cardinality(ReportsOf(region, name)) = Cardinality(FailuresOf(region, name))

AllReported == \A region \in Regions, name \in Sources : Reported(region, name)

LEMMA CountedSets ==
    ASSUME RunTypeOK, NEW region, NEW name
    PROVE  /\ IsFiniteSet(ReportsOf(region, name))
           /\ IsFiniteSet(FailuresOf(region, name))
           /\ Cardinality(ReportsOf(region, name)) \in Nat
           /\ Cardinality(FailuresOf(region, name)) \in Nat
<1>1. errors \in Seq(Error) /\ outcomes \in Seq({"done", "error"})
  BY DEF RunTypeOK, WriterTypeOK
<1>2. IsFiniteSet(1 .. Len(errors)) /\ IsFiniteSet(1 .. Len(outcomes))
  BY <1>1, FS_Interval
<1>3. ReportsOf(region, name) \subseteq 1 .. Len(errors)
  BY <1>1 DEF ReportsOf
<1>4. FailuresOf(region, name) \subseteq 1 .. Len(outcomes)
  BY <1>1 DEF FailuresOf
<1>5. IsFiniteSet(ReportsOf(region, name)) /\ IsFiniteSet(FailuresOf(region, name))
  BY <1>2, <1>3, <1>4, FS_Subset
<1> QED BY <1>5, FS_CardinalityType

LEMMA MoreReports ==
    ASSUME RunTypeOK, NEW region, NEW name, NEW entry \in Error,
           errors' = Append(errors, entry)
    PROVE  Cardinality(ReportsOf(region, name)') = Cardinality(ReportsOf(region, name))
               + (IF entry = [region |-> region, source |-> name] THEN 1 ELSE 0)
<1> DEFINE n == Len(errors) + 1
<1>1. errors \in Seq(Error) /\ n \notin ReportsOf(region, name)
  BY DEF RunTypeOK, WriterTypeOK, ReportsOf
<1>2. ReportsOf(region, name)' = ReportsOf(region, name)
          \cup (IF entry = [region |-> region, source |-> name] THEN {n} ELSE {})
  BY <1>1 DEF ReportsOf
<1>3. CASE entry = [region |-> region, source |-> name]
  <2>1. ReportsOf(region, name)' = ReportsOf(region, name) \cup {n}
    BY <1>2, <1>3
  <2> QED BY <2>1, <1>1, <1>3, CountedSets, FS_AddElement
<1>4. CASE entry # [region |-> region, source |-> name]
  <2>1. ReportsOf(region, name)' = ReportsOf(region, name)
    BY <1>2, <1>4
  <2> QED BY <2>1, <1>4, CountedSets
<1> QED BY <1>3, <1>4

LEMMA TaskRecord ==
    ASSUME NEW k, NEW region, NEW name
    PROVE  Task(k) = [region |-> region, name |-> name]
               <=> Task(k).region = region /\ Task(k).name = name
  BY DEF Task

LEMMA MoreFailures ==
    ASSUME RunTypeOK, SameTasks, NEW region, NEW name, NEW end \in {"done", "error"},
           outcomes' = Append(outcomes, end)
    PROVE  Cardinality(FailuresOf(region, name)') = Cardinality(FailuresOf(region, name))
               + (IF end = "error" /\ Current.region = region /\ Current.name = name
                    THEN 1 ELSE 0)
<1> DEFINE n == Len(outcomes) + 1
           hit == end = "error" /\ Current.region = region /\ Current.name = name
<1>1. outcomes \in Seq({"done", "error"}) /\ n \notin FailuresOf(region, name)
  BY DEF RunTypeOK, FailuresOf
<1>2. FailuresOf(region, name)' = {k \in DOMAIN outcomes' : outcomes'[k] = "error"
                                       /\ Task(k) = [region |-> region, name |-> name]}
  BY TasksKept DEF FailuresOf
<1>3. hit <=> end = "error" /\ Task(n) = [region |-> region, name |-> name]
  BY TaskRecord DEF Current
<1>4. FailuresOf(region, name)' = FailuresOf(region, name) \cup (IF hit THEN {n} ELSE {})
  <2> HIDE DEF hit
  <2>1. /\ DOMAIN outcomes' = 1 .. n /\ DOMAIN outcomes = 1 .. n - 1
        /\ outcomes'[n] = end /\ \A k \in 1 .. n - 1 : outcomes'[k] = outcomes[k]
    BY <1>1
  <2>2. n \in Nat /\ n >= 1
    BY <1>1
  <2> HIDE DEF n
  <2> QED BY <1>2, <1>3, <2>1, <2>2 DEF FailuresOf
<1>5. CASE hit
  <2>1. FailuresOf(region, name)' = FailuresOf(region, name) \cup {n}
    BY <1>4, <1>5
  <2>2. Cardinality(FailuresOf(region, name)') = Cardinality(FailuresOf(region, name)) + 1
    <3> HIDE DEF n, hit
    <3> QED BY <2>1, <1>1, CountedSets, FS_AddElement
  <2> QED BY <2>2, <1>5
<1>6. CASE ~hit
  <2>1. FailuresOf(region, name)' = FailuresOf(region, name)
    BY <1>4, <1>6
  <2> QED BY <2>1, <1>6, CountedSets
<1> QED BY <1>5, <1>6

LEMMA SetsKept ==
    ASSUME errors' = errors, outcomes' = outcomes,
           SameTasks \/ outcomes = <<>>, NEW region, NEW name
    PROVE  Reported(region, name)' <=> Reported(region, name)
<1>1. ReportsOf(region, name)' = ReportsOf(region, name)
  BY DEF ReportsOf
<1>2. FailuresOf(region, name)' = FailuresOf(region, name)
  BY TasksKept DEF FailuresOf
<1> QED BY <1>1, <1>2 DEF Reported

LEMMA StepReported ==
    ASSUME RunInv, AllReported, [RunNext]_allVars
    PROVE  AllReported'
<1> SUFFICES ASSUME NEW region \in Regions, NEW name \in Sources
             PROVE  Reported(region, name)'
  BY DEF AllReported
<1>1. RunTypeOK /\ Reported(region, name)
  BY DEF RunInv, AllReported
<1>2. CASE GatherRaises
  <2> DEFINE entry == [region |-> Current.region, source |-> Current.name]
  <2>1. /\ SameTasks /\ errors' = Append(errors, entry)
        /\ outcomes' = Append(outcomes, "error")
    BY <1>2 DEF GatherRaises, AddError, SameTasks
  <2>2. entry \in Error
    BY <1>1, <1>2, CurrentType DEF GatherRaises, Error
  <2>3. entry = [region |-> region, source |-> name]
            <=> Current.region = region /\ Current.name = name
    OBVIOUS
  <2> HIDE DEF entry
  <2>4. Cardinality(ReportsOf(region, name)') = Cardinality(ReportsOf(region, name))
            + (IF entry = [region |-> region, source |-> name] THEN 1 ELSE 0)
    BY <1>1, <2>1, <2>2, MoreReports
  <2>5. Cardinality(FailuresOf(region, name)') = Cardinality(FailuresOf(region, name))
            + (IF Current.region = region /\ Current.name = name THEN 1 ELSE 0)
    BY <1>1, <2>1, MoreFailures
  <2> QED BY <1>1, <2>3, <2>4, <2>5, CountedSets DEF Reported
<1>3. CASE GatherReturns
  <2>1. SameTasks /\ errors' = errors /\ outcomes' = Append(outcomes, "done")
    BY <1>3 DEF GatherReturns, SameTasks, writerVars
  <2>2. ReportsOf(region, name)' = ReportsOf(region, name)
    BY <2>1 DEF ReportsOf
  <2>3. Cardinality(FailuresOf(region, name)') = Cardinality(FailuresOf(region, name))
    BY <1>1, <2>1, MoreFailures, CountedSets
  <2> QED BY <1>1, <2>2, <2>3 DEF Reported
<1>4. CASE GatherCalls
  <2>1. SameTasks /\ outcomes' = outcomes
    BY <1>4 DEF GatherCalls, SameTasks, runVars
  <2>2. CASE errors' = errors
    BY <1>1, <2>1, <2>2, SetsKept
  <2>3. CASE errors' # errors
    <3>1. PICK s \in GatherSources : AddError(Current.region, s)
      BY <1>4, <2>3 DEF GatherCalls, AddResource, SomeAddEdge, AddEdge
    <3> DEFINE entry == [region |-> Current.region, source |-> s]
    <3>2. entry \in Error /\ errors' = Append(errors, entry)
      BY <1>1, <1>4, <3>1, CurrentType, RunAssumption DEF GatherCalls, AddError, Error
    <3>3. name \notin GatherSources => entry # [region |-> region, source |-> name]
      OBVIOUS
    <3> HIDE DEF entry
    <3>4. Cardinality(ReportsOf(region, name)') = Cardinality(ReportsOf(region, name))
              + (IF entry = [region |-> region, source |-> name] THEN 1 ELSE 0)
      BY <1>1, <3>2, MoreReports
    <3>5. FailuresOf(region, name)' = FailuresOf(region, name)
      BY <2>1, TasksKept DEF FailuresOf
    <3> QED BY <1>1, <3>3, <3>4, <3>5, CountedSets DEF Reported
  <2> QED BY <2>2, <2>3
<1>5. CASE ChooseRegions
  <2>1. errors' = errors /\ outcomes' = outcomes /\ outcomes = <<>>
    BY <1>5 DEF ChooseRegions, Goto, writerVars, RunInv, ControlInv
  <2> QED BY <1>1, <2>1, SetsKept
<1>6. CASE ~(GatherRaises \/ GatherReturns \/ GatherCalls \/ ChooseRegions)
  <2>1. errors' = errors /\ outcomes' = outcomes /\ SameTasks
    BY <1>6 DEF RunNext, Progress, LoadProvider, OpenSession, RunReturns, Write, WriteStep,
                WriteOpen, WriteLine, WriteClose, WriteFail, WriteEnds, PrintSummary,
                RunRaises, Killed, allVars, runVars, writerVars, SameTasks
  <2> QED BY <1>1, <2>1, SetsKept
<1> QED BY <1>2, <1>3, <1>4, <1>5, <1>6

LEMMA InitReported == RunInit => AllReported
<1> SUFFICES ASSUME RunInit, NEW region \in Regions, NEW name \in Sources
             PROVE  Reported(region, name)
  BY DEF AllReported
<1>1. errors = <<>> /\ outcomes = <<>>
  BY DEF RunInit, WriterInit
<1>2. ReportsOf(region, name) = {} /\ FailuresOf(region, name) = {}
  BY <1>1 DEF ReportsOf, FailuresOf
<1> QED BY <1>2, FS_EmptySet DEF Reported

(* run()'s handler: a failed gather costs itself and nothing else, and leaves an
   entry of its own, for any number of regions, modules and failures. *)
THEOREM FailuresAreReported == RunSpec => []EveryFailureReported
<1>1. RunInv /\ AllReported => EveryFailureReported
  <2> SUFFICES ASSUME RunTypeOK, AllReported, NEW k \in DOMAIN outcomes
               PROVE  Reported(Task(k).region, Task(k).name)
    BY DEF RunInv, EveryFailureReported, Reported
  <2>1. k \in 1 .. TaskCount
    BY TaskCountType DEF RunTypeOK
  <2> QED BY <2>1, TaskType DEF AllReported
<1>2. RunInv /\ AllReported /\ [RunNext]_allVars => AllReported'
  BY StepReported
<1> QED BY <1>1, <1>2, InitReported, RunInvAlways, PTL DEF RunSpec

-----------------------------------------------------------------------------
(* The safety half of the refinement; that the process ends is left to TLC.   *)
OutputOfPhase ==
    /\ phase = "gathering" => OutputOfFile \in {"nothing", "earlier"}
    /\ phase = "writing" => OutputOfFile = "partial"
    /\ phase = "written" => OutputOfFile = "whole"

LEMMA FileOfRun == WriteInv => OutputOfPhase
<1> SUFFICES ASSUME WriteInv PROVE OutputOfPhase
  OBVIOUS
<1>1. file \in File => file \notin {NoFile, StaleFile}
  BY WriterAssumption
<1> QED BY <1>1 DEF WriteInv, FileInv, WriterTypeOK, OutputOfFile, OutputOfPhase

LEMMA FileOfRunAfter == WriteInv' => OutputOfPhase'
  BY FileOfRun, PTL

LEMMA OutputKept ==
    ASSUME WriteInv, file' = file, file \in {NoFile, StaleFile} \/ AllLines' = AllLines
    PROVE  OutputOfFile' = OutputOfFile
  BY DEF OutputOfFile

LEMMA WriteMapped ==
    ASSUME RunInv, Write
    PROVE  [Contract!ContractNext]_(Contract!contractVars)
<1>1. StatusOfExit = "running" /\ StatusOfExit' = StatusOfExit
  BY DEF Write, runVars, RunInv, RunTypeOK, StatusOfExit
<1>2. AllLines' = AllLines
  BY ListsKept DEF Write
<1>3. WriteInv'
  BY StepWriteInv DEF RunNext, Progress
<1>4. CASE phase = "gathering"
  <2>1. phase' = "writing" \/ (phase' = "failed" /\ file' = file)
    BY <1>4 DEF Write, WriteStep, WriteOpen, WriteLine, WriteClose, WriteFail
  <2>2. CASE phase' = "writing"
    <3>1. OutputOfFile \in {"nothing", "earlier"} /\ OutputOfFile' = "partial"
      BY <1>3, <1>4, <2>2, FileOfRun, FileOfRunAfter DEF RunInv, OutputOfPhase
    <3> QED BY <1>1, <3>1 DEF Contract!ContractNext, Contract!StartOutput
  <2>3. CASE file' = file
    BY <1>1, <1>2, <2>3, OutputKept DEF RunInv, Contract!contractVars
  <2> QED BY <2>1, <2>2, <2>3
<1>5. CASE phase = "writing"
  <2>1. OutputOfFile = "partial"
    BY <1>5, FileOfRun DEF RunInv, OutputOfPhase
  <2>2. file' \in File
    <3>1. phase' \in {"writing", "written"} => file' \in File
      BY <1>3 DEF WriteInv, WriterTypeOK
    <3>2. CASE WriteFail
      <4>1. file \in File
        BY <1>5 DEF RunInv, WriteInv, WriterTypeOK
      <4> QED BY <1>5, <3>2, <4>1 DEF WriteFail, File
    <3> QED BY <3>1, <3>2, <1>5 DEF Write, WriteStep, WriteOpen, WriteLine, WriteClose
  <2>3. OutputOfFile' \in {"partial", "whole"}
    BY <2>2, WriterAssumption DEF OutputOfFile
  <2> QED BY <1>1, <2>1, <2>3 DEF Contract!ContractNext, Contract!FinishOutput,
                                  Contract!contractVars
<1> QED BY <1>4, <1>5 DEF Write, RunInv, WriteInv, WriterTypeOK

LEMMA EndMapped ==
    ASSUME RunInv, exit = "none", exit' \in {"0", "1", "killed"},
           OutputOfFile' = OutputOfFile, exit' = "0" => OutputOfFile = "whole"
    PROVE  Contract!ContractNext
<1>1. StatusOfExit = "running"
  BY DEF StatusOfExit
<1>2. CASE exit' = "0"
  BY <1>1, <1>2 DEF StatusOfExit, Contract!ContractNext, Contract!Succeed
<1>3. CASE exit' # "0"
  BY <1>1, <1>3 DEF StatusOfExit, Contract!ContractNext, Contract!Fail
<1> QED BY <1>2, <1>3

LEMMA StepMapped ==
    ASSUME RunInv, [RunNext]_allVars
    PROVE  [Contract!ContractNext]_(Contract!contractVars)
<1>1. CASE Write
  BY <1>1, WriteMapped
<1>2. CASE Killed
  <2>1. exit = "none" /\ exit' = "killed"
    BY <1>2 DEF Killed, EndWith, RunInv, RunTypeOK
  <2>2. OutputOfFile' = OutputOfFile
    <3>1. CASE phase = "writing"
      <4>1. phase' = "writing" /\ WriteInv'
        BY <1>2, <3>1, KilledWriteInv DEF Killed, RunInv
      <4> QED BY <3>1, <4>1, FileOfRun, FileOfRunAfter DEF RunInv, OutputOfPhase
    <3>2. CASE phase # "writing"
      <4>1. file' = file /\ AllLines' = AllLines
        BY <1>2, <3>2 DEF Killed, AllLines, LinesOf
      <4> QED BY <4>1, OutputKept DEF RunInv
    <3> QED BY <3>1, <3>2
  <2> QED BY <2>1, <2>2, EndMapped
<1>3. CASE ~Write /\ ~Killed
  <2>1. /\ file' = file
        /\ phase = "gathering" \/ AllLines' = AllLines
    <3>1. CASE GatherCalls \/ GatherRaises
      BY <3>1 DEF GatherCalls, GatherRaises, Gathering, AddResource, SomeAddEdge, AddEdge,
                  AddError, RunInv, ControlInv
    <3>2. CASE ~(GatherCalls \/ GatherRaises)
      <4>1. UNCHANGED writerVars
        BY <1>3, <3>2 DEF RunNext, Progress, LoadProvider, OpenSession, ChooseRegions,
                          GatherReturns, RunReturns, WriteEnds, PrintSummary, RunRaises,
                          allVars
      <4> QED BY <4>1 DEF writerVars, AllLines, LinesOf
    <3> QED BY <3>1, <3>2
  <2>2. OutputOfFile' = OutputOfFile
    BY <2>1, OutputKept DEF RunInv, WriteInv, FileInv
  <2>3. \/ exit' = exit
        \/ exit = "none" /\ exit' = "1"
        \/ exit = "none" /\ exit' \in {"0", "1"} /\ phase = "written"
    BY <1>3 DEF RunNext, Progress, LoadProvider, OpenSession, ChooseRegions, GatherCalls,
                GatherReturns, GatherRaises, RunReturns, WriteEnds, PrintSummary,
                RunRaises, Goto, EndWith, allVars, runVars, RunInv, RunTypeOK, ControlInv
  <2>4. CASE exit' = exit
    BY <2>2, <2>4 DEF StatusOfExit, Contract!contractVars
  <2>5. CASE exit' # exit
    BY <2>2, <2>3, <2>5, FileOfRun, EndMapped DEF RunInv, OutputOfPhase
  <2> QED BY <2>4, <2>5
<1> QED BY <1>1, <1>2, <1>3

(* The program implements what the container's script relies on: every step of a
   run is a step of RunContract or changes nothing that its caller can see. *)
THEOREM ContractKept ==
    RunSpec => Contract!ContractInit /\ [][Contract!ContractNext]_(Contract!contractVars)
<1>1. RunInit => Contract!ContractInit
  <2> SUFFICES ASSUME RunInit PROVE Contract!ContractInit
    OBVIOUS
  <2>1. exit = "none" /\ phase = "gathering" /\ WriteInv
    BY InitRunInv DEF RunInit, WriterInit, RunInv
  <2> QED BY <2>1, FileOfRun DEF StatusOfExit, Contract!ContractInit, OutputOfPhase
<1>2. RunInv /\ [RunNext]_allVars => [Contract!ContractNext]_(Contract!contractVars)
  BY StepMapped
<1> QED BY <1>1, <1>2, RunInvAlways, PTL DEF RunSpec
=============================================================================
