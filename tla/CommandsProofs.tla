--------------------------- MODULE CommandsProofs ---------------------------
(***************************************************************************)
(* What `pave` processes that share a project and a database can rely on,  *)
(* for any number of them, any commands and any migration in which an      *)
(* index comes after its table. The arguments: the schema only grows, and  *)
(* an opening store has what the statements before its own create; init    *)
(* gets on to a file's WriteFile only from a Stat that did not find it; a  *)
(* row is written only by the process whose run it belongs to, together    *)
(* with that process's memory; the texts of two times sort by their        *)
(* seconds; and each pass of Load decides a key from that key alone.       *)
(***************************************************************************)
EXTENDS Commands, TLAPS

Shape ==
    /\ DOMAIN pc = Procs /\ DOMAIN step = Procs /\ DOMAIN read = Procs
    /\ runs \subseteq Procs
    /\ started \in [Procs -> Nat] /\ now \in Nat

LEMMA InitShape == Init => Shape
  BY DEF Init, Shape, First

LEMMA StepShape == Shape /\ [Next]_vars => Shape'
  <1> SUFFICES ASSUME Shape, [Next]_vars PROVE Shape'
    OBVIOUS
  <1> USE DEF Shape, Goes, Turns, NextFile, Reconciled, First, disk, database,
              locals
  <1>1. ASSUME NEW p \in Procs, Process(p) PROVE Shape'
    <2>1. CASE Scaffold(p)
      BY <2>1 DEF Scaffold, StatFinds, StatMisses, Create, Fill
    <2>2. CASE LoadConfig(p) \/ LoadRefuses(p) \/ ParseFile(p)
      BY <2>2 DEF LoadConfig, LoadRefuses, ParseFile
    <2>3. CASE Migrate(p) \/ StoreIsOpen(p)
      BY <2>3 DEF Migrate, StoreIsOpen
    <2>4. CASE ListRuns(p) \/ ListFeatures(p)
      BY <2>4 DEF ListRuns, ListFeatures
    <2>5. CASE TakeStart(p) \/ CreateRun(p) \/ UpsertRow(p)
      BY <2>5 DEF TakeStart, CreateRun, UpsertRow
    <2>6. CASE StartFeature(p) \/ SettleFeature(p) \/ FinishRun(p)
      BY <2>6 DEF StartFeature, SettleFeature, FinishRun
    <2>7. CASE Dies(p) \/ NextCommand(p)
      BY <2>7 DEF Dies, NextCommand
    <2> QED
      BY <1>1, <2>1, <2>2, <2>3, <2>4, <2>5, <2>6, <2>7
      DEF Process, Open, Run
  <1>2. CASE Edit \/ Tick BY <1>2 DEF Edit, Tick
  <1>3. CASE UNCHANGED vars BY <1>3 DEF vars
  <1> QED BY <1>1, <1>2, <1>3 DEF Next

-----------------------------------------------------------------------------
(* The migration.                                                          *)

\* What the chunks before the n-th create.
Before(n) == UNION {Chunks[m].creates : m \in 1..(n - 1)}

SchemaInv ==
    \A p \in Procs :
        /\ pc[p] = "migrate" =>
               step[p] \in 1..(Len(Chunks) + 1) /\ Before(step[p]) \subseteq schema
        /\ pc[p] \in Opened => Objects \subseteq schema
        /\ pc[p] # "broken"

LEMMA BeforeNext ==
    ASSUME NEW n \in 1..Len(Chunks)
    PROVE  Before(n + 1) = Before(n) \cup Chunks[n].creates
  BY ChunksAssumption DEF Before

LEMMA BeforeEnds ==
    /\ Before(1) = {} /\ Before(Len(Chunks) + 1) = Objects
    /\ \A n \in 1..Len(Chunks) : Chunks[n].needs \subseteq Before(n)
  BY ChunksAssumption DEF Before, Objects

\* A step keeps SchemaInv if nothing is dropped and nobody gets into or on in
\* the migration, or out of it with an open store.
LEMMA SchemaKept ==
    ASSUME SchemaInv, schema \subseteq schema',
           \A p \in Procs :
               \/ pc'[p] = pc[p] /\ step'[p] = step[p]
               \/ pc'[p] \notin Opened \cup {"migrate", "broken"}
               \/ pc'[p] \in Opened /\ pc[p] \in Opened
               \/ pc'[p] = "migrate" /\ step'[p] = 1
    PROVE  SchemaInv'
  <1> SUFFICES ASSUME NEW p \in Procs
               PROVE  /\ pc'[p] = "migrate" =>
                           /\ step'[p] \in 1..(Len(Chunks) + 1)
                           /\ Before(step'[p]) \subseteq schema'
                      /\ pc'[p] \in Opened => Objects \subseteq schema'
                      /\ pc'[p] # "broken"
    BY DEF SchemaInv
  <1>1. Len(Chunks) \in Nat
    BY ChunksAssumption
  <1> QED BY <1>1, BeforeEnds DEF SchemaInv, Opened

LEMMA MigrateKeepsSchema ==
    ASSUME Shape, SchemaInv, NEW p \in Procs, Migrate(p) PROVE SchemaInv'
  <1> DEFINE n == step[p]
  <1>1. /\ pc[p] = "migrate" /\ n \in 1..Len(Chunks)
        /\ Before(n) \subseteq schema /\ Chunks[n].needs \subseteq Before(n)
    BY ChunksAssumption, BeforeEnds DEF Migrate, SchemaInv, Shape
  <1>2. /\ pc' = [pc EXCEPT ![p] = "migrate"]
        /\ step' = [step EXCEPT ![p] = n + 1]
        /\ schema \subseteq schema' /\ Chunks[n].creates \subseteq schema'
    BY <1>1 DEF Migrate, Goes, Turns, IsExecutable
  <1>3. Before(n + 1) \subseteq schema'
    BY <1>1, <1>2, BeforeNext
  <1>4. Len(Chunks) \in Nat
    BY ChunksAssumption
  <1>5. ASSUME NEW q \in Procs, q # p
        PROVE  pc'[q] = pc[q] /\ step'[q] = step[q]
    BY <1>2, <1>5 DEF Shape
  <1>6. pc'[p] = "migrate" /\ step'[p] = n + 1 /\ n + 1 \in 1..(Len(Chunks) + 1)
    BY <1>1, <1>2, <1>4 DEF Shape
  <1> QED BY <1>2, <1>3, <1>5, <1>6 DEF SchemaInv, Opened

LEMMA OpenKeepsSchema ==
    ASSUME Shape, SchemaInv, NEW p \in Procs, StoreIsOpen(p) PROVE SchemaInv'
  <1>1. pc[p] = "migrate" /\ step[p] > Len(Chunks) /\ schema' = schema
    BY DEF StoreIsOpen, database
  <1>2. step[p] = Len(Chunks) + 1
    BY <1>1, ChunksAssumption DEF SchemaInv, Shape
  <1>3. Objects \subseteq schema'
    BY <1>1, <1>2, BeforeEnds DEF SchemaInv
  <1>4. pc'[p] \in {"done", "list"}
        /\ \A q \in Procs \ {p} : pc'[q] = pc[q] /\ step'[q] = step[q]
    BY DEF StoreIsOpen, Turns, Goes, Shape
  <1> QED BY <1>1, <1>3, <1>4 DEF SchemaInv, Opened

LEMMA StepSchema == Shape /\ SchemaInv /\ [Next]_vars => SchemaInv'
  <1> SUFFICES ASSUME Shape, SchemaInv, [Next]_vars PROVE SchemaInv'
    OBVIOUS
  <1>1. ASSUME NEW p \in Procs, Process(p), ~Migrate(p), ~StoreIsOpen(p)
        PROVE  /\ schema' = schema
               /\ \A q \in Procs :
                     \/ pc'[q] = pc[q] /\ step'[q] = step[q]
                     \/ pc'[q] \notin Opened \cup {"migrate", "broken"}
                     \/ pc'[q] \in Opened /\ pc[q] \in Opened
                     \/ pc'[q] = "migrate" /\ step'[q] = 1
    <2> USE DEF Shape, Goes, Turns, NextFile, Reconciled, First, Opened, disk,
                database, locals
    <2>1. CASE Scaffold(p)
      BY <2>1 DEF Scaffold, StatFinds, StatMisses, Create, Fill
    <2>2. CASE LoadConfig(p) \/ LoadRefuses(p)
      BY <2>2 DEF LoadConfig, LoadRefuses
    <2>3. CASE ParseFile(p)
      BY <2>3 DEF ParseFile
    <2>4. CASE ListRuns(p) \/ ListFeatures(p)
      BY <2>4 DEF ListRuns, ListFeatures
    <2>5. CASE TakeStart(p) \/ CreateRun(p) \/ UpsertRow(p)
      BY <2>5 DEF TakeStart, CreateRun, UpsertRow
    <2>6. CASE StartFeature(p) \/ SettleFeature(p) \/ FinishRun(p)
      BY <2>6 DEF StartFeature, SettleFeature, FinishRun
    <2>7. CASE Dies(p) \/ NextCommand(p)
      BY <2>7 DEF Dies, NextCommand
    <2> QED
      BY <1>1, <2>1, <2>2, <2>3, <2>4, <2>5, <2>6, <2>7
      DEF Process, Open, Run
  <1>2. CASE Edit \/ Tick \/ UNCHANGED vars
    BY <1>2, SchemaKept DEF Edit, Tick, vars, database
  <1> QED
    BY <1>1, <1>2, SchemaKept, MigrateKeepsSchema, OpenKeepsSchema DEF Next

\* For all processes and migrations: an open store is whole, and no statement
\* of a migration is refused.
THEOREM OpenStoreIsWholeHolds == Spec => []OpenStoreIsWhole
  <1>1. Init => SchemaInv
    BY DEF Init, SchemaInv, First, Opened
  <1>2. SchemaInv => OpenStoreIsWhole
    BY DEF SchemaInv, OpenStoreIsWhole
  <1> QED BY <1>1, <1>2, InitShape, StepShape, StepSchema, PTL DEF Spec

-----------------------------------------------------------------------------
(* Times.                                                                  *)

\* For all clocks and time zones: the run that is read is not from an earlier
\* second than any other.
THEOREM NewestIsReadHolds == Spec => NewestIsRead
  <1>1. Shape /\ [Next]_vars =>
          [\A p \in Procs : read'[p] # read[p] =>
              \A r \in runs : started[r] \div Len(Fractions)
                                 <= started[read'[p]] \div Len(Fractions)]_vars
    <2> SUFFICES ASSUME Shape, Next, NEW p \in Procs, read'[p] # read[p],
                        NEW r \in runs
                 PROVE  started[r] \div Len(Fractions)
                           <= started[read'[p]] \div Len(Fractions)
      BY DEF vars, locals
    <2>1. ASSUME NEW q \in Procs, Process(q), ~ListRuns(q)
          PROVE  read' = read
      BY <2>1 DEF Process, Scaffold, StatFinds, StatMisses, Create, Fill, Open,
         LoadConfig, LoadRefuses, ParseFile, Migrate, StoreIsOpen,
         ListFeatures, Run, TakeStart, CreateRun, UpsertRow, StartFeature,
         SettleFeature, FinishRun, Dies, NextCommand, locals
    <2>2. ASSUME Edit \/ Tick PROVE read' = read
      BY <2>2 DEF Edit, Tick, locals
    <2>3. ASSUME NEW q \in Procs, ListRuns(q)
          PROVE  read'[p] \in ListedFirst
      BY <2>3 DEF ListRuns, Shape
    <2>4. read'[p] \in ListedFirst
      BY <2>1, <2>2, <2>3 DEF Next
    <2> DEFINE s == read'[p]
               d == Len(Fractions)
    <2>5. s \in runs /\ ~SortsAfter(StartedAt(r), StartedAt(s))
      BY <2>4 DEF ListedFirst
    <2>6. ~(Text(started[r]).second > Text(started[s]).second)
      BY <2>5 DEF SortsAfter, StartedAt, FmtTime
    <2>7. started[r] \in Nat /\ started[s] \in Nat /\ d \in Nat \ {0}
      BY <2>5, TimeAssumption DEF Shape
    <2>8. started[r] \div d \in Int /\ started[s] \div d \in Int
      BY <2>7
    <2> QED BY <2>6, <2>8 DEF Text
  <1> QED BY <1>1, InitShape, StepShape, PTL DEF Spec, NewestIsRead

-----------------------------------------------------------------------------
(* The files of the project.                                               *)

Disk == DOMAIN files = {"pave.yaml", "FEATURES.md"} /\ edits \in Nat

LEMMA StepDisk == Disk /\ [Next]_vars => Disk'
  <1> SUFFICES ASSUME Disk, [Next]_vars PROVE Disk'
    OBVIOUS
  <1> USE DEF Disk, disk
  <1>1. ASSUME NEW p \in Procs, Process(p) PROVE Disk'
    <2>1. CASE Scaffold(p)
      BY <2>1 DEF Scaffold, StatFinds, StatMisses, Create, Fill
    <2>2. CASE Open(p)
      BY <2>2 DEF Open, LoadConfig, LoadRefuses, ParseFile, Migrate, StoreIsOpen
    <2>3. CASE Run(p)
      BY <2>3 DEF Run, TakeStart, CreateRun, UpsertRow, StartFeature,
         SettleFeature, FinishRun
    <2>4. CASE ListRuns(p) \/ ListFeatures(p) \/ Dies(p) \/ NextCommand(p)
      BY <2>4 DEF ListRuns, ListFeatures, Dies, NextCommand
    <2> QED BY <1>1, <2>1, <2>2, <2>3, <2>4 DEF Process
  <1>2. CASE Edit \/ Tick \/ UNCHANGED vars
    BY <1>2 DEF Edit, Tick, vars
  <1> QED BY <1>1, <1>2 DEF Next

\* A process is between Stat and the end of WriteFile only with a file that it
\* did not find, and changes no other.
LEMMA OthersFiles ==
    ASSUME Shape, NEW p \in Procs, Process(p),
           NEW name \in Range(FileNames), Settled(name)
    PROVE  /\ files'[name] = files[name]
           /\ \A q \in Procs : pc'[q] \in {"create", "fill"} => File(q)' # name
  <1> USE DEF Shape, Goes, Turns, NextFile, Reconciled, First, disk, database,
              locals
  <1>1. CASE StatFinds(p)
    BY <1>1 DEF StatFinds, Settled, File
  <1>2. CASE StatMisses(p)
    <2>1. File(p) # name /\ files' = files /\ step' = step
      BY <1>2 DEF StatMisses, Settled
    <2>2. pc' = [pc EXCEPT ![p] = "create"]
      BY <1>2 DEF StatMisses
    <2>3. \A q \in Procs : File(q)' = File(q)
      BY <2>1 DEF File
    <2> QED BY <2>1, <2>2, <2>3 DEF Settled
  <1>3. CASE Create(p)
    <2>1. File(p) # name /\ step' = step /\ pc' = [pc EXCEPT ![p] = "fill"]
      BY <1>3 DEF Create, Settled
    <2>2. files'[name] = files[name]
      BY <1>3, <2>1 DEF Create
    <2>3. \A q \in Procs : File(q)' = File(q)
      BY <2>1 DEF File
    <2> QED BY <2>1, <2>2, <2>3 DEF Settled
  <1>4. CASE Fill(p)
    <2>1. File(p) # name
      BY <1>4 DEF Fill, Settled
    <2>2. files'[name] = files[name]
      BY <1>4, <2>1 DEF Fill
    <2>3. /\ pc'[p] \notin {"create", "fill"}
          /\ \A q \in Procs \ {p} : pc'[q] = pc[q] /\ step'[q] = step[q]
      BY <1>4 DEF Fill
    <2> QED BY <2>2, <2>3 DEF Settled, File
  <1>5. CASE ~Scaffold(p)
    <2>1. /\ files' = files /\ pc'[p] \notin {"create", "fill"}
          /\ \A q \in Procs \ {p} : pc'[q] = pc[q] /\ step'[q] = step[q]
      <3>1. CASE Open(p)
        BY <3>1 DEF Open, LoadConfig, LoadRefuses, ParseFile, Migrate,
           StoreIsOpen
      <3>2. CASE ListRuns(p) \/ ListFeatures(p)
        BY <3>2 DEF ListRuns, ListFeatures
      <3>3. CASE Run(p)
        BY <3>3 DEF Run, TakeStart, CreateRun, UpsertRow, StartFeature,
           SettleFeature, FinishRun
      <3>4. CASE Dies(p) \/ NextCommand(p)
        BY <3>4 DEF Dies, NextCommand
      <3> QED BY <1>5, <3>1, <3>2, <3>3, <3>4 DEF Process
    <2> QED BY <2>1 DEF Settled, File
  <1> QED BY <1>1, <1>2, <1>3, <1>4, <1>5 DEF Scaffold

LEMMA EditKeepsSettled ==
    ASSUME Disk, Edit \/ Tick \/ UNCHANGED vars,
           NEW name \in Range(FileNames), Settled(name)
    PROVE  Settled(name)' /\ (edits' = edits => files'[name] = files[name])
  <1>1. pc' = pc /\ \A q \in Procs : File(q)' = File(q)
    BY DEF Edit, Tick, vars, File
  <1>2. files'[name] # {}
    <2>1. CASE Edit
      <3>1. \/ \E file \in Written : files' = [files EXCEPT !["pave.yaml"] = {file}]
            \/ files' = [files EXCEPT !["FEATURES.md"] = {"text"}]
        BY <2>1 DEF Edit
      <3>2. name \in DOMAIN files /\ files[name] # {}
        BY DEF Range, FileNames, Disk, Settled
      <3> QED BY <3>1, <3>2
    <2>2. CASE Tick \/ UNCHANGED vars
      BY <2>2 DEF Tick, vars, disk, Settled
    <2> QED BY <2>1, <2>2
  <1>3. edits' = edits => files' = files
    BY DEF Edit, Tick, vars, disk, Disk
  <1> QED BY <1>1, <1>2, <1>3 DEF Settled

\* For all processes, commands and edits: what is there while no init is
\* between a Stat and its WriteFile is changed by the author only.
THEOREM InitKeepsFilesHolds == Spec => InitKeepsFiles
  <1>1. Shape /\ Disk /\ [Next]_vars =>
          [\A name \in Range(FileNames) :
              Settled(name) => /\ Settled(name)'
                               /\ edits' = edits => files'[name] = files[name]]_vars
    <2> SUFFICES ASSUME Shape, Disk, [Next]_vars,
                        NEW name \in Range(FileNames), Settled(name)
                 PROVE  /\ Settled(name)'
                        /\ edits' = edits => files'[name] = files[name]
      OBVIOUS
    <2>1. ASSUME NEW p \in Procs, Process(p)
          PROVE  Settled(name)' /\ files'[name] = files[name]
      BY <2>1, OthersFiles DEF Settled
    <2> QED BY <2>1, EditKeepsSettled DEF Next
  <1>2. Init => Disk
    BY TimeAssumption DEF Init, Disk
  <1> QED BY <1>1, <1>2, InitShape, StepShape, StepDisk, PTL
          DEF Spec, InitKeepsFiles

-----------------------------------------------------------------------------
(* The tables. What a process has written, only it has written.            *)

Rows ==
    /\ DOMAIN rows = Procs /\ \A p \in Procs : DOMAIN rows[p] = Ids
    /\ DOMAIN memory = Procs /\ DOMAIN turn = Procs

Writing == {"upsert", "work", "busy"}

\* The rows of p's run, and how far p is with them.
Owned(p) ==
    /\ turn[p] \in 1..Len(Script[p]) /\ step[p] \in Nat \ {0}
    /\ DOMAIN memory[p] \in {{}, Ids}
    /\ \A g \in DOMAIN memory[p] : memory[p][g] # "absent"
    /\ p \in runs => Command(p) = "run" /\ pc[p] \in Writing \cup Ended
    /\ pc[p] \in {"stamp", "insert"} \cup Writing => Command(p) = "run"
    /\ pc[p] \in Writing => p \in runs
    /\ \A g \in Ids : rows[p][g] # "absent" =>
          p \in runs /\ g \in DOMAIN memory[p] /\ rows[p][g] = memory[p][g]
    /\ pc[p] \in {"work", "busy"} =>
          \A g \in DOMAIN memory[p] : rows[p][g] # "absent"
    /\ pc[p] = "upsert" =>
          /\ step[p] \in 1..Len(Features) /\ DOMAIN memory[p] = Ids
          /\ \A n \in 1..(step[p] - 1) : rows[p][Features[n]] # "absent"
    /\ pc[p] = "busy" =>
          step[p] \in 1..Len(Features) /\ Features[step[p]] \in DOMAIN memory[p]

TableInv == Shape /\ Rows /\ \A p \in Procs : Owned(p)

LEMMA LenFeatures == Len(Features) \in Nat
  BY FeaturesAssumption

LEMMA FirstFeature == Ids # {} => 1 \in 1..Len(Features)
  BY LenFeatures DEF Ids

\* The conflict on ID and run picks one row: the one of the run.
LEMMA UpsertIsOwn ==
    ASSUME Rows, NEW p \in Procs, NEW g \in Ids, NEW status, Upsert(p, g, status)
    PROVE  /\ DOMAIN rows' = Procs /\ \A q \in Procs : DOMAIN rows'[q] = Ids
           /\ \A q \in Procs \ {p} : rows'[q] = rows[q]
           /\ rows'[p][g] = status
           /\ \A h \in Ids \ {g} : rows'[p][h] = rows[p][h]
  <1> DEFINE hit == {r \in Procs : rows[r][g] # "absent" /\ Conflicts(r, p)}
  <1>1. \A r \in Procs : (r \in hit \/ (hit = {} /\ r = p)) <=> r = p
    BY DEF Conflicts
  <1>2. rows' = [r \in Procs |->
                    IF r \in hit \/ (hit = {} /\ r = p)
                    THEN [rows[r] EXCEPT ![g] = status] ELSE rows[r]]
    BY DEF Upsert
  <1> QED BY <1>1, <1>2 DEF Rows

LEMMA InitTable == Init => TableInv
  BY InitShape, ProcsAssumption
  DEF Init, TableInv, Rows, Owned, First, Writing, Ended, Command

\* A step of p leaves alone what the other processes own, and where they are.
Others(p) ==
    /\ Rows'
    /\ \A q \in Procs \ {p} :
          /\ pc'[q] = pc[q] /\ step'[q] = step[q] /\ turn'[q] = turn[q]
          /\ memory'[q] = memory[q] /\ rows'[q] = rows[q]
          /\ q \in runs' <=> q \in runs

LEMMA OthersKept ==
    ASSUME TableInv, NEW p \in Procs, Process(p)
    PROVE  Others(p)
  <1> USE DEF TableInv, Shape, Rows, Others, Goes, Turns, NextFile, Reconciled,
              disk, database, locals
  <1>1. CASE Scaffold(p)
    BY <1>1 DEF Scaffold, StatFinds, StatMisses, Create, Fill
  <1>2. CASE LoadConfig(p) \/ LoadRefuses(p) \/ ParseFile(p)
    BY <1>2 DEF LoadConfig, LoadRefuses, ParseFile
  <1>3. CASE Migrate(p) \/ StoreIsOpen(p)
    BY <1>3 DEF Migrate, StoreIsOpen
  <1>4. CASE ListRuns(p) \/ ListFeatures(p)
    BY <1>4 DEF ListRuns, ListFeatures
  <1>5. CASE TakeStart(p) \/ CreateRun(p)
    BY <1>5 DEF TakeStart, CreateRun
  <1>6. CASE UpsertRow(p)
    <2>1. step[p] \in 1..Len(Features)
      BY <1>6 DEF UpsertRow, Owned
    <2>2. Features[step[p]] \in Ids
      BY <2>1 DEF Ids
    <2> QED BY <1>6, <2>2, UpsertIsOwn DEF UpsertRow
  <1>7. CASE StartFeature(p)
    <2>1. PICK n \in step[p]..Len(Features) :
             /\ SetStatus(p, Features[n], "in_progress")
             /\ Turns(p, "busy", n)
      BY <1>7 DEF StartFeature
    <2>2. step[p] \in Nat \ {0}
      BY DEF Owned
    <2>3. n \in 1..Len(Features)
      BY <2>1, <2>2, LenFeatures
    <2>4. Features[n] \in Ids
      BY <2>3 DEF Ids
    <2> QED BY <1>7, <2>1, <2>4, UpsertIsOwn DEF StartFeature, SetStatus
  <1>8. CASE SettleFeature(p)
    <2>1. step[p] \in 1..Len(Features)
      BY <1>8 DEF SettleFeature, Owned
    <2>2. Features[step[p]] \in Ids
      BY <2>1 DEF Ids
    <2> QED BY <1>8, <2>2, UpsertIsOwn DEF SettleFeature, SetStatus
  <1>9. CASE FinishRun(p) \/ Dies(p) \/ NextCommand(p)
    BY <1>9 DEF FinishRun, Dies, NextCommand
  <1> QED
    BY <1>1, <1>2, <1>3, <1>4, <1>5, <1>6, <1>7, <1>8, <1>9
    DEF Process, Open, Run

\* A process that owns no rows yet may change its memory.
LEMMA BeforeRun ==
    ASSUME NEW p \in Procs, Owned(p), pc[p] \notin Writing \cup Ended
    PROVE  p \notin runs /\ \A g \in Ids : rows[p][g] = "absent"
  BY DEF Owned

LEMMA ReadingKeeps ==
    ASSUME NEW p \in Procs, Owned(p), pc[p] \notin Writing \cup Ended,
           turn'[p] = turn[p], rows' = rows, runs' = runs,
           step'[p] \in Nat \ {0},
           DOMAIN memory'[p] \in {{}, Ids},
           \A g \in DOMAIN memory'[p] : memory'[p][g] # "absent",
           pc'[p] \notin {"insert"} \cup Writing,
           pc'[p] = "stamp" => Command(p) = "run"
    PROVE  Owned(p)'
  <1>1. p \notin runs /\ \A g \in Ids : rows[p][g] = "absent"
    BY BeforeRun
  <1> QED BY <1>1 DEF Owned, Command, Writing

LEMMA OwnKept ==
    ASSUME TableInv, NEW p \in Procs, Process(p)
    PROVE  Owned(p)'
  <1> USE DEF TableInv, Shape, Rows, Owned, Goes, Turns, NextFile, Reconciled,
              disk, database, locals, Writing, Ended, Command
  <1>1. CASE Scaffold(p)
    BY <1>1 DEF Scaffold, StatFinds, StatMisses, Create, Fill, FileNames
  <1>2. CASE LoadConfig(p) \/ LoadRefuses(p)
    <2>1. /\ pc[p] = "load" /\ pc'[p] \in {"migrate", "parse", "failed"}
          /\ step'[p] = 1
          /\ turn' = turn /\ rows' = rows /\ runs' = runs /\ memory' = memory
      BY <1>2 DEF LoadConfig, LoadRefuses
    <2>2. /\ Owned(p) /\ step[p] \in Nat \ {0} /\ DOMAIN memory[p] \in {{}, Ids}
          /\ \A g \in DOMAIN memory[p] : memory[p][g] # "absent"
      OBVIOUS
    <2> HIDE DEF Owned, TableInv, Shape, Rows
    <2> QED BY <2>1, <2>2, ReadingKeeps
  <1>3. CASE ParseFile(p)
    <2>1. /\ pc[p] = "parse" /\ pc'[p] \in {"migrate", "failed"}
          /\ step'[p] = 1 /\ turn' = turn /\ rows' = rows /\ runs' = runs
      BY <1>3 DEF ParseFile
    <2>2. \E S \in {{}, Ids} : memory'[p] = [g \in S |-> "pending"]
      BY <1>3 DEF ParseFile
    <2>3. Owned(p)
      OBVIOUS
    <2>4. DOMAIN memory'[p] \in {{}, Ids}
          /\ \A g \in DOMAIN memory'[p] : memory'[p][g] # "absent"
      BY <2>2
    <2> HIDE DEF Owned, TableInv, Shape, Rows
    <2> QED BY <2>1, <2>3, <2>4, ReadingKeeps
  <1>4. CASE Migrate(p) \/ StoreIsOpen(p)
    BY <1>4, ChunksAssumption DEF Migrate, StoreIsOpen
  <1>5. CASE ListRuns(p)
    <2>1. /\ pc[p] = "list" /\ pc'[p] \in {"features", "stamp", "done"}
          /\ pc'[p] = "stamp" => Command(p) = "run"
          /\ step' = step
          /\ turn' = turn /\ rows' = rows /\ runs' = runs /\ memory' = memory
      BY <1>5 DEF ListRuns
    <2>2. /\ Owned(p) /\ step[p] \in Nat \ {0} /\ DOMAIN memory[p] \in {{}, Ids}
          /\ \A g \in DOMAIN memory[p] : memory[p][g] # "absent"
      OBVIOUS
    <2> HIDE DEF Owned, TableInv, Shape, Rows
    <2> QED BY <2>1, <2>2, ReadingKeeps
  <1>6. CASE ListFeatures(p)
    BY <1>6, BeforeRun DEF ListFeatures
  <1>7. CASE TakeStart(p)
    BY <1>7 DEF TakeStart
  <1>8. CASE CreateRun(p)
    <2>1. \A g \in Ids : rows[p][g] = "absent"
      BY <1>8, BeforeRun DEF CreateRun
    <2>2. DOMAIN memory[p] # {} =>
             DOMAIN memory[p] = Ids /\ 1 \in 1..Len(Features)
      BY FirstFeature
    <2> QED BY <1>8, <2>1, <2>2 DEF CreateRun
  <1>9. CASE UpsertRow(p)
    <2> DEFINE k == step[p]
    <2>1. /\ pc[p] = "upsert" /\ k \in 1..Len(Features) /\ p \in runs
          /\ DOMAIN memory[p] = Ids /\ memory' = memory /\ runs' = runs
          /\ turn' = turn
          /\ \A n \in 1..(k - 1) : rows[p][Features[n]] # "absent"
      BY <1>9 DEF UpsertRow
    <2>2. Features[k] \in Ids /\ \A n \in 1..Len(Features) : Features[n] \in Ids
      BY <2>1 DEF Ids
    <2>3. /\ rows'[p][Features[k]] = memory[p][Features[k]]
          /\ \A h \in Ids \ {Features[k]} : rows'[p][h] = rows[p][h]
      BY <1>9, <2>2, UpsertIsOwn DEF UpsertRow
    <2>4. ASSUME NEW n \in 1..k PROVE rows'[p][Features[n]] # "absent"
      <3>1. CASE Features[n] = Features[k]
        BY <2>1, <2>2, <2>3, <3>1
      <3>2. CASE Features[n] # Features[k]
        <4>1. n \in 1..(k - 1) /\ n \in 1..Len(Features)
          BY <2>1, <3>2, LenFeatures
        <4> QED BY <2>1, <2>2, <2>3, <3>2, <4>1
      <3> QED BY <3>1, <3>2
    <2>5. CASE k < Len(Features)
      <3>1. pc'[p] = "upsert" /\ step'[p] = k + 1
        BY <1>9, <2>5 DEF UpsertRow
      <3>2. (k + 1) - 1 = k /\ k + 1 \in 1..Len(Features)
        BY <2>1, <2>5, LenFeatures
      <3>3. \A n \in 1..(step'[p] - 1) : rows'[p][Features[n]] # "absent"
        BY <2>4, <3>1, <3>2
      <3>4. \A g \in Ids : rows'[p][g] # "absent" =>
               p \in runs' /\ g \in DOMAIN memory'[p]
               /\ rows'[p][g] = memory'[p][g]
        BY <2>1, <2>2, <2>3
      <3>5. step'[p] \in 1..Len(Features) /\ step'[p] \in Nat \ {0}
        BY <3>1, <3>2, LenFeatures
      <3> QED BY <2>1, <3>1, <3>3, <3>4, <3>5
    <2>6. CASE ~(k < Len(Features))
      <3>1. pc'[p] = "work" /\ step'[p] = 1
        BY <1>9, <2>6 DEF UpsertRow
      <3>2. k = Len(Features)
        BY <2>1, <2>6, LenFeatures
      <3>3. \A g \in Ids : rows'[p][g] # "absent"
        BY <2>4, <3>2 DEF Ids
      <3> QED BY <2>1, <2>2, <2>3, <3>1, <3>3
    <2> QED BY <2>5, <2>6
  <1>10. CASE StartFeature(p)
    <2>1. PICK n \in step[p]..Len(Features) :
             /\ Features[n] \in DOMAIN memory[p]
             /\ SetStatus(p, Features[n], "in_progress")
             /\ Turns(p, "busy", n)
      BY <1>10 DEF StartFeature
    <2>0. step[p] \in Nat \ {0}
      OBVIOUS
    <2>2. n \in 1..Len(Features)
      BY <2>0, <2>1, LenFeatures
    <2>5. Features[n] \in Ids
      BY <2>2 DEF Ids
    <2>3. /\ rows'[p][Features[n]] = "in_progress"
          /\ \A h \in Ids \ {Features[n]} : rows'[p][h] = rows[p][h]
      BY <2>1, <2>5, UpsertIsOwn DEF SetStatus
    <2>4. memory' = [memory EXCEPT ![p][Features[n]] = "in_progress"]
      BY <2>1 DEF SetStatus
    <2>6. /\ pc[p] = "work" /\ pc'[p] = "busy" /\ step'[p] = n
          /\ runs' = runs /\ turn' = turn
      BY <1>10, <2>1 DEF StartFeature
    <2>7. /\ DOMAIN memory'[p] = DOMAIN memory[p]
          /\ memory'[p][Features[n]] = "in_progress"
          /\ \A g \in DOMAIN memory[p] \ {Features[n]} :
                memory'[p][g] = memory[p][g]
      BY <2>1, <2>4
    <2>8. \A g \in Ids : rows'[p][g] # "absent" =>
             p \in runs' /\ g \in DOMAIN memory'[p]
             /\ rows'[p][g] = memory'[p][g]
      BY <2>1, <2>3, <2>6, <2>7
    <2>9. \A g \in DOMAIN memory'[p] : rows'[p][g] # "absent"
      BY <2>3, <2>6, <2>7
    <2>10. n \in Nat \ {0}
      BY <2>2, LenFeatures
    <2>11. \A g \in DOMAIN memory'[p] : memory'[p][g] # "absent"
      BY <2>7
    <2> QED BY <2>1, <2>2, <2>6, <2>7, <2>8, <2>9, <2>10, <2>11
  <1>11. CASE SettleFeature(p)
    <2> DEFINE g == Features[step[p]]
    <2>1. PICK status \in Statuses : SetStatus(p, g, status)
      BY <1>11 DEF SettleFeature
    <2>2. g \in Ids /\ g \in DOMAIN memory[p] /\ status # "absent"
      BY <1>11 DEF SettleFeature, Ids, Statuses
    <2>3. /\ rows'[p][g] = status
          /\ \A h \in Ids \ {g} : rows'[p][h] = rows[p][h]
      BY <2>1, <2>2, UpsertIsOwn DEF SetStatus
    <2>4. memory' = [memory EXCEPT ![p][g] = status]
      BY <2>1 DEF SetStatus
    <2> QED BY <1>11, <2>2, <2>3, <2>4 DEF SettleFeature
  <1>12. CASE FinishRun(p) \/ Dies(p)
    BY <1>12 DEF FinishRun, Dies
  <1>13. CASE NextCommand(p)
    BY <1>13, ProcsAssumption DEF NextCommand, First
  <1> QED
    BY <1>1, <1>2, <1>3, <1>4, <1>5, <1>6, <1>7, <1>8, <1>9, <1>10, <1>11,
       <1>12, <1>13
    DEF Process, Scaffold, Open, Run

LEMMA StepTable == TableInv /\ [Next]_vars => TableInv'
  <1> SUFFICES ASSUME TableInv, [Next]_vars PROVE TableInv'
    OBVIOUS
  <1>1. Shape'
    BY StepShape DEF TableInv
  <1>2. ASSUME NEW p \in Procs, Process(p) PROVE TableInv'
    <2>1. Owned(p)' /\ Others(p)
      BY <1>2, OthersKept, OwnKept
    <2>2. ASSUME NEW q \in Procs, q # p PROVE Owned(q)'
      BY <2>1, <2>2 DEF Others, TableInv, Owned, Command
    <2> QED BY <1>1, <2>1, <2>2 DEF TableInv, Others
  <1>3. CASE Edit \/ Tick \/ UNCHANGED vars
    BY <1>1, <1>3
    DEF Edit, Tick, vars, locals, database, TableInv, Rows, Owned, Command
  <1> QED BY <1>2, <1>3 DEF Next

\* For all processes: what a process holds in memory stands in the rows of its
\* run, and they are all there when it works on the features.
THEOREM TableIsMemoryHolds == Spec => []TableIsMemory
  <1>1. TableInv => TableIsMemory
    BY DEF TableInv, Rows, Owned, TableIsMemory
  <1> QED BY <1>1, InitTable, StepTable, PTL DEF Spec

-----------------------------------------------------------------------------
(* The configuration.                                                      *)

\* The keys that ApplyDefaults leaves alone have the zero value as default,
\* except for max_retries.
LEMMA NotCoerced ==
    \A k \in Keys \ Coerced : k # "max_retries" => Default[k] = Zero(k)
  <1>1. Keys \ Coerced \subseteq
           {"fallback_provider", "model", "effort", "auto_commit", "max_retries"}
    BY DEF Keys, Coerced, Default
  <1>2. /\ Default["fallback_provider"] = "" /\ Default["model"] = ""
        /\ Default["effort"] = "" /\ Default["auto_commit"] = FALSE
    BY DEF Default
  <1>3. /\ Zero("fallback_provider") = "" /\ Zero("model") = ""
        /\ Zero("effort") = "" /\ Zero("auto_commit") = FALSE
    BY DEF Zero, Numbers
  <1> QED BY <1>1, <1>2, <1>3

\* Before the paths are resolved, each key has what is said of it.
LEMMA OverriddenIsMeant ==
    ASSUME NEW file, NEW env \in [driver : STRING, dsn : STRING], NEW k \in Keys
    PROVE  ApplyEnvOverrides(ApplyDefaults(Unmarshal(file)), env)[k]
             = Meant(k, file, env)
  <1> DEFINE u == Unmarshal(file)
             d == ApplyDefaults(u)
             e == ApplyEnvOverrides(d, env)
  <1>1. u[k] = IF k \in DOMAIN file THEN file[k] ELSE Default[k]
    BY DEF Unmarshal
  <1>2. d[k] = IF k \in Coerced /\ u[k] = Zero(k) THEN Default[k] ELSE u[k]
    BY DEF ApplyDefaults
  <1>3. e[k] = IF k \in {"driver", "dsn"} /\ env[k] # "" THEN env[k] ELSE d[k]
    BY DEF ApplyEnvOverrides
  <1>4. k \in DOMAIN env <=> k \in {"driver", "dsn"}
    OBVIOUS
  <1>5. "max_retries" \notin Coerced
    BY DEF Coerced
  <1>6. k \notin Coerced /\ k # "max_retries" => Default[k] = Zero(k)
    BY NotCoerced
  <1> HIDE DEF u, d, e
  <1>7. e[k] = Meant(k, file, env)
    BY <1>1, <1>2, <1>3, <1>4, <1>5, <1>6 DEF Meant
  <1> QED BY <1>7 DEF e, d, u

LEMMA LoadedIsDocumented ==
    ASSUME NEW file, NEW env \in [driver : STRING, dsn : STRING], NEW k \in Keys
    PROVE  Loaded(file, env)[k] = AsDocumented(k, file, env)
  <1> DEFINE e == ApplyEnvOverrides(ApplyDefaults(Unmarshal(file)), env)
  <1>1. e[k] = Meant(k, file, env)
    BY OverriddenIsMeant
  <1>2. e["driver"] = Meant("driver", file, env)
    <2>1. "driver" \in Keys BY DEF Keys, Default
    <2> QED BY <2>1, OverriddenIsMeant
  <1>3. Loaded(file, env) = ResolvePaths(e)
    BY DEF Loaded
  <1> HIDE DEF e
  <1>4. ResolvePaths(e)[k] =
          IF \/ k = "project_path" /\ IsRelativePath(e[k])
             \/ k = "dsn" /\ e["driver"] = "sqlite" /\ IsRelativePath(e[k])
          THEN Abs[e[k]] ELSE e[k]
    BY DEF ResolvePaths
  <1> QED BY <1>1, <1>2, <1>3, <1>4 DEF AsDocumented

\* For all files and environments, whatever relative paths there are: each key
\* that a command loads has the value that the documentation names.
THEOREM LoadedAsDocumentedHolds == Spec => []LoadedAsDocumented
  <1>1. LoadedAsDocumented
    <2>1. \A p \in Procs : Env[p] \in [driver : STRING, dsn : STRING]
      BY ProcsAssumption
    <2> QED BY <2>1, LoadedIsDocumented DEF LoadedAsDocumented
  <1> QED BY <1>1, PTL DEF Spec
=============================================================================
