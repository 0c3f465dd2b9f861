-------------------------- MODULE ConfigStoreProofs --------------------------
(***************************************************************************)
(* Theorems about ConfigStore, for any configurations and sizes, and any   *)
(* number of failing blob operations and power failures: the store         *)
(* implements AtomicConfig, and what was reported as saved survives a      *)
(* restart.                                                                *)
(***************************************************************************)
EXTENDS ConfigStore, TLAPS

StoreTypes ==
  /\ meta \in [set : Sets, cfg : Configs \cup {NoConfig}]
  /\ meta.cfg = NoConfig => meta = NoMeta
  /\ chunk \in [Sets -> [Index -> Configs \cup {NoConfig}]]
  /\ legacy \in Configs \cup {NoConfig} /\ old \in Configs \cup {NoConfig}
  /\ stage \in {"off", "load", "legacy", "idle", "clear", "write", "dual"}
  /\ job \in [cfg : Configs \cup {NoConfig}, target : Sets, at : Nat,
              blind : BOOLEAN, convert : BOOLEAN]

\* The job of a save is a configuration; otherwise there is none.
Working ==
  /\ stage \in {"clear", "write", "dual"} => job.cfg \in Configs
  /\ stage \notin {"clear", "write", "dual"} => job = NoJob

\* A save that has read the meta blob keeps away from the active set.
Apart == Writing /\ ~job.blind /\ meta # NoMeta => job.target # meta.set

\* The chunks that a save has written are there, so the meta blob may follow.
Written ==
  stage = "write" =>
    /\ job.at <= ChunksOf[job.cfg]
    /\ \A i \in Index : i < job.at => chunk[job.target][i] = job.cfg

StoreInv == StoreTypes /\ Working /\ Apart /\ Written

-----------------------------------------------------------------------------
(* The types, and the state of a save *)

LEMMA Sizes ==
  ASSUME NEW c \in Configs
  PROVE  ChunksOf[c] \in Nat /\ ChunksOf[c] <= MaxChunks /\ MaxChunks \in Nat
  BY StoreAssumption

LEMMA NoJobFields ==
  /\ NoJob \in [cfg : Configs \cup {NoConfig}, target : Sets, at : Nat,
                blind : BOOLEAN, convert : BOOLEAN]
  /\ NoJob.convert = FALSE
  BY DEF NoJob, Sets

LEMMA InitInv == Init => StoreInv
<1> SUFFICES ASSUME Init PROVE StoreInv
  OBVIOUS
<1>1. StoreTypes
  BY NoJobFields, StoreAssumption DEF Init, StoreTypes, NoMeta, Sets
<1> QED BY <1>1 DEF Init, StoreInv, Working, Apart, Written, Writing

\* The beginning of a save.
LEMMA StartInv ==
  ASSUME StoreInv, NEW cfg \in Configs, NEW convert \in BOOLEAN, StartSave(cfg, convert),
         UNCHANGED flash
  PROVE  /\ StoreInv' /\ stage' = "clear" /\ job'.cfg = cfg /\ job'.convert = convert
         /\ job'.blind \in BOOLEAN
         /\ job'.blind => excused'
<1> USE DEF StoreInv, StoreTypes
<1>1. PICK out \in {"done", "refused"} :
        /\ stage' = "clear"
        /\ job' = [cfg |-> cfg, target |-> IF out = "done" THEN Inactive ELSE "A", at |-> 0,
                   blind |-> out # "done", convert |-> convert]
        /\ excused' = (excused \/ out # "done")
  BY DEF StartSave
<1>2. Inactive \in Sets /\ (meta # NoMeta => Inactive # meta.set)
  BY DEF Inactive, Sets
<1>3. /\ job'.cfg = cfg /\ job'.convert = convert /\ job'.blind = (out # "done")
      /\ job'.target = IF out = "done" THEN Inactive ELSE "A"
  BY <1>1
<1>4. job' \in [cfg : Configs \cup {NoConfig}, target : Sets, at : Nat,
                blind : BOOLEAN, convert : BOOLEAN]
  BY <1>1, <1>2 DEF Sets
<1>5. UNCHANGED <<meta, chunk, legacy, old>>
  BY DEF flash
<1>6. StoreTypes'
  BY <1>1, <1>4, <1>5
<1>7. Working' /\ Apart' /\ Written'
  BY <1>1, <1>2, <1>3, <1>5 DEF Working, Apart, Written, Writing
<1> QED BY <1>1, <1>3, <1>6, <1>7

\* The end of a save or of a conversion that does not get to its JSON blob.
LEMMA AbandonStops == Abandon => stage' = "idle" /\ job' = NoJob
  BY DEF Abandon, Up

\* A step after which no save is under way.
LEMMA RestInv ==
  ASSUME StoreTypes', stage' \notin {"clear", "write", "dual"}, job' = NoJob
  PROVE  StoreInv'
  BY DEF StoreInv, Working, Apart, Written, Writing

LEMMA ClearInv == StoreInv /\ Clear => StoreInv'
<1> SUFFICES ASSUME StoreInv, Clear PROVE StoreInv'
  OBVIOUS
<1> USE DEF StoreInv, StoreTypes
<1>1. stage = "clear" /\ UNCHANGED <<meta, legacy, old>>
  BY DEF Clear
<1>2. ASSUME job.at \in Index, chunk' = [chunk EXCEPT ![job.target][job.at] = NoConfig] \/ chunk' = chunk
      PROVE  chunk' \in [Sets -> [Index -> Configs \cup {NoConfig}]]
  BY <1>2
<1>3. CASE /\ job.at \in Index
           /\ chunk' = [chunk EXCEPT ![job.target][job.at] = NoConfig] \/ chunk' = chunk
           /\ job' = [job EXCEPT !.at = @ + 1] /\ stage' = stage
  BY <1>1, <1>2, <1>3 DEF Working, Apart, Written, Writing
<1>4. CASE /\ job.at \in Index
           /\ chunk' = [chunk EXCEPT ![job.target][job.at] = NoConfig] \/ chunk' = chunk
           /\ Abandon
  <2>1. StoreTypes'
    BY <1>1, <1>2, <1>4, AbandonStops, NoJobFields
  <2> QED BY <1>4, <2>1, AbandonStops, RestInv
<1>5. CASE stage' = "write" /\ job' = [job EXCEPT !.at = 0] /\ chunk' = chunk
  <2>1. /\ job'.cfg = job.cfg /\ job'.target = job.target /\ job'.blind = job.blind /\ job'.at = 0
        /\ job' \in [cfg : Configs \cup {NoConfig}, target : Sets, at : Nat,
                     blind : BOOLEAN, convert : BOOLEAN]
    BY <1>5
  <2>2. job.cfg \in Configs
    BY <1>1 DEF Working
  <2>3. StoreTypes'
    BY <1>1, <1>5, <2>1
  <2>4. Written'
    BY <1>5, <2>1, <2>2, Sizes DEF Written, Index
  <2> QED BY <1>1, <1>5, <2>1, <2>2, <2>3, <2>4 DEF Working, Apart, Writing
<1> QED BY <1>3, <1>4, <1>5 DEF Clear

LEMMA WriteInv == StoreInv /\ WriteChunk => StoreInv'
<1> SUFFICES ASSUME StoreInv, WriteChunk PROVE StoreInv'
  OBVIOUS
<1> USE DEF StoreInv, StoreTypes
<1>1. /\ stage = "write" /\ UNCHANGED <<meta, legacy, old>> /\ job.cfg \in Configs
      /\ job.at < ChunksOf[job.cfg]
  BY DEF WriteChunk, Working
<1>2. job.at \in Index
  BY <1>1, Sizes DEF Index
<1>3. \/ chunk' = [chunk EXCEPT ![job.target][job.at] = job.cfg] \/ chunk' = chunk
  BY DEF WriteChunk
<1>4. chunk' \in [Sets -> [Index -> Configs \cup {NoConfig}]]
  BY <1>1, <1>2, <1>3
<1>5. CASE Abandon
  <2>1. StoreTypes'
    BY <1>1, <1>4, <1>5, AbandonStops, NoJobFields
  <2> QED BY <1>5, <2>1, AbandonStops, RestInv
<1>6. CASE /\ chunk' = [chunk EXCEPT ![job.target][job.at] = job.cfg]
           /\ job' = [job EXCEPT !.at = @ + 1] /\ stage' = stage
  <2>1. /\ job'.cfg = job.cfg /\ job'.target = job.target /\ job'.blind = job.blind
        /\ job'.at = job.at + 1
        /\ job' \in [cfg : Configs \cup {NoConfig}, target : Sets, at : Nat,
                     blind : BOOLEAN, convert : BOOLEAN]
    BY <1>6
  <2>2. StoreTypes'
    BY <1>1, <1>4, <1>6, <2>1
  <2>3. Written'
    <3>1. job.at + 1 <= ChunksOf[job.cfg]
      BY <1>1, Sizes
    <3>2. \A i \in Index : i < job.at + 1 => i = job.at \/ i < job.at
      BY DEF Index
    <3>3. \A i \in Index : i < job.at + 1 => chunk'[job.target][i] = job.cfg
      BY <1>1, <1>2, <1>6, <3>2 DEF Written
    <3> QED BY <2>1, <3>1, <3>3 DEF Written
  <2> QED BY <1>1, <1>6, <2>1, <2>2, <2>3 DEF Working, Apart, Writing
<1>7. Abandon \/ (/\ chunk' = [chunk EXCEPT ![job.target][job.at] = job.cfg]
                  /\ job' = [job EXCEPT !.at = @ + 1] /\ stage' = stage)
  BY DEF WriteChunk, Lands
<1> QED BY <1>5, <1>6, <1>7

LEMMA MetaInv == StoreInv /\ WriteMeta => StoreInv'
<1> SUFFICES ASSUME StoreInv, WriteMeta PROVE StoreInv'
  OBVIOUS
<1> USE DEF StoreInv, StoreTypes
<1>1. /\ stage = "write" /\ UNCHANGED <<chunk, legacy, old>> /\ job.cfg \in Configs
      /\ meta' = [set |-> job.target, cfg |-> job.cfg] \/ meta' = meta
  BY DEF WriteMeta, Working
<1>2. /\ meta' \in [set : Sets, cfg : Configs \cup {NoConfig}]
      /\ meta'.cfg = NoConfig => meta' = NoMeta
  BY <1>1, StoreAssumption
<1>3. CASE Abandon
  <2>1. StoreTypes'
    BY <1>1, <1>2, <1>3, AbandonStops, NoJobFields
  <2> QED BY <1>3, <2>1, AbandonStops, RestInv
<1>4. CASE stage' = "dual" /\ job' = job
  BY <1>1, <1>2, <1>4 DEF Working, Apart, Written, Writing
<1> QED BY <1>3, <1>4 DEF WriteMeta

LEMMA StoreStep == StoreInv /\ [Next]_vars => StoreInv'
<1> SUFFICES ASSUME StoreInv, [Next]_vars PROVE StoreInv'
  OBVIOUS
<1>1. CASE Save
  BY <1>1, StartInv DEF Save
<1>2. CASE Clear \/ WriteChunk \/ WriteMeta
  BY <1>2, ClearInv, WriteInv, MetaInv
<1>3. CASE DualWrite
  <2>1. stage' = "idle" /\ job' = NoJob /\ UNCHANGED <<meta, chunk, old>>
    BY <1>3 DEF DualWrite, Up
  <2>2. legacy' \in Configs \cup {NoConfig}
    BY <1>3, StoreAssumption DEF DualWrite, StoreInv, StoreTypes
  <2>3. StoreTypes'
    BY <2>1, <2>2, NoJobFields DEF StoreInv, StoreTypes
  <2> QED BY <2>1, <2>3, RestInv
<1>4. CASE Migrate
  <2>1. stage = "off" /\ stage' = "load" /\ UNCHANGED <<meta, chunk, old, job>>
    BY <1>4 DEF Migrate
  <2>2. legacy' \in Configs \cup {NoConfig}
    BY <1>4 DEF Migrate, StoreInv, StoreTypes
  <2>3. job = NoJob
    BY <2>1 DEF StoreInv, Working
  <2>4. StoreTypes'
    BY <2>1, <2>2, <2>3, NoJobFields DEF StoreInv, StoreTypes
  <2> QED BY <2>1, <2>3, <2>4, RestInv
<1>5. CASE LoadChunks \/ LoadDefault
  <2>1. /\ stage \in {"load", "legacy"} /\ stage' \in {"idle", "legacy"}
        /\ job' \in {job, NoJob} /\ UNCHANGED flash
    BY <1>5 DEF LoadChunks, LoadDefault, Up
  <2>2. job' = NoJob
    BY <2>1 DEF StoreInv, Working
  <2>3. StoreTypes'
    BY <2>1, <2>2, NoJobFields DEF StoreInv, StoreTypes, flash
  <2> QED BY <2>1, <2>2, <2>3, RestInv
<1>6. CASE LoadLegacy
  <2>1. legacy \in Configs
    BY <1>6 DEF LoadLegacy, StoreInv, StoreTypes
  <2> QED BY <1>6, <2>1, StartInv DEF LoadLegacy
<1>7. CASE Restart
  <2>1. stage' = "off" /\ job' = NoJob /\ UNCHANGED flash
    BY <1>7 DEF Restart
  <2>2. StoreTypes'
    BY <2>1, NoJobFields DEF StoreInv, StoreTypes, flash
  <2> QED BY <2>1, <2>2, RestInv
<1>8. CASE UNCHANGED vars
  BY <1>8 DEF vars, flash, StoreInv, StoreTypes, Working, Apart, Written, Writing
<1> QED BY <1>1, <1>2, <1>3, <1>4, <1>5, <1>6, <1>7, <1>8 DEF Next

-----------------------------------------------------------------------------
(* The refinement: what a load would return *)

LEMMA SameLoad == UNCHANGED <<meta, chunk>> => Loadable' = Loadable
  BY DEF Loadable

LEMMA LoadableType ==
  StoreInv => Loadable \in Configs \cup {NoConfig, Broken} /\ (Loadable = NoConfig <=> meta = NoMeta)
<1> SUFFICES ASSUME StoreInv
             PROVE  Loadable \in Configs \cup {NoConfig, Broken} /\ (Loadable = NoConfig <=> meta = NoMeta)
  OBVIOUS
<1> QED BY StoreAssumption DEF StoreInv, StoreTypes, Loadable

\* A chunk that is cleared or written changes what a load returns only if the
\* save is blind.
LEMMA ChunkShows ==
  ASSUME StoreInv, Writing, meta' = meta, NEW i \in Index, NEW c \in {NoConfig, job.cfg},
         chunk' = [chunk EXCEPT ![job.target][i] = c] \/ chunk' = chunk
  PROVE  Loadable' \in IF job.blind THEN {Loadable, Broken, job.cfg} ELSE {Loadable}
<1> USE DEF StoreInv, StoreTypes
<1>1. CASE chunk' = chunk
  BY <1>1, SameLoad
<1>2. CASE meta = NoMeta
  BY <1>2 DEF Loadable
<1>3. CASE meta # NoMeta /\ chunk' = [chunk EXCEPT ![job.target][i] = c]
  <2> DEFINE s == meta.set
             m == meta.cfg
  <2>1. s \in Sets /\ m \in Configs /\ job.target \in Sets
    BY <1>3
  <2>2. /\ Loadable  = IF \A j \in Index : j < ChunksOf[m] => chunk[s][j] = m THEN m ELSE Broken
        /\ Loadable' = IF \A j \in Index : j < ChunksOf[m] => chunk'[s][j] = m THEN m ELSE Broken
    BY <1>3 DEF Loadable
  <2>3. CASE job.target # s
    <3>1. chunk'[s] = chunk[s]
      BY <1>3, <2>1, <2>3
    <3> QED BY <2>2, <3>1
  <2>4. CASE job.target = s
    <3>1. job.blind
      BY <1>3, <2>4 DEF Apart
    <3>2. \A j \in Index : chunk'[s][j] = IF j = i THEN c ELSE chunk[s][j]
      BY <1>3, <2>1, <2>4
    <3> HIDE DEF s, m
    <3>3. CASE \A j \in Index : j < ChunksOf[m] => chunk'[s][j] = m
      <4>1. c = m => m = job.cfg
        BY <2>1, StoreAssumption
      <4>2. c # m => \A j \in Index : j < ChunksOf[m] => chunk[s][j] = m
        BY <3>2, <3>3
      <4> QED BY <2>2, <3>1, <3>3, <4>1, <4>2
    <3>4. CASE ~(\A j \in Index : j < ChunksOf[m] => chunk'[s][j] = m)
      BY <2>2, <3>1, <3>4
    <3> QED BY <3>3, <3>4
  <2> QED BY <2>3, <2>4
<1> QED BY <1>1, <1>2, <1>3

\* The meta blob makes the configuration that was written the stored one.
LEMMA MetaShows ==
  ASSUME StoreInv, WriteMeta
  PROVE  \/ Loadable' = job.cfg
         \/ Loadable' = Loadable /\ meta' = meta /\ Abandon
<1> USE DEF StoreInv, StoreTypes
<1>1. PICK out \in Outcomes :
        /\ meta' = IF Lands(out) THEN [set |-> job.target, cfg |-> job.cfg] ELSE meta
        /\ IF out = "done" /\ ~job.convert
           THEN stage' = "dual" /\ UNCHANGED <<job, running, told, begun>>
           ELSE Abandon
  BY DEF WriteMeta
<1>2. stage = "write" /\ job.cfg \in Configs /\ job.at = ChunksOf[job.cfg] /\ chunk' = chunk
  BY DEF WriteMeta, Working
<1>3. CASE Lands(out)
  <2>1. meta'.set = job.target /\ meta'.cfg = job.cfg /\ meta' # NoMeta
    BY <1>1, <1>2, <1>3, StoreAssumption DEF NoMeta
  <2>2. \A i \in Index : i < ChunksOf[job.cfg] => chunk'[job.target][i] = job.cfg
    BY <1>2 DEF Written
  <2> QED BY <2>1, <2>2 DEF Loadable
<1>4. CASE ~Lands(out)
  BY <1>1, <1>2, <1>4, SameLoad DEF Lands
<1> QED BY <1>3, <1>4

LEMMA SavingFacts ==
  ASSUME StoreInv
  PROVE  /\ Writing => Saving = job.cfg /\ Saving \in Configs /\ Saving # NoConfig /\ Blind = job.blind
         /\ ~Writing => Saving = NoConfig /\ Blind = FALSE
         /\ Blind \in BOOLEAN
  BY StoreAssumption DEF StoreInv, StoreTypes, Working, Writing, Saving, Blind

\* The same for the steps that clear and write.
LEMMA ChunkLoads ==
  ASSUME StoreInv, Clear \/ WriteChunk
  PROVE  Loadable' \in IF job.blind THEN {Loadable, Broken, job.cfg} ELSE {Loadable}
<1>1. Writing /\ meta' = meta
  BY DEF Clear, WriteChunk, Writing
<1>2. CASE Clear
  <2>1. \/ chunk' = chunk
        \/ job.at \in Index /\ chunk' = [chunk EXCEPT ![job.target][job.at] = NoConfig]
    BY <1>2 DEF Clear
  <2> QED BY <1>1, <2>1, ChunkShows, SameLoad
<1>3. CASE WriteChunk
  <2>1. job.at \in Index
    BY <1>3, Sizes DEF WriteChunk, Index, StoreInv, StoreTypes, Working
  <2>2. chunk' = chunk \/ chunk' = [chunk EXCEPT ![job.target][job.at] = job.cfg]
    BY <1>3 DEF WriteChunk
  <2> QED BY <1>1, <2>1, <2>2, ChunkShows
<1> QED BY <1>2, <1>3

LEMMA ClearPromise == StoreInv /\ StoreInv' /\ (Clear \/ WriteChunk) => [Promise!Next]_Promise!vars
<1> SUFFICES ASSUME StoreInv, StoreInv', Clear \/ WriteChunk PROVE [Promise!Next]_Promise!vars
  OBVIOUS
<1>1. Writing /\ meta' = meta
  BY DEF Clear, WriteChunk, Writing
<1>2. Loadable' \in IF job.blind THEN {Loadable, Broken, job.cfg} ELSE {Loadable}
  BY ChunkLoads
<1>3. Abandon \/ (stage' \in {"clear", "write"} /\ job'.cfg = job.cfg /\ job'.blind = job.blind)
  BY DEF Clear, WriteChunk, StoreInv, StoreTypes
<1>4. Saving = job.cfg /\ Saving # NoConfig /\ Blind = job.blind
  BY <1>1, SavingFacts
<1>5. CASE Abandon
  <2>1. Saving' = NoConfig /\ Blind' = FALSE
    BY <1>5, AbandonStops DEF Saving, Blind, Writing
  <2> QED BY <1>2, <1>4, <2>1 DEF Promise!Next, Promise!Abort, Promise!Touch
<1>6. CASE stage' \in {"clear", "write"} /\ job'.cfg = job.cfg /\ job'.blind = job.blind
  <2>1. Saving' = Saving /\ Blind' = Blind
    BY <1>1, <1>6 DEF Saving, Blind, Writing
  <2> QED BY <1>2, <1>4, <2>1 DEF Promise!Next, Promise!Work, Promise!Touch
<1> QED BY <1>3, <1>5, <1>6

LEMMA MetaPromise == StoreInv /\ WriteMeta => [Promise!Next]_Promise!vars
<1> SUFFICES ASSUME StoreInv, WriteMeta PROVE [Promise!Next]_Promise!vars
  OBVIOUS
<1>1. Saving = job.cfg /\ Saving # NoConfig /\ Saving' = NoConfig /\ Blind' = FALSE
  <2>1. Writing /\ ~Writing'
    BY AbandonStops DEF WriteMeta, Writing
  <2> QED BY <2>1, SavingFacts DEF Saving, Blind
<1>2. Loadable' = job.cfg \/ Loadable' = Loadable
  BY MetaShows
<1> QED BY <1>1, <1>2 DEF Promise!Next, Promise!Commit, Promise!Abort, Promise!Touch

\* The first step of a save or of a conversion.
LEMMA StartPromise ==
  ASSUME StoreInv, StoreInv', NEW cfg \in Configs, NEW convert \in BOOLEAN, StartSave(cfg, convert),
         ~Writing, UNCHANGED flash
  PROVE  Promise!Next
<1>1. stage' = "clear" /\ job'.cfg = cfg /\ job'.blind \in BOOLEAN
  BY StartInv
<1>2. Saving = NoConfig /\ Saving' \in Configs /\ Blind' \in BOOLEAN
  BY <1>1, SavingFacts DEF Saving, Blind, Writing
<1>3. Loadable' = Loadable
  BY SameLoad DEF flash
<1> QED BY <1>2, <1>3 DEF Promise!Next, Promise!Begin

\* Everything else leaves the chunks alone: a restart gives a save up, the
\* other steps do not show.
LEMMA OtherPromise ==
  ASSUME StoreInv, UNCHANGED <<meta, chunk>>,
         (Saving' = NoConfig /\ Blind' = FALSE) \/ UNCHANGED <<stage, job>>
  PROVE  [Promise!Next]_Promise!vars
<1>1. Loadable' = Loadable
  BY SameLoad
<1>2. CASE UNCHANGED <<stage, job>>
  BY <1>1, <1>2 DEF Saving, Blind, Writing, Promise!vars
<1>3. CASE Saving' = NoConfig /\ Blind' = FALSE
  <2>1. CASE Writing
    BY <1>1, <1>3, <2>1, SavingFacts DEF Promise!Next, Promise!Abort, Promise!Touch
  <2>2. CASE ~Writing
    BY <1>1, <1>3, <2>2, SavingFacts DEF Promise!vars
  <2> QED BY <2>1, <2>2
<1> QED BY <1>2, <1>3

LEMMA StepPromise == StoreInv /\ StoreInv' /\ [Next]_vars => [Promise!Next]_Promise!vars
<1> SUFFICES ASSUME StoreInv, StoreInv', [Next]_vars PROVE [Promise!Next]_Promise!vars
  OBVIOUS
<1>1. CASE Save
  BY <1>1, StartPromise DEF Save, Writing
<1>2. CASE Clear \/ WriteChunk
  BY <1>2, ClearPromise
<1>3. CASE WriteMeta
  BY <1>3, MetaPromise
<1>4. CASE LoadLegacy
  <2>1. legacy \in Configs /\ ~Writing
    BY <1>4 DEF LoadLegacy, StoreInv, StoreTypes, Writing
  <2> QED BY <1>4, <2>1, StartPromise DEF LoadLegacy
<1>5. CASE DualWrite \/ Migrate \/ LoadChunks \/ LoadDefault \/ Restart
  <2>1. stage' \in {"off", "load", "legacy", "idle"} /\ UNCHANGED <<meta, chunk>>
    BY <1>5 DEF DualWrite, Migrate, LoadChunks, LoadDefault, Restart, Up, flash
  <2>2. Saving' = NoConfig /\ Blind' = FALSE
    BY <2>1 DEF Saving, Blind, Writing
  <2> QED BY <2>1, <2>2, OtherPromise
<1>6. CASE UNCHANGED vars
  BY <1>6, OtherPromise DEF vars, flash
<1> QED BY <1>1, <1>2, <1>3, <1>4, <1>5, <1>6 DEF Next

\* A save replaces the stored configuration as a whole or not at all: whatever
\* blob operation fails or is reported wrongly and wherever the power goes, what
\* a load returns changes only by the write of the meta blob, unless the save
\* could not read which set is active (chunked.rs, save and load).
THEOREM ImplementsPromise == Spec => KeepsPromise
<1>1. Init => Promise!Init
  <2> SUFFICES ASSUME Init PROVE Promise!Init
    OBVIOUS
  <2> QED BY DEF Init, Loadable, Saving, Blind, Writing, Promise!Init
<1> QED BY <1>1, InitInv, StoreStep, StepPromise, PTL DEF Spec, KeepsPromise, Promise!Spec

-----------------------------------------------------------------------------
(* What was reported survives *)

\* What the device may come up with: the configuration reported last, or one
\* whose save began since.
Known == {told} \cup begun

\* What a load finds is known, and with no chunks the JSON blob is, and without
\* that the blob of the default partition.
Sound ==
  /\ Loadable # Broken
  /\ Loadable \in Configs => Loadable \in Known
  /\ Loadable = NoConfig /\ legacy # NoConfig => legacy \in Known
  /\ Loadable = NoConfig /\ legacy = NoConfig => old \in Known
  /\ Loadable = NoConfig /\ legacy = NoConfig /\ stage # "off" => old = NoConfig

\* The JSON blob is looked at only if there are no chunks; a save is about a
\* known configuration, a conversion about the JSON blob.
Going ==
  /\ stage = "legacy" => Loadable = NoConfig
  /\ Writing => ~job.blind
  /\ Writing /\ job.convert => Loadable = NoConfig /\ job.cfg = legacy
  /\ Writing /\ ~job.convert => job.cfg \in Known

Finishing == stage = "dual" => Loadable = job.cfg /\ ~job.convert

SurviveInv == (~excused => Sound /\ Going) /\ Finishing

LEMMA SurviveInit == Init => SurviveInv
<1> SUFFICES ASSUME Init PROVE SurviveInv
  OBVIOUS
<1>1. Loadable = NoConfig /\ stage = "off" /\ Known = {IF legacy # NoConfig THEN legacy ELSE old}
  BY DEF Init, Loadable, Known
<1> QED BY <1>1, StoreAssumption DEF SurviveInv, Sound, Going, Finishing, Writing

\* The firmware comes up with c: that is right if a load finds c, or no chunks
\* and then c in the JSON blob, or neither of them and no older blob.
LEMMA UpSurvives ==
  ASSUME NEW c, Up(c),
         \/ Loadable' = c /\ c \in Configs
         \/ Loadable' = NoConfig /\ legacy' = c /\ c # NoConfig
         \/ Loadable' = NoConfig /\ legacy' = c /\ old' = c
         \/ excused'
  PROVE  SurviveInv'
<1>1. stage' = "idle" /\ Known' = {c}
  BY DEF Up, Known
<1> QED BY <1>1, StoreAssumption DEF SurviveInv, Sound, Going, Finishing, Writing

LEMMA BegunSurvives ==
  ASSUME StoreInv, SurviveInv, NEW cfg \in Configs, NEW convert \in BOOLEAN, StartSave(cfg, convert),
         UNCHANGED flash, UNCHANGED told, begun \subseteq begun', stage # "off",
         ~excused => IF convert THEN Loadable = NoConfig /\ cfg = legacy ELSE cfg \in Known'
  PROVE  SurviveInv'
<1>1. /\ stage' = "clear" /\ job'.cfg = cfg /\ job'.convert = convert
      /\ job'.blind => excused'
  BY StartInv
<1>2. excused => excused'
  BY DEF StartSave
<1>3. Loadable' = Loadable /\ legacy' = legacy /\ old' = old
  BY SameLoad DEF flash
<1>4. Known \subseteq Known'
  BY DEF Known
<1>5. ASSUME ~excused' PROVE Sound' /\ Going'
  BY <1>1, <1>2, <1>3, <1>4, <1>5 DEF SurviveInv, Sound, Going, Writing
<1> QED BY <1>1, <1>5 DEF SurviveInv, Finishing

\* A step of a save that goes on, or gives up.
LEMMA WorkSurvives ==
  ASSUME StoreInv, SurviveInv, Writing, UNCHANGED <<legacy, old, excused>>,
         ~job.blind => Loadable' = Loadable,
         \/ Abandon
         \/ /\ stage' \in {"clear", "write"} /\ job'.cfg = job.cfg /\ job'.blind = job.blind
            /\ job'.convert = job.convert /\ UNCHANGED <<told, begun>>
  PROVE  SurviveInv'
<1>1. ASSUME ~excused
      PROVE  Sound /\ Going /\ ~job.blind /\ Loadable' = Loadable
  BY <1>1 DEF SurviveInv, Going
<1>2. job.cfg \in Configs /\ job.cfg # NoConfig
  BY StoreAssumption DEF StoreInv, Working, Writing
<1>3. CASE Abandon /\ job.convert
  BY <1>1, <1>2, <1>3, UpSurvives DEF Abandon, Going
<1>4. CASE Abandon /\ ~job.convert
  <2>1. stage' = "idle" /\ Known' = Known
    BY <1>4 DEF Abandon, Known
  <2>2. stage # "off"
    BY DEF Writing
  <2> QED BY <1>1, <2>1, <2>2 DEF SurviveInv, Sound, Going, Finishing, Writing
<1>5. CASE /\ stage' \in {"clear", "write"} /\ job'.cfg = job.cfg /\ job'.blind = job.blind
           /\ job'.convert = job.convert /\ UNCHANGED <<told, begun>>
  <2>1. Known' = Known
    BY <1>5 DEF Known
  <2>2. stage # "off"
    BY DEF Writing
  <2> QED BY <1>1, <1>5, <2>1, <2>2 DEF SurviveInv, Sound, Going, Finishing, Writing
<1> QED BY <1>3, <1>4, <1>5

LEMMA ChunkSurvives == StoreInv /\ SurviveInv /\ (Clear \/ WriteChunk) => SurviveInv'
<1> SUFFICES ASSUME StoreInv, SurviveInv, Clear \/ WriteChunk PROVE SurviveInv'
  OBVIOUS
<1>1. Writing /\ UNCHANGED <<meta, legacy, old, excused>>
  BY DEF Clear, WriteChunk, Writing
<1>2. ~job.blind => Loadable' = Loadable
  BY ChunkLoads
<1>3. \/ Abandon
      \/ /\ stage' \in {"clear", "write"} /\ job'.cfg = job.cfg /\ job'.blind = job.blind
         /\ job'.convert = job.convert /\ UNCHANGED <<told, begun>>
  BY DEF Clear, WriteChunk, StoreInv, StoreTypes
<1> QED BY <1>1, <1>2, <1>3, WorkSurvives

LEMMA MetaSurvives == StoreInv /\ SurviveInv /\ WriteMeta => SurviveInv'
<1> SUFFICES ASSUME StoreInv, SurviveInv, WriteMeta PROVE SurviveInv'
  OBVIOUS
<1>1. Writing /\ UNCHANGED <<legacy, old, excused>>
  BY DEF WriteMeta, Writing
<1>2. job.cfg \in Configs /\ job.cfg # NoConfig /\ job.cfg # Broken
  BY <1>1, StoreAssumption DEF StoreInv, Working, Writing
<1>3. CASE Loadable' = Loadable /\ Abandon
  BY <1>1, <1>3, WorkSurvives
<1>4. CASE Loadable' = job.cfg
  <2>1. CASE job.convert
    <3>1. Up(job.cfg)
      BY <2>1 DEF WriteMeta, Abandon
    <3> QED BY <1>2, <1>4, <3>1, UpSurvives
  <2>2. CASE ~job.convert
    <3>1. \/ stage' = "dual" /\ UNCHANGED <<job, told, begun>>
          \/ stage' = "idle" /\ UNCHANGED <<told, begun>>
      BY <2>2 DEF WriteMeta, Abandon
    <3>2. Known' = Known
      BY <3>1 DEF Known
    <3>3. ~excused => job.cfg \in Known
      BY <1>1, <2>2 DEF SurviveInv, Going
    <3> QED BY <1>1, <1>2, <1>4, <2>2, <3>1, <3>2, <3>3
            DEF SurviveInv, Sound, Going, Finishing, Writing
  <2> QED BY <2>1, <2>2
<1> QED BY <1>3, <1>4, MetaShows

LEMMA BootSurvives == StoreInv /\ SurviveInv /\ (Migrate \/ LoadChunks \/ LoadDefault) => SurviveInv'
<1> SUFFICES ASSUME StoreInv, SurviveInv, Migrate \/ LoadChunks \/ LoadDefault PROVE SurviveInv'
  OBVIOUS
<1>1. CASE Migrate
  <2>1. stage = "off" /\ stage' = "load" /\ UNCHANGED <<meta, chunk, old, told, begun>>
    BY <1>1 DEF Migrate
  <2>2. Loadable' = Loadable /\ Known' = Known
    BY <2>1, SameLoad DEF Known
  <2>3. \/ (old = NoConfig \/ legacy # NoConfig) /\ UNCHANGED <<legacy, excused>>
        \/ old # NoConfig /\ legacy = NoConfig /\ legacy' = old /\ (excused => excused')
        \/ excused'
    BY <1>1 DEF Migrate, Outcomes, Lands
  <2>4. excused => excused'
    BY <1>1 DEF Migrate
  <2> QED BY <2>1, <2>2, <2>3, <2>4 DEF SurviveInv, Sound, Going, Finishing, Writing
<1>2. CASE LoadChunks
  <2>1. stage = "load" /\ UNCHANGED flash /\ (excused => excused')
    BY <1>2 DEF LoadChunks
  <2>2. Loadable' = Loadable /\ legacy' = legacy /\ old' = old
    BY <2>1, SameLoad DEF flash
  <2>3. \/ Loadable \in Configs /\ Up(Loadable)
        \/ /\ stage' = "legacy" /\ UNCHANGED <<told, begun>>
           /\ Loadable \notin Configs \/ excused'
    BY <1>2 DEF LoadChunks
  <2>4. CASE Loadable \in Configs /\ Up(Loadable)
    BY <2>2, <2>4, UpSurvives
  <2>5. CASE /\ stage' = "legacy" /\ UNCHANGED <<told, begun>>
             /\ Loadable \notin Configs \/ excused'
    <3>1. Known' = Known
      BY <2>5 DEF Known
    <3> QED BY <2>1, <2>2, <2>5, <3>1, LoadableType
            DEF SurviveInv, Sound, Going, Finishing, Writing
  <2> QED BY <2>3, <2>4, <2>5
<1>3. CASE LoadDefault
  <2>1. stage = "legacy" /\ UNCHANGED flash /\ Up(NoConfig) /\ (excused => excused')
    BY <1>3 DEF LoadDefault
  <2>2. legacy = NoConfig \/ excused'
    BY <1>3 DEF LoadDefault
  <2>3. Loadable' = Loadable /\ legacy' = legacy /\ old' = old
    BY <2>1, SameLoad DEF flash
  <2> QED BY <2>1, <2>2, <2>3, UpSurvives DEF SurviveInv, Sound, Going
<1> QED BY <1>1, <1>2, <1>3

LEMMA SurviveStep == StoreInv /\ SurviveInv /\ [Next]_vars => SurviveInv'
<1> SUFFICES ASSUME StoreInv, SurviveInv, [Next]_vars PROVE SurviveInv'
  OBVIOUS
<1>1. CASE Save
  <2>1. PICK cfg \in Configs : StartSave(cfg, FALSE) /\ begun' = begun \cup {cfg}
    BY <1>1 DEF Save
  <2>2. stage = "idle" /\ UNCHANGED <<flash, told>> /\ cfg \in Known'
    BY <1>1, <2>1 DEF Save, Known
  <2> QED BY <2>1, <2>2, BegunSurvives
<1>2. CASE Clear \/ WriteChunk
  BY <1>2, ChunkSurvives
<1>3. CASE WriteMeta
  BY <1>3, MetaSurvives
<1>4. CASE DualWrite
  <2>1. Loadable = job.cfg /\ job.cfg \in Configs /\ Up(job.cfg) /\ UNCHANGED <<meta, chunk>>
    BY <1>4 DEF DualWrite, SurviveInv, Finishing, StoreInv, Working
  <2> QED BY <2>1, SameLoad, UpSurvives
<1>5. CASE Migrate \/ LoadChunks \/ LoadDefault
  BY <1>5, BootSurvives
<1>6. CASE LoadLegacy
  <2>1. /\ stage = "legacy" /\ legacy # NoConfig /\ StartSave(legacy, TRUE)
        /\ UNCHANGED <<flash, told, begun>>
    BY <1>6 DEF LoadLegacy
  <2>2. legacy \in Configs
    BY <2>1 DEF StoreInv, StoreTypes
  <2>3. ~excused => Loadable = NoConfig
    BY <2>1 DEF SurviveInv, Going
  <2> QED BY <2>1, <2>2, <2>3, BegunSurvives
<1>7. CASE Restart
  <2>1. stage' = "off" /\ UNCHANGED <<flash, told, begun, excused>>
    BY <1>7 DEF Restart, history
  <2>2. Loadable' = Loadable /\ legacy' = legacy /\ old' = old /\ Known' = Known
    BY <2>1, SameLoad DEF flash, Known
  <2> QED BY <2>1, <2>2 DEF SurviveInv, Sound, Going, Finishing, Writing
<1>8. CASE UNCHANGED vars
  <2>1. /\ UNCHANGED <<meta, chunk, legacy, old, stage, job, told, begun, excused>>
    BY <1>8 DEF vars, flash, history
  <2>2. Loadable' = Loadable /\ Known' = Known
    BY <2>1, SameLoad DEF Known
  <2> QED BY <2>1, <2>2 DEF SurviveInv, Sound, Going, Finishing, Writing
<1> QED BY <1>1, <1>2, <1>3, <1>4, <1>5, <1>6, <1>7, <1>8 DEF Next

\* The step in which the boot ends.
LEMMA BootEnds ==
  StoreInv /\ SurviveInv /\ [Next]_vars
    => (Booting /\ ~Booting' => running' \in Known \/ excused')
<1> SUFFICES ASSUME StoreInv, SurviveInv, [Next]_vars, Booting, ~Booting'
             PROVE  running' \in Known \/ excused'
  OBVIOUS
<1>1. CASE Save \/ DualWrite
  <2>1. stage \in {"idle", "dual"} /\ (stage = "idle" => job = NoJob)
    BY <1>1 DEF Save, DualWrite, StoreInv, Working
  <2>2. ~job.convert
    BY <2>1, NoJobFields DEF SurviveInv, Finishing
  <2> QED BY <2>1, <2>2 DEF Booting
<1>2. CASE Clear \/ WriteChunk \/ WriteMeta
  <2>1. Writing /\ excused' = excused
    BY <1>2 DEF Clear, WriteChunk, WriteMeta, Writing
  <2>2. job.convert
    BY <2>1 DEF Booting, Writing
  <2>3. Abandon
    BY <1>2, <2>2 DEF Clear, WriteChunk, WriteMeta, Booting, StoreInv, StoreTypes
  <2>4. running' = job.cfg
    BY <2>2, <2>3 DEF Abandon, Up
  <2>5. ~excused => job.cfg \in Known
    BY <2>1, <2>2, StoreAssumption DEF SurviveInv, Sound, Going, StoreInv, Working, Writing
  <2> QED BY <2>1, <2>4, <2>5
<1>3. CASE Migrate \/ LoadLegacy \/ Restart
  <2>1. stage' \in {"load", "off"} \/ job'.convert
    BY <1>3 DEF Migrate, LoadLegacy, Restart, StartSave
  <2> QED BY <2>1 DEF Booting
<1>4. CASE LoadChunks
  <2>1. stage' = "legacy" \/ (Loadable \in Configs /\ running' = Loadable /\ (excused => excused'))
    BY <1>4 DEF LoadChunks, Up
  <2> QED BY <2>1 DEF Booting, SurviveInv, Sound
<1>5. CASE LoadDefault
  <2>1. /\ stage = "legacy" /\ running' = NoConfig /\ (excused => excused')
        /\ legacy = NoConfig \/ excused'
    BY <1>5 DEF LoadDefault, Up
  <2> QED BY <2>1 DEF SurviveInv, Sound, Going
<1>6. CASE UNCHANGED vars
  BY <1>6 DEF vars, Booting
<1> QED BY <1>1, <1>2, <1>3, <1>4, <1>5, <1>6 DEF Next

\* After a restart the device runs the configuration it last reported as saved,
\* or one whose save had begun since, through any power failures and failing
\* blob operations - unless it failed to read its flash meanwhile
\* (storage.rs:394-413).  The invariant says where each copy of a configuration
\* stands while chunks, JSON blob and default partition disagree.
THEOREM RestartsWithReported == Spec => ReportedSurvives
<1>1. StoreInv /\ SurviveInv /\ [Next]_vars
        => [Booting /\ ~Booting' => running' \in {told} \cup begun \/ excused']_vars
  BY BootEnds DEF Known
<1> QED BY <1>1, InitInv, SurviveInit, StoreStep, SurviveStep, PTL DEF Spec, ReportedSurvives
=============================================================================
