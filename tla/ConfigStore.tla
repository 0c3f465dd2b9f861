----------------------------- MODULE ConfigStore -----------------------------
(***************************************************************************)
(* The sensor configuration in flash: two chunk sets A and B with one meta *)
(* blob that names the active one (crates/telenot-config/src/chunked.rs),  *)
(* the older JSON blob kept beside them for a firmware rollback, and the   *)
(* import from the default partition                                       *)
(* (crates/telenot-esp-bridge/src/storage.rs).                             *)
(*                                                                         *)
(* One step is one blob operation; between any two the power may fail, and *)
(* any may return an error.  NVS itself is external: a blob is written as  *)
(* a whole or not at all, and set_blob may report an error although the    *)
(* value was written (its readback failed).  A chunk is named by the       *)
(* configuration it belongs to, so "the CRC in the meta blob matches" is   *)
(* "the chunk belongs to the meta blob's configuration".                   *)
(***************************************************************************)
EXTENDS Naturals

CONSTANTS
  Configs,
  NoConfig,             \* nothing stored; as `running`: Config::default()
  Broken,               \* load returns an error
  ChunksOf,             \* chunks a configuration needs (sensors / CHUNK_SENSORS)
  MaxChunks,            \* bound: chunks of a set
  Rollbackable,         \* configurations whose JSON fits LEGACY_JSON_MAX
  OldBlobs,             \* what the default partition may hold from before
  MaxErrors,            \* bound: blob operations that return an error
  MaxRestarts           \* bound: power failures and restarts

ASSUME StoreAssumption ==
  /\ NoConfig \notin Configs /\ Broken \notin Configs /\ NoConfig # Broken
  /\ MaxChunks \in Nat /\ ChunksOf \in [Configs -> 0..MaxChunks]
  /\ Rollbackable \subseteq Configs
  /\ OldBlobs \subseteq Configs \cup {NoConfig}
  /\ MaxErrors \in Nat /\ MaxRestarts \in Nat

Index == 0..(MaxChunks - 1)
Sets  == {"A", "B"}

VARIABLES
  meta,                 \* blob cfg_meta
  chunk,                \* blobs cfg_a<i> and cfg_b<i>
  legacy,               \* blob "config" of the cfg partition
  old,                  \* blob "config" of the default partition
  stage,                \* what the firmware does next
  job,                  \* the save under way
  running,              \* configuration the core runs with
  told,                 \* history: last configuration reported as saved
  begun,                \* history: configurations whose save began since
  excused,              \* history: the firmware failed to read what is stored
  errors, restarts

flash   == <<meta, chunk, legacy, old>>
history == <<told, begun, excused>>
vars    == <<flash, stage, job, running, history, errors, restarts>>

NoMeta == [set |-> "A", cfg |-> NoConfig]
NoJob  == [cfg |-> NoConfig, target |-> "A", at |-> 0, blind |-> FALSE, convert |-> FALSE]

-----------------------------------------------------------------------------
(* Reading *)

\* chunked::load: all chunks of the active set, each with its CRC, or an error.
Loadable ==
  IF meta = NoMeta THEN NoConfig
  ELSE IF \A i \in Index : i < ChunksOf[meta.cfg] => chunk[meta.set][i] = meta.cfg
       THEN meta.cfg ELSE Broken

\* How a blob operation ends: done, refused, or reported as failed although the
\* flash has it (set_blob's readback, the commit after an erase).
Outcomes == {"done", "refused", "unverified"}

Ends(out) ==
  IF out = "done" THEN UNCHANGED errors
  ELSE errors < MaxErrors /\ errors' = errors + 1

Lands(out) == out # "refused"

-----------------------------------------------------------------------------
(* A save, one blob operation at a time *)

\* (Mutant: a save that stays in the set the meta blob names.)
Active == meta.set

\* The set a save writes to: the one that is not active.
Inactive == IF meta # NoMeta /\ meta.set = "A" THEN "B" ELSE "A"

\* Reading the meta blob.  A failure counts as "no meta": the save starts
\* afresh in set A.
StartSave(cfg, convert) ==
  \E out \in {"done", "refused"} :
    /\ Ends(out)
    /\ stage' = "clear"
    /\ job' = [cfg |-> cfg, target |-> IF out = "done" THEN Inactive ELSE "A", at |-> 0,
               blind |-> out # "done", convert |-> convert]
    /\ excused' = (excused \/ out # "done")

\* Intent::ReloadConfig: CfgStore::save of a configuration the user committed.
Save ==
  /\ stage = "idle"
  /\ \E cfg \in Configs :
       /\ StartSave(cfg, FALSE)
       /\ begun' = begun \cup {cfg}
  /\ UNCHANGED <<flash, running, told, restarts>>

\* The firmware is up with a configuration.
Up(cfg) ==
  /\ stage' = "idle"
  /\ job' = NoJob
  /\ running' = cfg
  /\ told' = cfg
  /\ begun' = {}

\* chunked::save returned an error, or a conversion is over: a save leaves the
\* running configuration, a conversion uses the blob it was about in any case.
Abandon ==
  IF job.convert THEN Up(job.cfg)
  ELSE /\ stage' = "idle"
       /\ job' = NoJob
       /\ UNCHANGED <<running, told, begun>>

\* Remove the target's chunks in ascending order, up to the first missing one.
\* (An error of the blob_len that finds it missing is that of the next write.)
Clear ==
  /\ stage = "clear"
  /\ IF job.at \in Index /\ chunk[job.target][job.at] # NoConfig
     THEN \E out \in Outcomes :
            /\ Ends(out)
            /\ chunk' = IF Lands(out) THEN [chunk EXCEPT ![job.target][job.at] = NoConfig]
                        ELSE chunk
            /\ IF out = "done"
               THEN job' = [job EXCEPT !.at = @ + 1] /\ UNCHANGED <<stage, running, told, begun>>
               ELSE Abandon
     ELSE /\ stage' = "write"
          /\ job' = [job EXCEPT !.at = 0]
          /\ UNCHANGED <<chunk, running, told, begun, errors>>
  /\ UNCHANGED <<meta, legacy, old, excused, restarts>>

WriteChunk ==
  /\ stage = "write" /\ job.at < ChunksOf[job.cfg]
  /\ \E out \in Outcomes :
       /\ Ends(out)
       /\ chunk' = IF Lands(out) THEN [chunk EXCEPT ![job.target][job.at] = job.cfg] ELSE chunk
       /\ IF out = "done"
          THEN job' = [job EXCEPT !.at = @ + 1] /\ UNCHANGED <<stage, running, told, begun>>
          ELSE Abandon
  /\ UNCHANGED <<meta, legacy, old, excused, restarts>>

\* The commit point.  A conversion is then done; a save goes on with the JSON blob.
WriteMeta ==
  /\ stage = "write" /\ job.at = ChunksOf[job.cfg]
  /\ \E out \in Outcomes :
       /\ Ends(out)
       /\ meta' = IF Lands(out) THEN [set |-> job.target, cfg |-> job.cfg] ELSE meta
       /\ IF out = "done" /\ ~job.convert
          THEN stage' = "dual" /\ UNCHANGED <<job, running, told, begun>>
          ELSE Abandon
  /\ UNCHANGED <<chunk, legacy, old, excused, restarts>>

\* The JSON blob follows, or goes if it does not fit; its errors are only
\* logged.  Then the save is reported and the core runs the new configuration.
DualWrite ==
  /\ stage = "dual"
  /\ \E out \in Outcomes :
       /\ Ends(out)
       /\ legacy' = IF ~Lands(out) THEN legacy
                    ELSE IF job.cfg \in Rollbackable THEN job.cfg ELSE NoConfig
  /\ Up(job.cfg)
  /\ excused' = FALSE
  /\ UNCHANGED <<meta, chunk, old, restarts>>

-----------------------------------------------------------------------------
(* Start of the firmware *)

\* migrate_from_default: fill an empty "config" blob from the default partition.
\* A failed look at it counts as empty.
Migrate ==
  /\ stage = "off"
  /\ \/ /\ old = NoConfig \/ legacy # NoConfig
        /\ UNCHANGED <<legacy, errors, excused>>
     \/ /\ old # NoConfig
        /\ \E out \in IF legacy = NoConfig THEN Outcomes ELSE {"unverified"} :
             /\ Ends(out)
             /\ legacy' = IF Lands(out) THEN old ELSE legacy
             /\ excused' = (excused \/ out # "done")
  /\ stage' = "load"
  /\ UNCHANGED <<meta, chunk, old, job, running, told, begun, restarts>>

\* (Mutant: the JSON blob wins over the chunks.)
LoadLegacyFirst ==
  /\ stage = "load"
  /\ IF legacy # NoConfig THEN Up(legacy)
     ELSE IF Loadable \in Configs THEN Up(Loadable)
     ELSE stage' = "legacy" /\ UNCHANGED <<job, running, told, begun>>
  /\ UNCHANGED <<flash, excused, errors, restarts>>

\* chunked::load; an error of it only moves on to the JSON blob.
LoadChunks ==
  /\ stage = "load"
  /\ \E out \in {"done", "refused"} :
       /\ Ends(out)
       /\ excused' = (excused \/ out # "done")
       /\ IF out = "done" /\ Loadable \in Configs THEN Up(Loadable)
          ELSE stage' = "legacy" /\ UNCHANGED <<job, running, told, begun>>
  /\ UNCHANGED <<flash, restarts>>

\* The JSON blob is used, and converted to chunks first.
LoadLegacy ==
  /\ stage = "legacy"
  /\ legacy # NoConfig
  /\ StartSave(legacy, TRUE)
  /\ UNCHANGED <<flash, running, told, begun, restarts>>

\* Neither can be read: Config::default().
LoadDefault ==
  /\ stage = "legacy"
  /\ \E out \in {"done", "refused"} :
       /\ Ends(out)
       /\ legacy = NoConfig \/ out # "done"
       /\ excused' = (excused \/ out # "done")
  /\ Up(NoConfig)
  /\ UNCHANGED <<flash, restarts>>

Restart ==
  /\ restarts < MaxRestarts
  /\ restarts' = restarts + 1
  /\ stage' = "off"
  /\ job' = NoJob
  /\ running' = NoConfig
  /\ UNCHANGED <<flash, history, errors>>

-----------------------------------------------------------------------------

\* A device as the firmware before the chunked storage left it, or a new one.
Init ==
  /\ meta = NoMeta
  /\ chunk = [s \in Sets |-> [i \in Index |-> NoConfig]]
  /\ legacy \in Rollbackable \cup {NoConfig}
  /\ old \in OldBlobs
  /\ stage = "off"
  /\ job = NoJob
  /\ running = NoConfig
  /\ told = IF legacy # NoConfig THEN legacy ELSE old
  /\ begun = {} /\ excused = FALSE
  /\ errors = 0 /\ restarts = 0

Next ==
  \/ Save \/ Clear \/ WriteChunk \/ WriteMeta \/ DualWrite
  \/ Migrate \/ LoadChunks \/ LoadLegacy \/ LoadDefault
  \/ Restart

Spec == Init /\ [][Next]_vars

-----------------------------------------------------------------------------
(* Properties *)

Writing == stage \in {"clear", "write"}
Booting == stage \in {"off", "load", "legacy"} \/ job.convert

\* The save under way, and whether it knows which set is active.
Saving == IF Writing THEN job.cfg ELSE NoConfig
Blind  == Writing /\ job.blind

\* The store keeps the promise of AtomicConfig: chunks are cleared and written,
\* operations fail and the power goes, and what a load would return changes only
\* by the write of the meta blob (chunked.rs:142-144).
Promise == INSTANCE AtomicConfig WITH stored <- Loadable, saving <- Saving, blind <- Blind

KeepsPromise == Promise!Spec

\* After a restart the device runs the configuration it last reported as saved,
\* or one whose save had begun since and did not report success - never an older
\* one from another blob - unless it failed to read its flash meanwhile
\* (storage.rs:394-413).
ReportedSurvives ==
  [][Booting /\ ~Booting' => running' \in {told} \cup begun \/ excused']_vars
=============================================================================
