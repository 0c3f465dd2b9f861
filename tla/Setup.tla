-------------------------------- MODULE Setup -------------------------------
(***************************************************************************)
(* The edit session of the setup, its commit, import and reboot            *)
(* (crates/telenot-app/src/app.rs and api/), the loop that saves and       *)
(* reloads (crates/telenot-esp-bridge/src/app_loop.rs) and the HomeKit     *)
(* thread that follows a commit (homekit.rs).                              *)
(*                                                                         *)
(* Requests hold the mutex of App and are one step each; the loop takes    *)
(* their intents in the order they were pushed and handles them one by     *)
(* one, with requests in between.  Saving is the atomic register that      *)
(* ConfigStore implements: it succeeds, fails, or is cut by a power        *)
(* failure, before or after.  Of a detector only what decides is kept:     *)
(* whether its entry is invalid, and whether HomeKit shows it.             *)
(***************************************************************************)
EXTENDS Integers, FiniteSets, Sequences

CONSTANTS
  Detectors,            \* addresses
  Panels,               \* PanelSettings
  DefaultPanel,         \* PanelSettings::default
  MaxAccessories,       \* MAX_SENSOR_SERVS
  MaxRequests           \* bound: requests, and results of scans

ASSUME SetupAssumption ==
  /\ Detectors \subseteq Nat /\ IsFiniteSet(Detectors)
  /\ DefaultPanel \in Panels
  /\ MaxAccessories \in Nat /\ MaxRequests \in Nat

\* bad: empty name or topic; shown: confirmed and marked for HomeKit
Marks   == {"absent", "bad", "plain", "shown"}
Tables  == [Detectors -> Marks]
Configs == [table : Tables, panel : Panels]
Commits == 1..MaxRequests
Statuses == {"idle", "pending", "saved", "failed"}

VARIABLES
  flash,                \* the configuration in NVS
  persisted,            \* App.persisted, the Arc the core holds too
  session,              \* SetupState.session: table and excluded
  panel,                \* SetupState.panel
  pending,              \* pending_commit, 0 for None
  status,               \* commit_status
  queue,                \* intents pushed and not yet handled
  reconcile,            \* homekit_reconcile
  accessories,          \* bridged accessories of the running HAP task
  started,              \* homekit::STARTED
  saved,                \* history: commits that were written
  requests              \* bound on requests

draft  == <<session, panel>>
commit == <<pending, status>>
hap    == <<reconcile, accessories, started>>
vars   == <<flash, persisted, draft, commit, queue, hap, saved, requests>>

NoSession == [some |-> FALSE, table |-> [d \in Detectors |-> "absent"], out |-> {}]

Reload(cfg, id) == [op |-> "reload", cfg |-> cfg, id |-> id]
Apply(id) == [op |-> "apply", id |-> id]
Reboot    == [op |-> "reboot", id |-> 0]
Start     == [op |-> "start", id |-> 0]

TypeOK ==
  /\ flash \in Configs /\ persisted \in Configs
  /\ session \in [some : BOOLEAN, table : Tables, out : SUBSET Detectors]
  /\ panel \in Panels
  /\ pending \in Commits \union {0} /\ status \in Statuses
  /\ queue \in Seq([op : {"reload"}, cfg : Configs, id : Commits \union {0}]
                   \union [op : {"apply", "reboot", "start"}, id : Commits \union {0}])
  /\ {reconcile, started} \subseteq BOOLEAN
  /\ accessories \subseteq Detectors /\ Cardinality(accessories) <= MaxAccessories
  /\ saved \subseteq Commits /\ requests \in 0..MaxRequests
  /\ pending # 0 => status = "pending"

-----------------------------------------------------------------------------
(* What a session holds *)

Included(table, out) == [d \in Detectors |-> IF d \in out THEN "absent" ELSE table[d]]

Present(table) == {d \in Detectors : table[d] # "absent"}
Shown(table)   == {d \in Detectors : table[d] = "shown"}
Valid(table)   == \A d \in Detectors : table[d] # "bad"

\* EditSession::from_persisted, copied on the first edit
Opened == IF session.some THEN session
          ELSE [some |-> TRUE, table |-> persisted.table, out |-> {}]

\* take_commit_config and working_config: the persisted table without a session
Working == [table |-> IF session.some THEN Included(session.table, session.out)
                      ELSE persisted.table,
            panel |-> panel]

\* seed_persisted
Reopened(cfg) == [some |-> TRUE, table |-> cfg.table, out |-> {}]

-----------------------------------------------------------------------------
(* Requests *)

Request == requests < MaxRequests /\ requests' = requests + 1

\* PATCH of one detector or a bulk operation on several.  The session is
\* opened first; if one of them is unknown nothing else happens.
Edit(S, mark) ==
  /\ Request
  /\ session' = IF S \subseteq Present(Opened.table)
                  THEN [Opened EXCEPT !.table = [d \in Detectors |-> IF d \in S THEN mark ELSE @[d]]]
                  ELSE Opened
  /\ UNCHANGED <<flash, persisted, panel, commit, queue, hap, saved>>

Exclude(S, out) ==
  /\ Request
  /\ session' = IF S \subseteq Present(Opened.table)
                  THEN [Opened EXCEPT !.out = IF out THEN @ \union S ELSE @ \ S]
                  ELSE Opened
  /\ UNCHANGED <<flash, persisted, panel, commit, queue, hap, saved>>

\* PUT /connection
SelectPanel(p) ==
  /\ Request
  /\ panel' = p
  /\ UNCHANGED <<flash, persisted, session, commit, queue, hap, saved>>

\* SetupState::seed with a scan of S, whose generic slots G are left out
Seed(S, G, p) ==
  /\ Request
  /\ session' = [some |-> TRUE, out |-> G,
                 table |-> [d \in Detectors |-> IF d \in S THEN "plain" ELSE "absent"]]
  /\ panel' = p
  /\ UNCHANGED <<flash, persisted, commit, queue, hap, saved>>

\* (Mutant: the persisted table is judged instead of the session's.)
AcceptsPersisted == pending = 0 /\ Valid(persisted.table)

\* Counts the user did not see and warnings not acknowledged refuse it as well.
Accepts == pending = 0 /\ Valid(Working.table)

\* take_commit_config consumes the session.
Take(id) ==
  /\ pending' = id
  /\ status' = "pending"
  /\ session' = NoSession

Commit ==
  /\ Request /\ Accepts
  /\ Take(requests + 1)
  /\ queue' = Append(queue, Reload(Working, requests + 1))
  /\ UNCHANGED <<flash, persisted, panel, hap, saved>>

\* POST /homekit/apply: a commit, then the HomeKit step
HomekitApply ==
  /\ Request /\ Accepts
  /\ Take(requests + 1)
  /\ queue' = queue \o <<Reload(Working, requests + 1), Apply(requests + 1)>>
  /\ UNCHANGED <<flash, persisted, panel, hap, saved>>

\* PUT /mqtt with HomeKit turned on
TurnOnHomekit ==
  /\ Request
  /\ queue' = Append(queue, Start)
  /\ UNCHANGED <<flash, persisted, draft, commit, hap, saved>>

\* (Mutant: an import leaves the session as it is.)
ShowNothing(cfg) == panel' = cfg.panel /\ UNCHANGED session

ShowImport(cfg) == panel' = cfg.panel /\ session' = Reopened(cfg)

\* An import is saved by the loop too, but not as a commit.
Import(cfg) ==
  /\ Request
  /\ Valid(cfg.table)
  /\ ShowImport(cfg)
  /\ queue' = Append(queue, Reload(cfg, 0))
  /\ UNCHANGED <<flash, persisted, commit, hap, saved>>

RequestReboot ==
  /\ Request
  /\ pending = 0 /\ status # "failed"
  /\ ~session.some
  /\ queue' = Append(queue, Reboot)
  /\ UNCHANGED <<flash, persisted, draft, commit, hap, saved>>

-----------------------------------------------------------------------------
(* The loop *)

Handles(op) == queue # <<>> /\ Head(queue).op = op /\ queue' = Tail(queue)

\* (Mutant: whatever was saved settles the commit that is pending.)
SettlesAny(id) == pending # 0

\* finish_commit: only the very config that is pending settles it.
Settles(id) == pending # 0 /\ id = pending

Saves ==
  /\ Handles("reload")
  /\ LET i == Head(queue)
     IN /\ flash' = i.cfg /\ persisted' = i.cfg
        /\ saved' = saved \union ({i.id} \ {0})
        /\ IF Settles(i.id) THEN pending' = 0 /\ status' = "saved" ELSE UNCHANGED commit
  /\ UNCHANGED <<draft, hap, requests>>

\* (Mutant: a commit that failed is not put back into a session.)
LeaveClosed(cfg) == UNCHANGED draft

PutBack(cfg) == session' = Reopened(cfg) /\ panel' = cfg.panel

\* The journal or the store refuses: nothing is applied.
SaveFails ==
  /\ Handles("reload")
  /\ LET i == Head(queue)
     IN IF Settles(i.id)
          THEN pending' = 0 /\ status' = "failed" /\ PutBack(i.cfg)
          ELSE UNCHANGED <<commit, draft>>
  /\ UNCHANGED <<flash, persisted, hap, saved, requests>>

\* (Mutant: the limit is not looked at.)
AddedAll(kept, want) == kept \union want

\* The first detectors in table order, as many as fit beside those kept
Added(kept, want) ==
  LET new  == want \ kept
      room == MaxAccessories - Cardinality(kept)
  IN kept \union {d \in new : Cardinality({e \in new : e <= d}) <= room}

\* homekit::start is idempotent.
HapStarts ==
  /\ started' = TRUE
  /\ accessories' = IF started THEN accessories ELSE Added({}, Shown(persisted.table))

StartHomekit ==
  /\ Handles("start")
  /\ HapStarts
  /\ UNCHANGED <<flash, persisted, draft, commit, reconcile, saved, requests>>

\* (Mutant: the HomeKit step does not ask how the commit went.)
ApplyAnyway ==
  /\ Handles("apply")
  /\ HapStarts /\ reconcile' = TRUE
  /\ UNCHANGED <<flash, persisted, draft, commit, saved, requests>>

\* Only after a commit that was saved; otherwise the intent is dropped.
ApplyHomekit ==
  /\ Handles("apply")
  /\ IF status = "saved" THEN HapStarts /\ reconcile' = TRUE ELSE UNCHANGED hap
  /\ UNCHANGED <<flash, persisted, draft, commit, saved, requests>>

\* Everything in RAM is gone; HomeKit is started again if it is turned on.
\* main.rs shares the loaded configuration as App.persisted and leaves
\* SetupState, its panel included, as App::new made it.
Boot(cfg) ==
  /\ flash' = cfg /\ persisted' = cfg /\ panel' = DefaultPanel
  /\ session' = NoSession /\ pending' = 0 /\ status' = "idle"
  /\ queue' = <<>> /\ reconcile' = FALSE
  /\ started' \in BOOLEAN
  /\ accessories' = IF started' THEN Added({}, Shown(cfg.table)) ELSE {}
  /\ UNCHANGED saved

Reboots == queue # <<>> /\ Head(queue).op = "reboot" /\ Boot(flash) /\ UNCHANGED requests

\* A power failure, perhaps just after the head of the queue was saved
PowerFails ==
  /\ Request
  /\ \/ Boot(flash)
     \/ queue # <<>> /\ Head(queue).op = "reload" /\ Boot(Head(queue).cfg)

\* The HAP thread takes the flag and compares with the working configuration,
\* unless that does not fit into memory.
Reconcile ==
  /\ started /\ reconcile
  /\ reconcile' = FALSE
  /\ LET want == Shown(Working.table)
     IN accessories' \in {Added(accessories \intersect want, want), accessories}
  /\ UNCHANGED <<flash, persisted, draft, commit, queue, started, saved, requests>>

-----------------------------------------------------------------------------

Init ==
  /\ \E cfg \in Configs : Valid(cfg.table) /\ flash = cfg /\ persisted = cfg
  /\ panel = DefaultPanel
  /\ session = NoSession
  /\ pending = 0 /\ status = "idle"
  /\ queue = <<>>
  /\ reconcile = FALSE /\ started = FALSE /\ accessories = {}
  /\ saved = {} /\ requests = 0

EditDetectors ==
  \E S \in SUBSET Detectors \ {{}} :
    \/ \E mark \in Marks \ {"absent"} : Edit(S, mark)
    \/ \E out \in BOOLEAN : Exclude(S, out)

Handler ==
  \/ EditDetectors
  \/ \E p \in Panels : SelectPanel(p)
  \/ Commit \/ HomekitApply \/ TurnOnHomekit \/ RequestReboot
  \/ \E cfg \in Configs : Import(cfg)

Loop ==
  \/ Saves \/ SaveFails \/ StartHomekit \/ ApplyHomekit \/ Reboots
  \/ \E S \in SUBSET Detectors, p \in Panels : \E G \in SUBSET S : Seed(S, G, p)

Next == Handler \/ Loop \/ Reconcile \/ PowerFails

Spec == Init /\ [][Next]_vars

\* Behaviours in which detectors are edited and committed, and nobody selects
\* a panel, scans or imports.
DetectorsOnly ==
  Init /\ [][EditDetectors \/ Commit \/ HomekitApply \/ Saves \/ ApplyHomekit]_vars

-----------------------------------------------------------------------------
(* Properties *)

Queued(id) == \E i \in 1..Len(queue) : queue[i].op = "reload" /\ queue[i].id = id

\* A commit is reported as saved by the writing of exactly the configuration
\* that was committed, not by that of an import that was waiting before it.
SettledByItsWrite ==
  status = "pending" /\ status' = "saved"
    => Head(queue).id = pending /\ flash' = Head(queue).cfg

SavedMeansWritten == [][SettledByItsWrite]_vars

\* The selection a commit took out of the session is never nowhere: it waits
\* to be written, or was written, or is open in a session again.
SelectionSurvives ==
  /\ pending # 0 => Queued(pending)
  /\ status = "failed" => session.some

\* A reboot is granted only when the flash holds the detectors the setup
\* shows and no configuration is still on its way there.
GrantedWhenSaved ==
  queue' = Append(queue, Reboot) /\ requests' # requests
    => flash.table = Working.table /\ \A id \in Commits \union {0} : ~Queued(id)

RebootIsSafe == [][GrantedWhenSaved]_vars

\* HomeKit is reconciled only after the commit of its own request is written.
ReconciledAfterSave == ~reconcile /\ reconcile' => Head(queue).id \in saved

ApplyFollowsSave == [][ReconciledAfterSave]_vars

\* No configuration with an error reaches the flash, whatever is edited,
\* seeded or imported between its validation and the write.
SavedIsValid == Valid(flash.table)

\* SetupState.panel is "carried through seed/commit so a sensor commit can
\* never reset it": while nobody selects a panel, the saved one stays.
PanelIsKept == [][flash'.panel = flash.panel]_vars
=============================================================================
