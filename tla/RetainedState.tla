---------------------------- MODULE RetainedState ----------------------------
(***************************************************************************)
(* What the broker retains against what the core knows.  The core derives  *)
(* arm state, readiness, bypasses and sensors from the panel's cyclic      *)
(* status and publishes CHANGES (crates/telenot-core/src/lib.rs); the sink *)
(* drops a publication while the broker is away and later streams the      *)
(* whole view again, a few messages per loop pass, at a cursor into a      *)
(* sequence whose length follows the core's caches                         *)
(* (crates/telenot-esp-bridge/src/mqtt.rs and app_loop.rs,                 *)
(* crates/telenot-app/src/mqtt.rs).                                        *)
(*                                                                         *)
(* A loop pass is two steps: Serve (resubscription, setup batch) and one   *)
(* read of the panel line.  Deadlines are choices: when they run out is    *)
(* the subject of CommandTx.  The broker, its last will and the panel are  *)
(* external.  Nothing in the code reads a retained topic back, so the      *)
(* broker's content is observed at one topic, chosen at the start.         *)
(***************************************************************************)
EXTENDS Naturals, FiniteSets, Sequences, SequencesExt

CONSTANTS
  Modes,                \* the mode bits an area status may show
  Zones,                \* Meldebereiche with a bypass readback, in address order
  Sensors,              \* confirmed sensors, in configuration order
  SETUP_BUDGET,         \* messages per pass of PublishBatch
  RECOVERY_FRAMES,
  MaxReloads,           \* bound: configurations saved
  MaxDrops              \* bound: publications the full outbox refuses

ASSUME RetainedAssumption ==
  /\ Modes \subseteq {"none", "unscharf", "intern", "extern", "alarm"}
  /\ Zones \in Seq(ToSet(Zones)) /\ Sensors \in Seq(ToSet(Sensors))
  /\ SETUP_BUDGET \in Nat \ {0}
  /\ RECOVERY_FRAMES \in Nat \ {0}
  /\ MaxReloads \in Nat
  /\ MaxDrops \in Nat

VARIABLES
  hiplex,               \* the panel is a hiplex GMS plus
  online,               \* availability = Online
  recoveryCount,
  heard,                \* last_frame_at of the core is Some
  frameSeen,            \* last_frame_ms of the Runtime is Some
  armState,
  ready,                \* area 1: "unseen" without an entry, else intern_bereit
  bypassed,             \* mb_bypassed
  sensor,               \* sensor_state (and sensor_seen: an entry is fresh)
  night,                \* night_flag
  connected,
  resub,                \* poll_resubscribe: "idle", "flagged" or "wiped"
  pending, cursor,      \* PublishBatch
  retry,                \* a publication was dropped
  announced,            \* online_announced
  watched,              \* the topic under observation, any one of Topics
  retained,             \* external: what the broker retains there
  reading,              \* the pass has served and will now read
  skipped,              \* history: the view shrank under a running batch
  reloads, drops

core   == <<online, recoveryCount, heard, armState, ready, bypassed, sensor>>
batch  == <<pending, cursor>>
sink   == <<connected, resub, batch, retry, announced>>
bounds == <<reloads, drops>>
vars   == <<hiplex, watched, core, frameSeen, night, sink, retained, reading, skipped, bounds>>

-----------------------------------------------------------------------------
(* Topics and the view *)

ArmStates == {"DISARMED", "ARMED_HOME", "ARMED_NIGHT", "ARMED_AWAY", "TRIGGERED"}
Seen(table) == {x \in DOMAIN table : table[x] # "unseen"}

Topics ==
  {<<t, "">> : t \in {"availability", "state", "ready", "diag"}}
    \cup ({"bypassed"} \X ToSet(Zones))
    \cup ({"reachable", "sensor"} \X ToSet(Sensors))

\* The values an input takes.  The topics do not depend on each other's values,
\* so only the one under observation varies.
Observed(topic, name, values, otherwise) ==
  IF watched = <<topic, name>> THEN values ELSE {otherwise}

Msg(topic, name, value) == [topic |-> <<topic, name>>, value |-> value]

\* A message of the view, with its place in the stream.
At(place, topic, name, value) == [place |-> place, topic |-> <<topic, name>>, value |-> value]

\* What has no value yet is left out of the stream, what follows moves up.
ReadyCount   == IF ready = "unseen" THEN 0 ELSE 1
ZoneCount(i) == Cardinality({j \in 1..i : bypassed[Zones[j]] # "unseen"})
ZonePlace(i)   == 2 + ReadyCount + ZoneCount(i)
SensorPlace(i) == 2 + ReadyCount + ZoneCount(Len(Zones)) + 2 * i
ViewLength == SensorPlace(Len(Sensors))

NoReadyView == {}                                           \* mutant
ReadyView   == IF ready = "unseen" THEN {} ELSE {At(3, "ready", "", ready)}

\* republish_for_each: the core's view as a stream of publications.
View ==
  {At(1, "availability", "", IF online /\ heard THEN "online" ELSE "offline"),
   At(2, "state", "", armState)}
    \cup ReadyView
    \cup {At(ZonePlace(i), "bypassed", Zones[i], bypassed[Zones[i]]) :
            i \in {i \in 1..Len(Zones) : bypassed[Zones[i]] # "unseen"}}
    \cup {At(SensorPlace(i) - 1, "reachable", Sensors[i],
             IF sensor[Sensors[i]] = "unseen" THEN "offline" ELSE "online") : i \in 1..Len(Sensors)}
    \cup {At(SensorPlace(i), "sensor", Sensors[i],
             IF sensor[Sensors[i]] = "unseen" THEN "unknown" ELSE sensor[Sensors[i]]) :
            i \in 1..Len(Sensors)}

Stored(messages) ==
  IF \E m \in messages : m.topic = watched
  THEN (CHOOSE m \in messages : m.topic = watched).value
  ELSE retained

\* EspMqttSink::publish_raw for the publications of one handler: dropped while
\* the broker is away; a full outbox refuses some of them.  Only the topic under
\* observation tells which, so it is enough to say that one was refused.
Publish(messages) ==
  \/ /\ connected \/ messages = {}
     /\ retained' = Stored(messages)
     /\ UNCHANGED <<retry, drops>>
  \/ /\ ~connected /\ messages # {}
     /\ retry' = TRUE
     /\ UNCHANGED <<retained, drops>>
  \/ /\ connected /\ messages # {}
     /\ drops < MaxDrops
     /\ drops' = drops + 1
     /\ retry' = TRUE
     /\ \E refused \in messages : retained' = Stored(messages \ {refused})

-----------------------------------------------------------------------------
(* The broker link *)

\* The event pump raises flags only.
Connected ==
  /\ ~connected
  /\ connected' = TRUE
  /\ resub' = "flagged"
  /\ UNCHANGED <<hiplex, watched, core, frameSeen, night, batch, retry, announced, retained,
                 reading, skipped, bounds>>

\* The broker then publishes the last will.
Disconnected ==
  /\ connected
  /\ connected' = FALSE
  /\ retained' = Stored({Msg("availability", "", "offline")})
  /\ UNCHANGED <<hiplex, watched, core, frameSeen, night, resub, batch, retry, announced,
                 reading, skipped, bounds>>

\* retry_due: a dropped publication is followed by the whole view, rate limited.
RetryDue ==
  /\ ~reading
  /\ retry
  /\ connected
  /\ retry' = FALSE
  /\ pending' = TRUE
  /\ cursor' = 0
  /\ announced' = FALSE
  /\ skipped' = FALSE
  /\ UNCHANGED <<hiplex, watched, core, frameSeen, night, connected, resub, retained, reading, bounds>>

-----------------------------------------------------------------------------
(* Serve: the part of a pass before the read *)

\* One pass of publish_setup from position c: the batch sends up to its budget
\* and stops at a message the outbox refuses.
SetupPass(c) ==
  LET last == IF c + SETUP_BUDGET < ViewLength THEN c + SETUP_BUDGET ELSE ViewLength
      Send(upTo) ==
        /\ retained' = Stored({m \in View : c < m.place /\ m.place <= upTo})
        /\ cursor' = IF upTo > c THEN upTo ELSE c
        /\ pending' = (cursor' < ViewLength)
  IN  \/ /\ Send(last)
         /\ UNCHANGED <<retry, drops>>
      \/ /\ drops < MaxDrops
         /\ c < last
         /\ \E upTo \in c..(last - 1) : Send(upTo)
         /\ drops' = drops + 1
         /\ retry' = TRUE

\* request_setup starts the batch over.
Resumed(reconnected) == cursor                              \* mutant
Start(reconnected)   == IF reconnected THEN 0 ELSE cursor

Serve ==
  /\ ~reading
  /\ reading' = TRUE
  /\ resub' = IF resub = "flagged" THEN "wiped" ELSE "idle"
  /\ LET reconnected == resub = "wiped"
         from == Start(reconnected)
     IN  /\ announced' = (announced /\ ~reconnected)
         /\ skipped' = (skipped /\ ~reconnected)
         /\ IF (pending \/ reconnected) /\ connected
            THEN SetupPass(from)
            ELSE /\ pending' = (pending \/ reconnected)
                 /\ cursor' = from
                 /\ UNCHANGED <<retained, retry, drops>>
  /\ UNCHANGED <<hiplex, watched, core, frameSeen, night, connected, reloads>>

\* What go_unavailable and a new Core forget.
ForgetsAllButState ==                                       \* mutant
  /\ armState' = armState
  /\ ready' = "unseen"
  /\ bypassed' = [z \in ToSet(Zones) |-> "unseen"]
  /\ sensor' = [s \in ToSet(Sensors) |-> "unseen"]
Forget ==
  /\ armState' = "unknown"
  /\ ready' = "unseen"
  /\ bypassed' = [z \in ToSet(Zones) |-> "unseen"]
  /\ sensor' = [s \in ToSet(Sensors) |-> "unseen"]

\* Intent::ReloadConfig: a new Core, the same sink.  The night flag is lost.
ReloadConfig ==
  /\ reading
  /\ reloads < MaxReloads
  /\ reloads' = reloads + 1
  /\ Forget
  /\ online' = TRUE
  /\ recoveryCount' = 0
  /\ heard' = FALSE
  /\ night' = FALSE
  /\ IF connected THEN pending' = TRUE /\ cursor' = 0 ELSE UNCHANGED batch
  /\ skipped' = (skipped /\ ~connected)
  /\ UNCHANGED <<hiplex, watched, frameSeen, connected, resub, retry, announced,
                 retained, reading, drops>>

-----------------------------------------------------------------------------
(* The read: one telegram, a part of one, or none *)

\* note_alive
Recovers == ~online /\ recoveryCount + 1 >= RECOVERY_FRAMES

NoteAlive ==
  /\ heard' = TRUE
  /\ frameSeen' = TRUE
  /\ online' = (online \/ Recovers)
  /\ recoveryCount' = IF online \/ Recovers THEN 0 ELSE recoveryCount + 1

AliveMsgs == IF Recovers THEN {Msg("availability", "", "online")} ELSE {}

\* The step after the read: the bridge announces itself once per connection.
AnnouncesAnyway == connected /\ ~announced /\ frameSeen'     \* mutant
Announces == connected /\ ~announced /\ online' /\ frameSeen'

EndRead(messages) ==
  /\ reading' = FALSE
  /\ announced' = (announced \/ Announces)
  /\ Publish(messages \cup (IF Announces THEN {Msg("availability", "", "online")} ELSE {}))
  /\ UNCHANGED <<hiplex, watched, connected, resub, batch, reloads>>

\* A poll may send an arm or disarm command of area 1; the virtual night mode
\* follows the command sent, and arming for the night needs the readiness.
Poll ==
  /\ reading
  /\ NoteAlive
  /\ \/ UNCHANGED night
     \/ \E wantNight \in Observed("state", "", BOOLEAN, FALSE) :
          /\ ~hiplex
          /\ wantNight => ready = "yes"
          /\ night' = wantNight
  /\ EndRead(AliveMsgs)
  /\ UNCHANGED <<armState, ready, bypassed, sensor, skipped>>

\* derive_arm_state, and the mode half of apply_hiplex_area
Derived(mode) ==
  CASE mode = "alarm"    -> "TRIGGERED"
    [] mode = "extern"   -> "ARMED_AWAY"
    [] mode = "intern"   -> IF night /\ ~hiplex THEN "ARMED_NIGHT" ELSE "ARMED_HOME"
    [] mode = "unscharf" -> "DISARMED"
    [] OTHER             -> "unknown"

ClearsNight(mode) == ~hiplex /\ mode \in {"extern", "unscharf"}

\* What an area status changes, and which changes it publishes.
AreaStatus(mode, rdy) ==
  /\ armState' = Derived(mode)
  /\ ready' = rdy
  /\ night' = (night /\ ~ClearsNight(mode))

ReadyMsgs(rdy) == IF rdy # ready THEN {Msg("ready", "", rdy)} ELSE {}

AreaMsgs(mode, rdy) ==
  LET first == hiplex /\ ready = "unseen"
  IN  (IF first \/ Derived(mode) # armState THEN {Msg("state", "", Derived(mode))} ELSE {})
        \cup ReadyMsgs(rdy)

\* apply_block_status over the sensors and zones a telegram covers
Covered(table, seen) == [x \in DOMAIN table |-> IF x \in DOMAIN seen THEN seen[x] ELSE table[x]]

SensorMsgs(seen) ==
  {Msg("reachable", s, "online") : s \in {s \in DOMAIN seen : sensor[s] = "unseen"}}
    \cup {Msg("sensor", s, seen[s]) : s \in {s \in DOMAIN seen : sensor[s] # seen[s]}}

\* update_mb_bypassed: the first observation is published only when bypassed.
QuietFirst(seen) ==                                         \* mutant
  {Msg("bypassed", z, seen[z]) :
     z \in {z \in DOMAIN seen : bypassed[z] \notin {"unseen", seen[z]}}}
ZoneMsgs(seen) ==
  {Msg("bypassed", z, seen[z]) :
     z \in {z \in DOMAIN seen : IF bypassed[z] = "unseen" THEN seen[z] = "ON"
                                ELSE bypassed[z] # seen[z]}}

Inputs(seen) ==
  /\ reading
  /\ NoteAlive
  /\ sensor' = Covered(sensor, seen)
  /\ EndRead(AliveMsgs \cup SensorMsgs(seen))
  /\ UNCHANGED <<armState, ready, bypassed, night, skipped>>

Outputs(mode, rdy, seen) ==
  /\ reading
  /\ NoteAlive
  /\ hiplex => DOMAIN seen = {}
  /\ AreaStatus(mode, rdy)
  /\ bypassed' = Covered(bypassed, seen)
  /\ EndRead(AliveMsgs \cup AreaMsgs(mode, rdy) \cup ZoneMsgs(seen))
  /\ UNCHANGED <<sensor, skipped>>

\* handle_spontaneous: a fault point is published once and kept nowhere, so the
\* view cannot repeat it.
Spontaneous(fault) ==
  /\ reading
  /\ NoteAlive
  /\ EndRead(AliveMsgs \cup {Msg("diag", "", fault)})
  /\ UNCHANGED <<armState, ready, bypassed, sensor, night, skipped>>

\* Bytes that complete no telegram.
Partial ==
  /\ reading
  /\ UNCHANGED <<core, frameSeen, night, skipped>>
  /\ EndRead({})

-----------------------------------------------------------------------------
(* on_tick *)

\* The sensors in late have missed their deadline, the hiplex area status too
\* when areaLost, the whole line when stale.
Tick(late, areaLost, stale) ==
  /\ reading
  /\ areaLost => hiplex /\ ready # "unseen"
  /\ stale => online /\ late = Seen(sensor) /\ (hiplex /\ ready # "unseen" => areaLost)
  /\ online' = (online /\ ~stale)
  /\ recoveryCount' = IF stale THEN 0 ELSE recoveryCount
  /\ IF stale
     THEN Forget
     ELSE /\ sensor' = [s \in DOMAIN sensor |-> IF s \in late THEN "unseen" ELSE sensor[s]]
          /\ armState' = IF areaLost THEN "unknown" ELSE armState
          /\ ready' = IF areaLost THEN "unseen" ELSE ready
          /\ UNCHANGED bypassed
  /\ UNCHANGED <<heard, frameSeen, night>>
  /\ skipped' = (skipped \/ (pending /\ ViewLength' < ViewLength))
  /\ EndRead({Msg("reachable", s, "offline") : s \in late}
               \cup (IF stale THEN {Msg("availability", "", "offline"),
                                    Msg("state", "", "unavailable")}
                     ELSE IF areaLost THEN {Msg("state", "", "unknown")} ELSE {}))

\* A crash or a power cycle.  Only NVS and the broker remember; main never
\* restores the night flag.
Reboot ==
  /\ Forget
  /\ online' = TRUE
  /\ recoveryCount' = 0
  /\ heard' = FALSE
  /\ frameSeen' = FALSE
  /\ night' = FALSE
  /\ connected' = FALSE
  /\ resub' = "idle"
  /\ pending' = TRUE
  /\ cursor' = 0
  /\ retry' = FALSE
  /\ announced' = FALSE
  /\ skipped' = FALSE
  /\ reading' = FALSE
  /\ retained' = Stored({Msg("availability", "", "offline")})
  /\ UNCHANGED <<hiplex, watched, bounds>>

-----------------------------------------------------------------------------
Init ==
  /\ hiplex \in BOOLEAN
  /\ online = TRUE
  /\ recoveryCount = 0
  /\ heard = FALSE
  /\ frameSeen = FALSE
  /\ armState = "unknown"
  /\ ready = "unseen"
  /\ bypassed = [z \in ToSet(Zones) |-> "unseen"]
  /\ sensor = [s \in ToSet(Sensors) |-> "unseen"]
  /\ night = FALSE
  /\ connected = FALSE
  /\ resub = "idle"
  /\ pending = TRUE
  /\ cursor = 0
  /\ retry = FALSE
  /\ announced = FALSE
  /\ watched \in Topics
  /\ retained = "unset"
  /\ reading = FALSE
  /\ skipped = FALSE
  /\ reloads = 0
  /\ drops = 0

Switching == {"ON", "OFF"}

\* What a telegram that covers a part of the items may show.
Readings(topic, items) ==
  {seen \in UNION {[part -> Switching] : part \in SUBSET items} :
     \A x \in DOMAIN seen : seen[x] \in Observed(topic, x, Switching, "ON")}

Read ==
  \/ Poll
  \/ Partial
  \/ \E fault \in Observed("diag", "", Switching, "ON") : Spontaneous(fault)
  \/ \E seen \in Readings("sensor", ToSet(Sensors)) : Inputs(seen)
  \/ \E mode \in Observed("state", "", Modes, "unscharf"),
       rdy \in Observed("ready", "", {"yes", "no"}, "yes"),
       seen \in Readings("bypassed", ToSet(Zones)) : Outputs(mode, rdy, seen)
  \/ \E late \in SUBSET Seen(sensor), areaLost, stale \in BOOLEAN : Tick(late, areaLost, stale)

Next == Connected \/ Disconnected \/ RetryDue \/ Serve \/ ReloadConfig \/ Read \/ Reboot

Spec == Init /\ [][Next]_vars
-----------------------------------------------------------------------------
(* Properties *)

\* The sink has nothing left to tell the broker.
Settled == connected /\ resub = "idle" /\ ~pending /\ ~retry

Shows(topic, name, value) == watched = <<topic, name>> /\ retained = value

\* Fail-safe: whatever was dropped, replayed or announced in which order, the
\* broker says "online" only while the core takes the panel line for alive or
\* the sink still owes the broker the truth.
OnlineIsTrue == Shows("availability", "", "online") => online \/ retry \/ pending

\* MQTT-CONTRACT: never a stale arm state.  Once the sink is settled the
\* broker has the core's arm state, and none at all while the core has none.
StateIsCurrent ==
  Settled /\ watched = <<"state", "">> =>
    \/ retained = armState
    \/ armState = "unknown" /\ retained \notin ArmStates

\* Once settled the broker shows the readiness the pre-arm gate would use.
ReadinessIsCurrent ==
  Settled /\ watched = <<"ready", "">> /\ ready # "unseen" => retained = ready

\* Once settled, a sensor is offered as reachable exactly when the core has a
\* value for it, and with that value.
SensorsAreCurrent ==
  Settled /\ ~skipped =>
    \A s \in DOMAIN sensor :
      /\ watched = <<"reachable", s>> => (retained = "online" <=> sensor[s] # "unseen")
      /\ watched = <<"sensor", s>> /\ sensor[s] # "unseen" => retained = sensor[s]

\* Once settled, a bypassed detection area is shown as bypassed.
BypassNeverHidden ==
  Settled => \A z \in DOMAIN bypassed :
    watched = <<"bypassed", z>> /\ bypassed[z] = "ON" => retained = "ON"
=============================================================================
