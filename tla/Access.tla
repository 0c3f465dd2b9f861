------------------------------- MODULE Access -------------------------------
(***************************************************************************)
(* Who may change settings and who may reduce security: login password,    *)
(* disarm PIN and their lockouts in NVS                                    *)
(* (crates/telenot-esp-bridge/src/storage.rs), the session and first-boot  *)
(* gate of the REST interface (crates/telenot-app/src/api/), the decision  *)
(* on commands of MQTT/REST and of HomeKit                                 *)
(* (crates/telenot-app/src/command.rs) and the core's own disarm gate that *)
(* the loop keeps (crates/telenot-esp-bridge/src/app_loop.rs).             *)
(*                                                                         *)
(* The HTTP server runs one request at a time, and a handler holds the     *)
(* mutex of App: it is one step.  A pass of the loop is not: it reads the  *)
(* remote-disarm switch and the presence of a PIN once (BeginPass) and     *)
(* handles its intents later, between requests.  An intent carries nothing *)
(* that depends on the state, so it may be given at any moment.            *)
(*                                                                         *)
(* A password or PIN that is given is right or wrong; a session token is   *)
(* the current one or refused.  A write to NVS may fail; a power failure   *)
(* between two writes is a failure of the later ones followed by Restart.  *)
(* A read may fail where the code then takes a value for absent that opens *)
(* something: at a start.  Elsewhere an unreadable value refuses.          *)
(***************************************************************************)
EXTENDS Naturals

CONSTANTS
  MaxFails,             \* LOGIN_MAX_FAILS, PIN_MAX_FAILS
  Window                \* LOGIN_LOCK_MS, PIN_LOCK_MS in steps of the clock

ASSUME AccessAssumption ==
  /\ MaxFails \in Nat \ {0}
  /\ Window \in Nat \ {0}

Locks == {"login", "pin"}
Kinds == {"arm", "disarm"}        \* disarm: also bypassing a detector area
None  == "none"

VARIABLES
  lock,                 \* PersistLock in RAM
  kept,                 \* its two NVS keys
  secret,               \* NVS: pw_hash, pw_changed, pin_hash present
  session,              \* App.session and App.csrf
  setup,                \* App.setup: remote_disarm, mqtt.homekit_mode, homekit_disarm
  saved,                \* NVS: remote_disarm
  pass,                 \* what the current pass of the loop read
  gate,                 \* CoreOptions.disarm_enabled
  taken,                \* the command the core accepted in the last step
  wrong,                \* history: wrong guesses at each lock since the last wait or success
  chosen,               \* history: an owner has stored a password
  touched               \* history: a setting was changed by a request

settings == <<setup, saved, pass, gate>>
history  == <<wrong, chosen, touched>>
vars     == <<lock, kept, secret, session, settings, taken, history>>

TypeOK ==
  /\ lock \in [Locks -> [fails : 0..(MaxFails - 1), until : BOOLEAN, left : 0..Window]]
  /\ kept \in [Locks -> [fails : 0..(MaxFails - 1), until : BOOLEAN]]
  /\ secret \in [hash : BOOLEAN, changed : BOOLEAN, pin : BOOLEAN]
  /\ setup \in [remote : BOOLEAN, homekit : BOOLEAN, hkDisarm : BOOLEAN]
  /\ {session, saved, gate, chosen, touched} \subseteq BOOLEAN
  /\ pass \in [begun : BOOLEAN, remote : BOOLEAN, pin : BOOLEAN]
  /\ taken \in [from : {"pin", "homekit", None}, cmd : Kinds]
  /\ wrong \in [Locks -> 0..MaxFails]
  /\ \A l \in Locks : lock[l].left > 0 => lock[l].until

-----------------------------------------------------------------------------
(* Lockouts *)

Locked(l) == lock[l].left > 0

\* (Mutant: reaching the limit leaves the counter as it is.)
FailedKept(k) ==
  [fails |-> k.fails + 1, until |-> k.fails + 1 >= MaxFails,
   left |-> IF k.fails + 1 >= MaxFails THEN Window ELSE k.left]

Failed(k) ==
  IF k.fails + 1 >= MaxFails
    THEN [fails |-> 0, until |-> TRUE, left |-> Window]
    ELSE [k EXCEPT !.fails = @ + 1]

Nothing == [from |-> None, cmd |-> "arm"]

NoPass == [begun |-> FALSE, remote |-> FALSE, pin |-> FALSE]

Clear == [fails |-> 0, until |-> FALSE, left |-> 0]

\* Either of the two writes may fail: that is logged and otherwise ignored.
Persist(l, k) ==
  \E f \in {k.fails, kept[l].fails}, u \in {k.until, kept[l].until} :
    kept' = [kept EXCEPT ![l] = [fails |-> f, until |-> u]]

Note(l, right) ==
  LET k == IF right THEN Clear ELSE Failed(lock[l])
  IN /\ lock' = [lock EXCEPT ![l] = k]
     /\ wrong' = [wrong EXCEPT ![l] = IF right THEN 0 ELSE @ + 1]
     /\ Persist(l, k)

\* (Mutant: the window is not restored at start.)
LoadedOpen(k) == [fails |-> k.fails, until |-> k.until, left |-> 0]

\* A window that was open, or has run out unnoticed, starts again in full.
Loaded(k) == [fails |-> k.fails, until |-> k.until,
              left |-> IF k.until THEN Window ELSE 0]

\* now_ms() moves on
Tick(l) ==
  /\ Locked(l)
  /\ lock' = [lock EXCEPT ![l].left = @ - 1]
  /\ wrong' = [wrong EXCEPT ![l] = IF lock[l].left = 1 THEN 0 ELSE @]
  /\ taken' = Nothing
  /\ UNCHANGED <<kept, secret, session, settings, chosen, touched>>

-----------------------------------------------------------------------------
(* Session and first-boot gate *)

ChangeRequired == ~secret.changed
Authed         == session
Admitted       == Authed /\ ~ChangeRequired

Login ==
  /\ ~Locked("login")
  /\ \E right \in BOOLEAN :
       /\ right => secret.hash
       /\ session' = (right \/ session)
       /\ Note("login", right)
  /\ taken' = Nothing
  /\ UNCHANGED <<secret, settings, chosen, touched>>

\* (Mutant: pw_changed is written before pw_hash.)
StoreChangedFirst ==
  \E hash, changed \in BOOLEAN :
    /\ hash => changed
    /\ secret' = [secret EXCEPT !.changed = @ \/ changed]
    /\ chosen' = (chosen \/ hash)
    /\ session' = ~(hash /\ ~ChangeRequired)

\* pw_hash and then pw_changed; the first error ends it
StorePassword ==
  \E hash, changed \in BOOLEAN :
    /\ changed => hash
    /\ secret' = [secret EXCEPT !.changed = @ \/ changed]
    /\ chosen' = (chosen \/ hash)
    /\ session' = ~(changed /\ ~ChangeRequired)

\* A rotation with a wrong current password.  It is looked at whether or not the
\* login is locked, and is not counted.
RotationRefused ==
  /\ ~ChangeRequired
  /\ UNCHANGED <<secret, session, chosen>>

\* A rotation needs the current password; only a stored one ends the session.
SetPassword ==
  /\ Authed
  /\ StorePassword \/ RotationRefused
  /\ taken' = Nothing
  /\ UNCHANGED <<lock, kept, settings, wrong, touched>>

Logout ==
  /\ Authed
  /\ session' = FALSE
  /\ taken' = Nothing
  /\ UNCHANGED <<lock, kept, secret, settings, history>>

-----------------------------------------------------------------------------
(* Settings *)

Setting ==
  /\ Admitted
  /\ touched' = TRUE
  /\ taken' = Nothing
  /\ UNCHANGED <<session, saved, pass, gate, chosen>>

PutPin ==
  /\ Setting
  /\ secret' = [secret EXCEPT !.pin = TRUE]
  /\ Note("pin", TRUE)
  /\ UNCHANGED setup

PutRemoteDisarm(on) ==
  /\ Setting
  /\ on => secret.pin
  /\ setup' = [setup EXCEPT !.remote = on]
  /\ UNCHANGED <<lock, kept, secret, wrong>>

PutMqtt(homekit, hkDisarm) ==
  /\ Setting
  /\ setup' = [setup EXCEPT !.homekit = homekit, !.hkDisarm = hkDisarm]
  /\ UNCHANGED <<lock, kept, secret, wrong>>

\* A backup restores the switch whether or not this device has a PIN.
ImportBackup ==
  /\ Setting
  /\ setup' \in [remote : BOOLEAN, homekit : BOOLEAN, hkDisarm : BOOLEAN]
  /\ UNCHANGED <<lock, kept, secret, wrong>>

-----------------------------------------------------------------------------
(* The loop: the core's gate, and commands *)

Reducing(cmd) == cmd = "disarm"

SwitchAlone(remote, pin) == remote                                  \* mutant

DisarmEnabled(remote, pin) == remote /\ pin

\* The gate follows the switch when the switch has changed, and only then.
BeginPass ==
  /\ pass' = [begun |-> TRUE, remote |-> setup.remote, pin |-> secret.pin]
  /\ IF ~pass.begun \/ setup.remote # pass.remote
       THEN /\ gate' = DisarmEnabled(setup.remote, secret.pin)
            /\ saved' \in {saved, setup.remote}
       ELSE UNCHANGED <<gate, saved>>
  /\ taken' = Nothing
  /\ UNCHANGED <<lock, kept, secret, session, setup, history>>

\* Intent::ReloadConfig builds a new core with what this pass has read.
Reload ==
  /\ pass.begun
  /\ gate' = DisarmEnabled(pass.remote, pass.pin)
  /\ taken' = Nothing
  /\ UNCHANGED <<lock, kept, secret, session, setup, saved, pass, history>>

CoreTakes(from, cmd) ==
  taken' = IF Reducing(cmd) => gate THEN [from |-> from, cmd |-> cmd] ELSE Nothing

Disarms(right) == setup.remote /\ right

\* A PIN that is given is verified, and counted, before the switch is consulted.
VerifyPin(right) ==
  IF Locked("pin") \/ ~secret.pin
    THEN ~right /\ UNCHANGED <<lock, kept, wrong>>
    ELSE Note("pin", right)

\* What the event pump receives.  proper: parse_command_message makes cmd of
\* it.  The client library does not tell a retained message from another.
Messages == [complete : BOOLEAN, empty : BOOLEAN, proper : BOOLEAN, cmd : Kinds]

\* Fragments and the bridge's own empty wipes are not commands.
IsCommand(m) == m.complete /\ ~m.empty /\ m.proper

Command(cmd) ==
  /\ pass.begun
  /\ ~setup.homekit
  /\ \/ /\ ~Reducing(cmd)
        /\ CoreTakes("pin", cmd)
        /\ UNCHANGED <<lock, kept, wrong>>
     \/ /\ Reducing(cmd)
        /\ \E right \in BOOLEAN :
             /\ VerifyPin(right)
             /\ IF Disarms(right) THEN CoreTakes("pin", cmd) ELSE taken' = Nothing
  /\ UNCHANGED <<secret, session, settings, chosen, touched>>

HomekitAuthorized(cmd) == setup.homekit /\ (Reducing(cmd) => setup.hkDisarm)

Targets == {"stay", "away", "night", "disarm", "undefined"}

\* hk_target_to_cmd, in the write callback of the accessory
TargetCommand(t) == IF t \in {"stay", "away", "night"} THEN "arm" ELSE "disarm"

HomekitCommand(cmd) ==
  /\ pass.begun
  /\ HomekitAuthorized(cmd)
  /\ CoreTakes("homekit", cmd)
  /\ UNCHANGED <<lock, kept, secret, session, settings, history>>

-----------------------------------------------------------------------------
(* Start *)

\* A key that cannot be read counts as one that was never written.
Read(k) == [fails : {k.fails, 0}, until : {k.until, FALSE}]

\* A guess that is not in the record a start reads is forgotten.
Held(n, k) == IF k.until \/ n <= k.fails THEN n ELSE k.fails

\* The initial password is stored when there is none, and when the stored one
\* cannot be read: over it, and pw_changed after it.  Either write may fail.
FirstInit ==
  secret' \in {secret, [secret EXCEPT !.hash = TRUE],
                      [secret EXCEPT !.hash = TRUE, !.changed = FALSE]}

\* Which HomeKit settings were saved last is left open: saving them may fail.
Restart ==
  /\ \E read \in [Locks -> [fails : 0..(MaxFails - 1), until : BOOLEAN]] :
       /\ \A l \in Locks : read[l] \in Read(kept[l])
       /\ lock' = [l \in Locks |-> Loaded(read[l])]
       /\ wrong' = [l \in Locks |-> Held(wrong[l], read[l])]
  /\ FirstInit
  /\ session' = FALSE
  /\ setup' \in [remote : {saved}, homekit : BOOLEAN, hkDisarm : BOOLEAN]
  /\ gate' = DisarmEnabled(saved, secret.pin)
  /\ pass' = NoPass
  /\ taken' = Nothing
  /\ UNCHANGED <<kept, saved, chosen, touched>>

Init ==
  /\ lock = [l \in Locks |-> Clear]
  /\ kept = [l \in Locks |-> [fails |-> 0, until |-> FALSE]]
  /\ secret \in [hash : BOOLEAN, changed : {FALSE}, pin : {FALSE}]
  /\ session = FALSE
  /\ setup = [remote |-> FALSE, homekit |-> TRUE, hkDisarm |-> FALSE]
  /\ saved = FALSE
  /\ pass = NoPass
  /\ gate = FALSE
  /\ taken = Nothing
  /\ wrong = [l \in Locks |-> 0]
  /\ chosen = FALSE
  /\ touched = FALSE

Request ==
  \/ Login \/ SetPassword \/ Logout
  \/ PutPin
  \/ \E on \in BOOLEAN : PutRemoteDisarm(on)
  \/ \E homekit, hkDisarm \in BOOLEAN : PutMqtt(homekit, hkDisarm)
  \/ ImportBackup

Loop ==
  \/ BeginPass
  \/ Reload
  \/ \E m \in Messages : IsCommand(m) /\ Command(m.cmd)
  \/ \E t \in Targets : HomekitCommand(TargetCommand(t))

Next ==
  \/ Request
  \/ Loop
  \/ \E l \in Locks : Tick(l)
  \/ Restart

Spec == Init /\ [][Next]_vars

-----------------------------------------------------------------------------
(* Properties *)

\* After MaxFails wrong guesses in a row, at the login or with the PIN, that door
\* looks at no further one before a whole window has passed, also when the device
\* restarts in between (storage.rs PersistLock).  A restart forgets the guesses
\* its record does not hold, because a write failed, was cut off or cannot be
\* read, and no others.  Rotating the password is another door, and has no lock.
GuessesBounded == \A l \in Locks : wrong[l] >= MaxFails => Locked(l)

\* Whatever write fails and whenever the device restarts, no request changes a
\* setting before an owner has stored a password (set_password, first-boot gate
\* of dispatch).
OwnPasswordFirst == touched => chosen

\* The core takes a command only from the channel of the current mode; one that
\* reduces security only with a PIN on the device and the remote switch on when
\* the pass began, and over MQTT/REST only while the switch is still on and the
\* PIN is not locked (authorize_command, homekit_authorized, Core::on_command).
TakesAllowed ==
  taken'.from # None =>
    /\ (taken'.from = "homekit") <=> setup.homekit
    /\ Reducing(taken'.cmd) =>
         /\ pass.remote /\ secret.pin
         /\ IF taken'.from = "homekit" THEN setup.hkDisarm
                                       ELSE setup.remote /\ ~Locked("pin")

TakesOnlyAllowed == [][TakesAllowed]_vars

=============================================================================
