------------------------------ MODULE Firmware ------------------------------
(***************************************************************************)
(* The setup window and the firmware update: the window, the button and    *)
(* the self-test of the loop (crates/telenot-esp-bridge/src/app_loop.rs),  *)
(* the streaming upload (httpd.rs, ota.rs) and its state                   *)
(* (crates/telenot-app/src/ota.rs).                                        *)
(*                                                                         *)
(* One step of the clock is a pass of the loop with the time that has      *)
(* gone by since the last; a point in time is kept as the steps left until *)
(* then, so that a device may run for ever.  The HTTP task has one request *)
(* at a time; an upload is one that lasts.  Stopping the server waits for  *)
(* its task, and the loop waits with it.                                   *)
(*                                                                         *)
(* What esp-idf does is taken from how it is used: an update begins by     *)
(* erasing the slot that is not running and is refused while the running   *)
(* one is unverified; the bootloader tries the boot slot first and gives   *)
(* up one that was started and never confirmed.                            *)
(***************************************************************************)
EXTENDS Naturals

CONSTANTS
  SelfTest,             \* SelfTest::DEFAULT_DURATION_S in steps of the clock
  Window,               \* WINDOW_MS
  FirstSetup,           \* FIRST_SETUP_MS, also the cap of the web extension
  MaxPresses,           \* bound: presses of BUT1
  MaxStarts             \* bound: restarts of the device

ASSUME FirmwareAssumption ==
  /\ {SelfTest, Window, FirstSetup} \subseteq Nat \ {0}
  /\ Window <= FirstSetup
  /\ MaxPresses \in Nat /\ MaxStarts \in Nat

Slots  == {0, 1}
Other(s) == 1 - s

VARIABLES
  left,                 \* until setup_until
  cap,                  \* until setup_cap
  http,                 \* the HTTP server: "open", "stopping", "closed"
  held,                 \* btn_handled
  extend,               \* an ExtendSetupWindow intent waits
  trial,                \* until ota_self_test is due, 0 for None
  phase,                \* App.ota.phase
  running,              \* the slot that runs
  boot,                 \* the slot the bootloader tries first
  image,                \* what the slots hold
  state,                \* their SlotState
  pressed,              \* history: until the window of the last press ends
  presses, starts       \* bounds

clocks == <<left, cap, trial, pressed>>
button == <<held, presses>>
slots  == <<running, boot, image, state>>
vars   == <<clocks, http, button, extend, phase, slots, starts>>

Images == {"whole", "torn"}
States == {"valid", "new", "pending", "invalid"}
Phases == {"idle", "receiving", "ready", "failed"}

TypeOK ==
  /\ left \in 0..FirstSetup /\ cap \in 0..FirstSetup /\ pressed \in 0..Window
  /\ http \in {"open", "stopping", "closed"}
  /\ held \in BOOLEAN /\ extend \in BOOLEAN
  /\ trial \in 0..SelfTest
  /\ phase \in Phases
  /\ running \in Slots /\ boot \in Slots
  /\ image \in [Slots -> Images] /\ state \in [Slots -> States]
  /\ presses \in 0..MaxPresses /\ starts \in 0..MaxStarts
  /\ http = "stopping" => phase = "receiving"

Larger(a, b)  == IF a >= b THEN a ELSE b
Smaller(a, b) == IF a <= b THEN a ELSE b

-----------------------------------------------------------------------------
(* Upload *)

\* (Mutant: an update that is still on trial does not refuse the next.)
UploadBeginsAnyway ==
  /\ http = "open" /\ phase # "receiving"
  /\ phase' = "receiving" /\ image' = [image EXCEPT ![Other(running)] = "torn"]
  /\ UNCHANGED <<clocks, http, button, extend, running, boot, state, starts>>

\* The gate: no second upload; a capture, or a length or digest that is missing
\* refuse it without a trace here.  A length no image has leaves the status
\* failed, and so does an update that is still on trial.
UploadBegins ==
  /\ http = "open" /\ phase # "receiving"
  /\ \/ phase' = "failed" /\ UNCHANGED image
     \/ /\ state[running] \notin {"new", "pending"}
        /\ phase' = "receiving" /\ image' = [image EXCEPT ![Other(running)] = "torn"]
  /\ UNCHANGED <<clocks, http, button, extend, running, boot, state, starts>>

\* (Mutant: the loop does not wait for the upload when it stops the server.)
ServedNot == UNCHANGED http

\* The handler is done; a server that was to stop is stopped.
Served == http' = IF http = "stopping" THEN "closed" ELSE http

\* No image, too many or too few bytes, an error of the flash or of the
\* connection, the wrong digest: the update is dropped.
UploadFails ==
  /\ phase = "receiving"
  /\ phase' = "failed"
  /\ Served
  /\ UNCHANGED <<clocks, button, extend, slots, starts>>

\* complete() checks the image and only then sets the boot slot.
UploadCompletes ==
  /\ phase = "receiving"
  /\ phase' = "ready"
  /\ image' = [image EXCEPT ![Other(running)] = "whole"]
  /\ state' = [state EXCEPT ![Other(running)] = "new"]
  /\ boot' = Other(running)
  /\ Served
  /\ UNCHANGED <<clocks, button, extend, running, starts>>

-----------------------------------------------------------------------------
(* Setup window *)

\* start_http: three attempts, then none
Opens == http' \in IF http = "closed" THEN {"open", "closed"} ELSE {http}

Looping == http # "stopping"

\* A press opens the window or makes it longer, never shorter.
Reopened ==
  /\ pressed' = Window /\ left' = Larger(Window, left)
  /\ Opens
  /\ UNCHANGED <<cap, trial, extend, phase, slots, starts>>

\* (Mutant: a button that is held down counts in every pass.)
PressAgain ==
  /\ Looping /\ (~held => presses < MaxPresses)
  /\ held' = TRUE /\ presses' = IF held THEN presses ELSE presses + 1
  /\ Reopened

\* BUT1 is down for 150 ms.  It counts once until it is released.
Press ==
  /\ Looping /\ ~held /\ presses < MaxPresses
  /\ held' = TRUE /\ presses' = presses + 1
  /\ Reopened

Release ==
  /\ Looping /\ held
  /\ held' = FALSE
  /\ UNCHANGED <<clocks, http, presses, extend, phase, slots, starts>>

\* POST /setup-window/extend; the HTTP task answers when no upload has it.
RequestExtension ==
  /\ http = "open" /\ phase # "receiving"
  /\ extend' = TRUE
  /\ UNCHANGED <<clocks, http, button, phase, slots, starts>>

\* (Mutant: the extension by the web is not capped.)
ExtendedFreely == Larger(Window, left)

Extended == Larger(Smaller(Window, cap), left)

ExtendSetupWindow ==
  /\ Looping /\ extend
  /\ extend' = FALSE
  /\ left' = Extended
  /\ IF Extended > 0 THEN Opens ELSE UNCHANGED http
  /\ UNCHANGED <<cap, trial, pressed, button, phase, slots, starts>>

-----------------------------------------------------------------------------
(* A pass of the loop one step of the clock later *)

Less(t) == IF t = 0 THEN 0 ELSE t - 1

\* mark_valid may fail; the self-test is over either way.
SelfTestEnds ==
  /\ trial' = Less(trial)
  /\ \/ trial = 1 /\ state' = [state EXCEPT ![running] = "valid"]
     \/ UNCHANGED state

\* The server is dropped; that waits for an upload.
Expires ==
  http' = IF http = "open" /\ Less(left) = 0
            THEN IF phase = "receiving" THEN "stopping" ELSE "closed"
            ELSE http

\* While the loop waits for the server, time passes without it.
Pass ==
  /\ left' = Less(left) /\ cap' = Less(cap) /\ pressed' = Less(pressed)
  /\ IF Looping THEN SelfTestEnds /\ Expires
                ELSE trial' = (IF trial > 1 THEN trial - 1 ELSE trial) /\ UNCHANGED <<state, http>>
  /\ UNCHANGED <<button, extend, phase, running, boot, image, starts>>

-----------------------------------------------------------------------------
(* Restart: a reboot on request, a panic or a power failure *)

GivenUp(s) == state[s] = "pending"

\* The bootloader's choice: the boot slot, unless it was started before and
\* never confirmed or its image does not verify; then the other one.
Chosen == IF GivenUp(boot) \/ image[boot] = "torn" THEN Other(boot) ELSE boot

Restart ==
  /\ starts < MaxStarts
  /\ starts' = starts + 1
  /\ running' = Chosen
  /\ boot' = IF GivenUp(boot) THEN Chosen ELSE boot
  /\ state' = [s \in Slots |-> CASE GivenUp(s) -> "invalid"
                                 [] s = Chosen /\ state[s] = "new" -> "pending"
                                 [] OTHER -> state[s]]
  /\ trial' = IF state[Chosen] \in {"new", "pending"} THEN SelfTest ELSE 0
  /\ cap' = FirstSetup /\ pressed' = 0 /\ held' = FALSE /\ extend' = FALSE
  /\ left' \in {Window, FirstSetup}        \* had_config or not
  /\ http' \in {"open", "closed"}
  /\ phase' = "idle"
  /\ UNCHANGED <<image, presses>>

Init ==
  /\ left \in {Window, FirstSetup} /\ cap = FirstSetup /\ http \in {"open", "closed"}
  /\ held = FALSE /\ extend = FALSE
  /\ trial = 0 /\ phase = "idle"
  /\ running = 0 /\ boot = 0
  /\ image \in {[s \in Slots |-> "whole"], [s \in Slots |-> IF s = 0 THEN "whole" ELSE "torn"]}
  /\ state = [s \in Slots |-> IF s = 0 \/ image[s] = "whole" THEN "valid" ELSE "invalid"]
  /\ pressed = 0 /\ presses = 0 /\ starts = 0

Upload == UploadBegins \/ UploadFails \/ UploadCompletes
User   == Press \/ Release \/ RequestExtension

Next == Upload \/ User \/ ExtendSetupWindow \/ Pass \/ Restart

\* The loop runs, and a connection that carries an upload ends some day.
Fairness == WF_vars(Pass) /\ WF_vars(UploadFails \/ UploadCompletes)

Spec == Init /\ [][Next]_vars /\ Fairness

-----------------------------------------------------------------------------
(* Properties *)

\* What the web can do never keeps the setup open longer than the day after
\* the start; only the button on the device does.
WindowIsBounded == left <= Larger(cap, pressed)

\* However an upload or the power fails, the next start finds an image that
\* is whole, an update on trial has one to fall back to, and an update that is
\* reported as ready is what the next start runs.
AlwaysBoots ==
  /\ image[running] = "whole" /\ image[Chosen] = "whole"
  /\ state[running] = "pending" => image[Other(running)] = "whole"
  /\ phase = "ready" => Chosen = Other(running)

\* The setup does not stay open, however often the web asks for more time,
\* while the button is stuck or while an upload is under way.
WindowCloses == []<>(http = "closed")
=============================================================================
