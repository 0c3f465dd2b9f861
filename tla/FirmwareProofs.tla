--------------------------- MODULE FirmwareProofs ---------------------------
(***************************************************************************)
(* Theorems about Firmware, for every length of the windows and of the     *)
(* self-test: its types, the bound of the setup window, and that every     *)
(* start finds a whole image.                                              *)
(***************************************************************************)
EXTENDS Firmware, TLAPS

LEMMA OtherSlot == \A s \in Slots : Other(s) \in Slots /\ Other(s) # s /\ Other(Other(s)) = s
  BY SMT DEF Slots, Other

\* A step of time takes at most one from a time that is left, and keeps its
\* order to the others.
LEMMA LessFacts ==
  /\ \A t \in Nat : Less(t) \in Nat /\ Less(t) <= t
  /\ \A t, u \in Nat : t <= u => Less(t) <= Less(u)
  BY SMT DEF Less

LEMMA LessInRange == ASSUME NEW n \in Nat, NEW t \in 0..n PROVE Less(t) \in 0..n
  BY SMT DEF Less

-----------------------------------------------------------------------------
(* Types *)

LEMMA InitTyped == Init => TypeOK
<1> SUFFICES ASSUME Init PROVE TypeOK
  OBVIOUS
<1>1. image \in [Slots -> Images]
  BY DEF Init, Images
<1>2. state \in [Slots -> States]
  BY DEF Init, States
<1>3. 0 \in Slots
  BY DEF Slots
<1>4. /\ left \in 0..FirstSetup /\ cap \in 0..FirstSetup /\ pressed \in 0..Window
      /\ trial \in 0..SelfTest /\ presses \in 0..MaxPresses /\ starts \in 0..MaxStarts
  BY FirmwareAssumption, SMT DEF Init
<1> QED BY <1>1, <1>2, <1>3, <1>4 DEF Init, TypeOK, Phases

LEMMA ChosenIsSlot == TypeOK => Chosen \in Slots
  BY OtherSlot DEF TypeOK, Chosen

LEMMA UploadTyped == TypeOK /\ Upload => TypeOK'
<1> SUFFICES ASSUME TypeOK, Upload PROVE TypeOK'
  OBVIOUS
<1> USE FirmwareAssumption
<1>0. Other(running) \in Slots
  BY OtherSlot DEF TypeOK
<1>1. CASE UploadBegins
  BY <1>0, <1>1 DEF UploadBegins, TypeOK, clocks, button, Phases, Images
<1>2. CASE UploadFails
  BY <1>2 DEF UploadFails, Served, TypeOK, clocks, button, slots, Phases
<1>3. CASE UploadCompletes
  BY <1>0, <1>3 DEF UploadCompletes, Served, TypeOK, clocks, button, Phases, Images, States
<1> QED BY <1>1, <1>2, <1>3 DEF Upload

LEMMA UserTyped == TypeOK /\ (User \/ ExtendSetupWindow) => TypeOK'
<1> SUFFICES ASSUME TypeOK, User \/ ExtendSetupWindow PROVE TypeOK'
  OBVIOUS
<1> USE FirmwareAssumption
<1>1. CASE Press
  BY <1>1, SMT DEF Press, Reopened, Looping, Opens, Larger, TypeOK, slots
<1>2. CASE Release
  BY <1>2 DEF Release, TypeOK, clocks, slots
<1>3. CASE RequestExtension
  BY <1>3 DEF RequestExtension, TypeOK, clocks, button, slots
<1>4. CASE ExtendSetupWindow
  <2>1. Extended \in 0..FirstSetup
    BY SMT DEF Extended, Larger, Smaller, TypeOK
  <2> QED BY <1>4, <2>1 DEF ExtendSetupWindow, Looping, Opens, TypeOK, button, slots
<1> QED BY <1>1, <1>2, <1>3, <1>4 DEF User

LEMMA PassTyped == TypeOK /\ Pass => TypeOK'
<1> SUFFICES ASSUME TypeOK, Pass PROVE TypeOK'
  OBVIOUS
<1> USE FirmwareAssumption
<1>1. left' \in 0..FirstSetup /\ cap' \in 0..FirstSetup /\ pressed' \in 0..Window
  BY LessInRange DEF Pass, TypeOK
<1>2. CASE Looping
  <2>1. trial' \in 0..SelfTest
    BY <1>2, LessInRange DEF Pass, SelfTestEnds, TypeOK
  <2>2. state' \in [Slots -> States]
    BY <1>2 DEF Pass, SelfTestEnds, TypeOK, States
  <2>3. /\ http' \in {"open", "stopping", "closed"}
        /\ http' = "stopping" => phase' = "receiving"
    BY <1>2 DEF Pass, Expires, TypeOK
  <2> QED BY <1>1, <2>1, <2>2, <2>3 DEF Pass, TypeOK, button
<1>3. CASE ~Looping
  <2>1. trial' \in 0..SelfTest
    BY <1>3, SMT DEF Pass, TypeOK
  <2> QED BY <1>1, <1>3, <2>1 DEF Pass, TypeOK, button
<1> QED BY <1>2, <1>3

LEMMA RestartTyped == TypeOK /\ Restart => TypeOK'
<1> SUFFICES ASSUME TypeOK, Restart PROVE TypeOK'
  OBVIOUS
<1> USE FirmwareAssumption
<1>1. Chosen \in Slots
  BY ChosenIsSlot
<1>2. running' \in Slots /\ boot' \in Slots
  BY <1>1 DEF Restart, TypeOK
<1>3. state' \in [Slots -> States]
  BY DEF Restart, TypeOK, States
<1>4. /\ trial' \in 0..SelfTest /\ starts' \in 0..MaxStarts
      /\ left' \in 0..FirstSetup /\ cap' \in 0..FirstSetup /\ pressed' \in 0..Window
  BY SMT DEF Restart, TypeOK
<1> QED BY <1>2, <1>3, <1>4 DEF Restart, TypeOK, Phases

LEMMA NextTyped == TypeOK /\ [Next]_vars => TypeOK'
<1>1. TypeOK /\ UNCHANGED vars => TypeOK'
  BY DEF TypeOK, vars, clocks, button, slots
<1> QED BY <1>1, UploadTyped, UserTyped, PassTyped, RestartTyped DEF Next

\* The variables of the window, the button, the upload and the slots keep
\* their types; above all the server waits only for an upload that is going on.
THEOREM TypeCorrect == Spec => []TypeOK
  BY InitTyped, NextTyped, PTL DEF Spec

-----------------------------------------------------------------------------
(* The setup window *)

LEMMA WindowStep == TypeOK /\ WindowIsBounded /\ [Next]_vars => WindowIsBounded'
<1> SUFFICES ASSUME TypeOK, WindowIsBounded, [Next]_vars PROVE WindowIsBounded'
  OBVIOUS
<1> USE FirmwareAssumption DEF TypeOK, WindowIsBounded, Larger
<1>1. CASE Upload \/ Release \/ RequestExtension \/ UNCHANGED vars
  BY <1>1 DEF Upload, UploadBegins, UploadFails, UploadCompletes, Release, RequestExtension,
              vars, clocks
<1>2. CASE Press
  BY <1>2, SMT DEF Press, Reopened
<1>3. CASE ExtendSetupWindow
  BY <1>3, SMT DEF ExtendSetupWindow, Extended, Smaller
<1>4. CASE Pass
  BY <1>4, SMT DEF Pass, Less
<1>5. CASE Restart
  BY <1>5, SMT DEF Restart
<1> QED BY <1>1, <1>2, <1>3, <1>4, <1>5 DEF Next, User

\* The web never keeps the setup open for longer than FIRST_SETUP_MS after the
\* start; only a press of the button does, and by WINDOW_MS at most
\* (Intent::ExtendSetupWindow and BUT1 in the loop).
THEOREM WindowBounded == Spec => []WindowIsBounded
<1>1. Init => WindowIsBounded
  BY FirmwareAssumption, SMT DEF Init, WindowIsBounded, Larger
<1> QED BY <1>1, WindowStep, TypeCorrect, PTL DEF Spec

-----------------------------------------------------------------------------
(* The slots.  AlwaysBoots is not inductive: confirming the running slot    *)
(* changes what the bootloader chooses, and so does an update that is       *)
(* started.  It follows from what the slots hold in each phase.             *)

\* The running image is whole, and it was started.
RunsWhole == image[running] = "whole" /\ state[running] # "new"

\* Only the running slot is on trial; the other one can be gone back to.
OneOnTrial ==
  \A s \in Slots : state[s] = "pending" =>
    /\ s = running /\ boot = s
    /\ image[Other(s)] = "whole" /\ state[Other(s)] # "new"

\* An upload is not under way while the running slot is on trial, and one that
\* is ready has been made the boot slot.
UploadFits ==
  /\ phase = "receiving" => state[running] # "pending"
  /\ phase = "ready" => boot = Other(running) /\ state[boot] = "new" /\ image[boot] = "whole"

SlotsInv == RunsWhole /\ OneOnTrial /\ UploadFits

LEMMA BootsFromSlots == TypeOK /\ SlotsInv => AlwaysBoots
<1> SUFFICES ASSUME TypeOK, SlotsInv PROVE AlwaysBoots
  OBVIOUS
<1> USE DEF SlotsInv
<1>1. running \in Slots /\ boot \in Slots /\ (boot = running \/ boot = Other(running))
  BY SMT DEF TypeOK, Slots, Other
<1>2. image[Chosen] = "whole"
  <2>1. CASE boot = running
    BY <1>1, <2>1 DEF Chosen, GivenUp, RunsWhole, OneOnTrial
  <2>2. CASE boot = Other(running)
    <3>1. ~GivenUp(boot)
      BY <1>1, <2>2, OtherSlot DEF GivenUp, OneOnTrial
    <3>2. image[boot] \in Images
      BY <1>1 DEF TypeOK
    <3> QED BY <1>1, <2>2, <3>1, <3>2, OtherSlot DEF Chosen, Images, RunsWhole
  <2> QED BY <1>1, <2>1, <2>2
<1>3. phase = "ready" => Chosen = Other(running)
  BY DEF Chosen, GivenUp, UploadFits
<1> QED BY <1>1, <1>2, <1>3 DEF AlwaysBoots, RunsWhole, OneOnTrial

LEMMA SlotsStay ==
  ASSUME SlotsInv, UNCHANGED slots, phase' = phase \/ phase' \notin {"receiving", "ready"}
  PROVE  SlotsInv'
  BY DEF SlotsInv, RunsWhole, OneOnTrial, UploadFits, slots

LEMMA UploadKeepsSlots == TypeOK /\ SlotsInv /\ Upload => SlotsInv'
<1> SUFFICES ASSUME TypeOK, SlotsInv, Upload PROVE SlotsInv'
  OBVIOUS
<1>0. /\ running \in Slots /\ Other(running) \in Slots /\ Other(running) # running
      /\ image \in [Slots -> Images] /\ state \in [Slots -> States]
  BY OtherSlot DEF TypeOK
<1>1. CASE UploadBegins
  <2>1. CASE phase' = "failed" /\ UNCHANGED image
    BY <1>1, <2>1, SlotsStay DEF UploadBegins, slots
  <2>2. CASE /\ state[running] \notin {"new", "pending"} /\ phase' = "receiving"
             /\ image' = [image EXCEPT ![Other(running)] = "torn"]
    <3>1. UNCHANGED <<running, boot, state>> /\ image'[running] = image[running]
      BY <1>0, <1>1, <2>2 DEF UploadBegins
    <3>2. \A s \in Slots : state[s] # "pending"
      BY <2>2 DEF SlotsInv, OneOnTrial
    <3> QED BY <2>2, <3>1, <3>2 DEF SlotsInv, RunsWhole, OneOnTrial, UploadFits
  <2> QED BY <1>1, <2>1, <2>2 DEF UploadBegins
<1>2. CASE UploadFails
  BY <1>2, SlotsStay DEF UploadFails
<1>3. CASE UploadCompletes
  <2>1. \A s \in Slots : state[s] # "pending"
    BY <1>3 DEF UploadCompletes, SlotsInv, OneOnTrial, UploadFits
  <2>2. /\ running' = running /\ boot' = Other(running) /\ phase' = "ready"
        /\ image'[running] = image[running] /\ image'[Other(running)] = "whole"
        /\ state'[running] = state[running] /\ state'[Other(running)] = "new"
        /\ \A s \in Slots : state'[s] # "pending"
    BY <1>0, <1>3, <2>1 DEF UploadCompletes
  <2> QED BY <2>2 DEF SlotsInv, RunsWhole, OneOnTrial, UploadFits
<1> QED BY <1>1, <1>2, <1>3 DEF Upload

LEMMA PassKeepsSlots == TypeOK /\ SlotsInv /\ Pass => SlotsInv'
<1> SUFFICES ASSUME TypeOK, SlotsInv, Pass PROVE SlotsInv'
  OBVIOUS
<1>1. UNCHANGED <<running, boot, image, phase>>
  BY DEF Pass
<1>2. CASE UNCHANGED state
  BY <1>1, <1>2, SlotsStay DEF slots
<1>3. CASE state' = [state EXCEPT ![running] = "valid"]
  <2>0. running \in Slots /\ state \in [Slots -> States]
    BY DEF TypeOK
  <2>1. state'[running] = "valid" /\ \A s \in Slots \ {running} : state'[s] = state[s]
    BY <1>3, <2>0
  <2>2. OneOnTrial'
    BY <1>1, <2>0, <2>1, OtherSlot DEF SlotsInv, OneOnTrial
  <2>3. UploadFits'
    BY <1>1, <2>0, <2>1, OtherSlot DEF SlotsInv, UploadFits
  <2> QED BY <1>1, <2>1, <2>2, <2>3 DEF SlotsInv, RunsWhole
<1> QED BY <1>2, <1>3 DEF Pass, SelfTestEnds

LEMMA RestartKeepsSlots == TypeOK /\ SlotsInv /\ Restart => SlotsInv'
<1> SUFFICES ASSUME TypeOK, SlotsInv, Restart PROVE SlotsInv'
  OBVIOUS
<1>0. /\ running \in Slots /\ boot \in Slots /\ Chosen \in Slots
      /\ (boot = running \/ boot = Other(running))
  BY ChosenIsSlot, SMT DEF TypeOK, Slots, Other
<1>1. /\ running' = Chosen /\ UNCHANGED image /\ phase' = "idle"
      /\ boot' = IF GivenUp(boot) THEN Chosen ELSE boot
  BY DEF Restart
<1>2. \A s \in Slots : /\ state[s] = "pending" => state'[s] = "invalid"
                       /\ state[s] # "pending" /\ s = Chosen /\ state[s] = "new"
                            => state'[s] = "pending"
                       /\ state[s] # "pending" /\ ~(s = Chosen /\ state[s] = "new")
                            => state'[s] = state[s]
  BY DEF Restart, GivenUp
<1>3. image[Chosen] = "whole"
  BY BootsFromSlots DEF AlwaysBoots
<1>4. RunsWhole'
  BY <1>0, <1>1, <1>2, <1>3 DEF RunsWhole
<1>5. OneOnTrial'
  <2> SUFFICES ASSUME NEW s \in Slots, state'[s] = "pending"
               PROVE  /\ s = Chosen /\ boot' = s
                      /\ image[Other(s)] = "whole" /\ state'[Other(s)] # "new"
    BY <1>1 DEF OneOnTrial
  <2>1. s = Chosen /\ state[s] = "new"
    BY <1>2
  <2>2. s = Other(running) /\ Other(s) = running /\ s # running
    BY <1>0, <2>1, OtherSlot, SMT DEF SlotsInv, RunsWhole, Slots, Other
  <2>3. ~GivenUp(boot)
    BY <1>0, <2>1, <2>2, OtherSlot DEF GivenUp, SlotsInv, OneOnTrial
  <2>4. boot = s
    BY <1>0, <2>1, <2>2, <2>3 DEF Chosen, SlotsInv, RunsWhole
  <2>5. state'[running] # "new"
    BY <1>0, <1>2, <2>1, <2>2 DEF SlotsInv, RunsWhole
  <2> QED BY <1>1, <2>1, <2>2, <2>3, <2>4, <2>5 DEF SlotsInv, RunsWhole
<1>6. UploadFits'
  BY <1>1 DEF UploadFits
<1> QED BY <1>4, <1>5, <1>6 DEF SlotsInv

LEMMA NextKeepsSlots == TypeOK /\ SlotsInv /\ [Next]_vars => SlotsInv'
<1>1. SlotsInv /\ (User \/ ExtendSetupWindow \/ UNCHANGED vars) => SlotsInv'
  BY SlotsStay DEF User, Press, Reopened, Release, RequestExtension, ExtendSetupWindow, vars
<1> QED BY <1>1, UploadKeepsSlots, PassKeepsSlots, RestartKeepsSlots DEF Next

LEMMA InitSlots == Init => SlotsInv
<1> SUFFICES ASSUME Init PROVE SlotsInv
  OBVIOUS
<1>1. 0 \in Slots /\ running = 0 /\ phase = "idle"
  BY DEF Init, Slots
<1>2. image[0] = "whole" /\ state[0] = "valid" /\ \A s \in Slots : state[s] # "pending"
  BY <1>1 DEF Init
<1> QED BY <1>1, <1>2 DEF SlotsInv, RunsWhole, OneOnTrial, UploadFits

\* Wherever an upload, the self-test or the power stops, the bootloader finds
\* a whole image, an update on trial can be rolled back, and an update that is
\* reported as ready is what the next start runs (stream_update, mark_valid).
THEOREM StartsAlways == Spec => []AlwaysBoots
<1>1. Spec => []SlotsInv
  BY InitSlots, NextKeepsSlots, TypeCorrect, PTL DEF Spec
<1> QED BY <1>1, TypeCorrect, BootsFromSlots, PTL
=============================================================================
