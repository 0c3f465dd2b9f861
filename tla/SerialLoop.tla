----------------------------- MODULE SerialLoop -----------------------------
(***************************************************************************)
(* The serial owner around the core: one pass of app_loop drains intents   *)
(* and then reads the panel line (crates/telenot-esp-bridge/src/           *)
(* app_loop.rs), Runtime puts discovery queries into the panel's poll      *)
(* windows (crates/telenot-app/src/runtime.rs, diagnostic_probe.rs), and a *)
(* debug capture filters what may be transmitted (app.rs).  All three      *)
(* share the line with the command transaction of CommandTx.               *)
(*                                                                         *)
(* The panel is external.  It confirms the telegrams it has received in    *)
(* the order they were written; a SEND of its own means that it ignored    *)
(* what was outstanding, and a telegram whose answer timed out is not      *)
(* answered later (both as telenot-core/src/lib.rs assumes).               *)
(***************************************************************************)
EXTENDS CommandTx, Sequences, SequencesExt

CONSTANTS
  Query,                     \* a discovery query on the line
  Readiness                  \* the area states the panel may report

ASSUME LineAssumption ==
  /\ Query \notin TxId
  /\ Readiness \subseteq [Areas -> [Gates -> BOOLEAN]]

VARIABLES
  captureActive,             \* CaptureState.active
  captureMode,               \* CaptureState.mode, kept after a stop
  scanning,                  \* a discovery scan or a diagnostic probe is running
  line,                      \* telegrams written and not yet answered, oldest first
  wire,                      \* the command telegram this step wrote to the line, or NoTx
  admitted,                  \* history: the commands live when the capture began
  foreign                    \* history: since the line was last clear it has carried a
                             \* telegram that is no command of the core

capture  == <<captureActive, captureMode, admitted>>
loopVars == <<vars, capture, scanning, line, wire, foreign>>

CaptureModes == {"Listen", "ListenAck", "Discover"}

-----------------------------------------------------------------------------
(* The transmit path *)

\* The feed branch drops SendFrame actions while a Listen capture is active.
Filtered(tx) == IF captureActive /\ captureMode = "Listen" THEN NoTx ELSE tx

\* transport.write_frame may fail; the core is not told.
WrittenOf(tx) == {tx, NoTx}

Outstanding(before, tx) == IF tx = NoTx THEN before ELSE Append(before, tx.id)

SetLine(telegrams) ==
  /\ line' = telegrams
  /\ foreign' = (telegrams # <<>> /\ (foreign \/ Query \in ToSet(telegrams)))

CoreIdle ==
  /\ sent' = NoTx
  /\ results' = {}
  /\ UNCHANGED <<link, status, disarmEnabled, slots, sinceTick>>

-----------------------------------------------------------------------------
(* A pass that read bytes: Runtime::feed, one frame at a time *)

\* A SEND of the panel that reaches the core.  With nothing left to ask, the
\* scan ends at a poll and the core gets it.
FeedSend ==
  /\ \/ /\ \E fehler \in BOOLEAN : OnSendNorm(fehler)
        /\ scanning' \in {scanning, FALSE}
     \/ /\ \E fehler, outputsSeen, areaSeen \in BOOLEAN, rdy \in Readiness \cup {ready} :
              OnSendNdat(fehler, outputsSeen, areaSeen, rdy)
        /\ scanning' = scanning
  /\ wire' \in WrittenOf(Filtered(sent'))
  /\ SetLine(Outstanding(<<>>, wire'))
  /\ UNCHANGED capture

\* A poll that the scan or the probe answers with a query: the core never
\* sees the frame, neither as a sign of life nor as a collision.
FeedScanPoll ==
  /\ scanning
  /\ CoreIdle
  /\ wire' = NoTx
  /\ \E asked \in WrittenOf(Filtered(Query)) : SetLine(IF asked = Query THEN <<Query>> ELSE <<>>)
  /\ UNCHANGED <<capture, scanning>>

FeedConfirm ==
  /\ line # <<>>
  /\ \E ack, fehler \in BOOLEAN : OnConfirm(ack, fehler)
  /\ SetLine(Tail(line))
  /\ wire' = NoTx
  /\ UNCHANGED <<capture, scanning>>

FeedOther ==
  /\ \E fehler \in BOOLEAN : OnOtherFrame(fehler)
  /\ wire' = NoTx
  /\ UNCHANGED <<capture, scanning, line, foreign>>

-----------------------------------------------------------------------------
(* A pass that read nothing: Runtime::tick, whose actions are not filtered *)

GaveUp == inFlight # NoTx /\ inFlight' = NoTx

TickPass ==
  /\ Tick
  /\ wire' \in WrittenOf(sent')
  /\ SetLine(IF wire' # NoTx THEN <<wire'.id>> ELSE IF GaveUp THEN <<>> ELSE line)
  /\ scanning' \in {scanning, FALSE}
  /\ UNCHANGED capture

BusyPass ==
  /\ Busy
  /\ wire' = NoTx
  /\ UNCHANGED <<capture, scanning, line, foreign>>

-----------------------------------------------------------------------------
(* Intents *)

Switch(id, cmd) ==
  /\ id \notin ToSet(line)
  /\ OnCommand(id, cmd)
  /\ wire' \in WrittenOf(sent')
  /\ SetLine(Outstanding(line, wire'))
  /\ UNCHANGED <<capture, scanning>>

\* Intent::Command (REST, MQTT) and Intent::HomekitCommand are each refused
\* while a capture is active.
HomekitUnguarded == \E id \in TxId, cmd \in Commands : Switch(id, cmd)   \* mutant
CommandIntent  == ~captureActive /\ \E id \in TxId, cmd \in Commands : Switch(id, cmd)
HomekitCommand == ~captureActive /\ \E id \in TxId, cmd \in Commands : Switch(id, cmd)

RemoteDisarm ==
  /\ SetDisarmEnabled
  /\ wire' = NoTx
  /\ UNCHANGED <<capture, scanning, line, foreign>>

CaptureStart(mode) ==
  /\ captureActive' = TRUE
  /\ captureMode' = mode
  /\ admitted' = Live
  /\ scanning' = (scanning \/ mode = "Discover")
  /\ CoreIdle
  /\ wire' = NoTx
  /\ UNCHANGED <<line, foreign>>

CaptureStop ==
  /\ captureActive' = FALSE
  /\ admitted' = {}
  /\ scanning' = (scanning /\ captureMode # "Discover")
  /\ CoreIdle
  /\ wire' = NoTx
  /\ UNCHANGED <<captureMode, line, foreign>>

StartScan  == scanning' = TRUE  /\ CoreIdle /\ wire' = NoTx /\ UNCHANGED <<capture, line, foreign>>
CancelScan == scanning' = FALSE /\ CoreIdle /\ wire' = NoTx /\ UNCHANGED <<capture, line, foreign>>

\* Intent::ReloadConfig: Runtime::reload builds a new Core.  A queued or
\* transmitted command is gone without a verdict, while its telegram may still
\* be answered.  The new core has heard nothing since boot, which is at least
\* as long ago as the last frame, so the next on_tick may report an outage.
ReloadConfig ==
  /\ online' = TRUE
  /\ recoveryCount' = 0
  /\ heard' = FALSE
  /\ silence' \in IF heard THEN silence..(SERIAL_DEADLINE + 1) ELSE {silence}
  /\ areaAge' = NoTx
  /\ ready' = NotReady
  /\ disarmEnabled' \in BOOLEAN
  /\ pending' = NoTx
  /\ inFlight' = NoTx
  /\ lastOk' = NoTx
  /\ sent' = NoTx
  /\ results' = {}
  /\ scanning' \in {scanning, FALSE}
  /\ wire' = NoTx
  /\ foreign' = (line # <<>>)
  /\ UNCHANGED <<sinceTick, line, capture>>

-----------------------------------------------------------------------------
LoopInit ==
  /\ Init
  /\ captureActive = FALSE
  /\ captureMode = "Listen"
  /\ scanning = FALSE
  /\ line = <<>>
  /\ wire = NoTx
  /\ admitted = {}
  /\ foreign = FALSE

Feed    == FeedSend \/ FeedScanPoll \/ FeedConfirm \/ FeedOther
Intents ==
  \/ CommandIntent
  \/ HomekitCommand
  \/ RemoteDisarm
  \/ \E mode \in CaptureModes : CaptureStart(mode)
  \/ CaptureStop
  \/ StartScan
  \/ CancelScan
  \/ ReloadConfig

LoopNext == Feed \/ TickPass \/ BusyPass \/ Intents

LoopSpec == LoopInit /\ [][LoopNext]_loopVars
-----------------------------------------------------------------------------
(* Properties *)

\* Whatever intents arrive during a debug capture, on whichever path, no new
\* command enters the transaction ("the external panel must never be switched").
CaptureAdmitsNothing == captureActive => Live \subseteq admitted

\* As long as the core's commands have the line to themselves, a confirmation
\* is counted for the command it confirms: timeouts, retries, collisions and
\* eager sending never make the bridge report OK for another one.
OkIsOwnAnswer ==
  [][\A r \in results' : r.verdict = "OK" /\ ~foreign => Head(line) = r.id]_loopVars
=============================================================================
