-------------------------------- MODULE Scan --------------------------------
(***************************************************************************)
(* The inventory scan and the hiplex read probes of the debug capture:     *)
(* crates/telenot-app/src/runtime.rs (feed, tick, apply_intent,            *)
(* ingest_discover, advance_scan), crates/telenot-core/src/discovery.rs,   *)
(* crates/telenot-app/src/diagnostic_probe.rs, and the capture and seeding *)
(* steps of crates/telenot-esp-bridge/src/app_loop.rs.                     *)
(*                                                                         *)
(* The panel answers a question when it likes, or never; it reports the    *)
(* addresses in use unasked too, and sends alarm telegrams with names in   *)
(* them.  An answer may be to a question of an earlier scan.  A detector   *)
(* is an address, its name is present or absent, and time is in steps of   *)
(* the clock, kept as ages that stop counting where the code stops         *)
(* looking.  An intent is one step: the panel it carries is the one that   *)
(* was selected, and a selection made meanwhile is one made just after.    *)
(***************************************************************************)
EXTENDS Integers, FiniteSets, FiniteSetsExt

CONSTANTS
  Inputs, Outputs,      \* addresses a panel reports in its 0x71 and 0x72 block
  MbAddrs,              \* the Meldebereich status addresses among them
  MaxSensors,           \* MAX_SENSORS
  Retry,                \* SCAN_RETRY_MS, RESPONSE_WINDOW_MS
  Limit,                \* the 30 s of a hiplex scan and of a probe
  MaxRequests           \* bound: scans and captures a user starts or ends

Addrs == Inputs \union Outputs

ASSUME ScanAssumption ==
  /\ Addrs \subseteq Nat /\ IsFiniteSet(Addrs)
  /\ MbAddrs \subseteq Addrs
  /\ MaxSensors \in Nat \ {0} /\ Retry \in Nat \ {0} /\ Limit \in Nat \ {0}
  /\ MaxRequests \in Nat

Kinds == {"complex", "lite", "plus"}        \* PanelKind with its GmsVariant
Modes == {"listen", "ack", "discover"}      \* CaptureMode
Never == -1                                 \* a time stamp that is None

VARIABLES
  scan,                 \* the scan fields of Runtime
  found,                \* Runtime.discovery
  result,               \* Runtime.scan_result
  probe,                \* Runtime.diagnostic_probe
  panel,                \* selected: App.setup.panel; live: the core's profile
  capture,              \* App.capture
  asked,                \* text questions on the line that have no answer yet
  queried,              \* history: text questions put by the current GMS plus scan
  requests              \* bound on user requests

vars == <<scan, found, result, probe, panel, capture, asked, queried, requests>>

Stages   == {"none", "inputs", "outputs", "text", "done"}
NoResult == [some |-> FALSE, inv |-> {}, kind |-> "complex"]
NoProbe  == [stage |-> "none", sent |-> Never, least |-> Never, ran |-> 0]
Empty    == [ins |-> FALSE, outs |-> FALSE, occ |-> {}, named |-> {}]

\* The table of detectors never grows beyond what it was made for.
WithinTable == Cardinality(found.occ) <= MaxSensors

TypeOK ==
  /\ scan \in [on : BOOLEAN, done : BOOLEAN, kind : Kinds, texted : BOOLEAN,
               todo : SUBSET Addrs, await : Never..(Retry + 1),
               quiet : Never..Retry, tries : 0..3, cur : Addrs \union {Never}, ran : 0..Limit]
  /\ found \in [ins : BOOLEAN, outs : BOOLEAN, occ : SUBSET Addrs, named : SUBSET Addrs]
  /\ result \in [some : BOOLEAN, inv : SUBSET Addrs, kind : Kinds]
  /\ probe \in [stage : Stages, sent : Never..Retry, least : Addrs \union {Never}, ran : 0..Limit]
  /\ panel \in [selected : Kinds, live : Kinds]
  /\ capture \in [active : BOOLEAN, mode : Modes]
  /\ asked \subseteq Addrs /\ queried \subseteq Addrs
  /\ requests \in 0..MaxRequests
  /\ WithinTable

-----------------------------------------------------------------------------
(* Inventory *)

Plus(s)  == s.kind = "plus"
Hiplex   == {"lite", "plus"}
Complete(s, f) == IF Plus(s) THEN s.texted ELSE f.ins /\ f.outs

\* (Mutant: a block is taken whole.)
CappedNot(occ, S) == occ \union S

\* A block is taken in address order until the table is full.
Capped(occ, S) ==
  occ \union {a \in S : Cardinality(occ \union {b \in S : b <= a}) <= MaxSensors}

\* What a result holds: detectors with a name; GMS plus keeps those without
\* one, GMS lite the detection areas without one.
Inventory(f, kind) ==
  {a \in f.occ : a \in f.named \/ kind = "plus" \/ (kind = "lite" /\ a \in MbAddrs)}

Result(f, kind) == [some |-> TRUE, inv |-> Inventory(f, kind), kind |-> kind]

-----------------------------------------------------------------------------
(* Frames other than polls.  ingest_discover sees them while scanning.     *)

\* (Mutant: blocks are still taken while names are being asked for.)
AcceptedLate(ext, zero) ==
  IF Plus(scan) THEN ext = "in" /\ zero /\ scan.tries > 0 ELSE TRUE

\* GMS plus: only inputs, from device 0, after the question and before the names.
Accepted(ext, zero) ==
  IF Plus(scan) THEN ext = "in" /\ zero /\ scan.tries > 0 /\ ~scan.texted ELSE TRUE

\* After a block of another panel kind both blocks may be in: names are queued.
AfterBlock(f) ==
  LET both == f.ins /\ f.outs
  IN [scan EXCEPT !.await  = IF both THEN Never ELSE @,
                  !.todo   = IF both /\ ~scan.texted THEN @ \union f.occ ELSE @,
                  !.texted = @ \/ both]

Probing == probe.stage \notin {"none", "done"}

\* With every frame the probe looks at its limit first.
Overdue == Probing /\ probe.ran >= Limit

ProbeHears == IF Overdue THEN [probe EXCEPT !.stage = "done"] ELSE probe

ProbeSees(ext, zero, S) ==
  IF ProbeHears.stage = "inputs" /\ probe.sent # Never /\ ext = "in" /\ zero /\ S # {}
    THEN [probe EXCEPT !.least = IF @ = Never \/ Min(S) < @ THEN Min(S) ELSE @]
    ELSE ProbeHears

\* An occupancy block 0x24 of the panel, or of one of its devices.
Block(ext, zero, S) ==
  /\ probe' = ProbeSees(ext, zero, S)
  /\ LET f == [found EXCEPT !.ins  = @ \/ ext = "in",
                            !.outs = @ \/ ext = "out",
                            !.occ  = Capped(@, S)]
         full == Plus(scan) /\ Cardinality(f.occ) >= MaxSensors
     IN \/ /\ scan.on /\ Accepted(ext, zero) /\ full
           /\ scan' = [scan EXCEPT !.on = FALSE, !.quiet = 0]
           /\ found' = Empty
        \/ /\ scan.on /\ Accepted(ext, zero) /\ ~full
           /\ scan' = IF Plus(scan) THEN [scan EXCEPT !.quiet = 0] ELSE AfterBlock(f)
           /\ found' = f
        \/ /\ ~(scan.on /\ Accepted(ext, zero))
           /\ UNCHANGED <<scan, found>>
  /\ UNCHANGED <<result, panel, capture, asked, queried, requests>>

\* (Mutant: GMS plus takes any name that comes.)
MatchesAny(a) == TRUE

\* GMS plus pairs a name with the pending question; the others take any name.
Matches(a) == Plus(scan) => scan.cur = a /\ scan.await # Never

Named(a) ==
  IF scan.on /\ Matches(a)
    THEN /\ found' = [found EXCEPT !.named = @ \union {a}]
         /\ scan' = [scan EXCEPT !.await = Never]
    ELSE UNCHANGED <<found, scan>>

\* The answer to a text question, at any time after it.
Text(a) ==
  /\ a \in asked
  /\ asked' = asked \ {a}
  /\ Named(a)
  /\ probe' = ProbeHears
  /\ UNCHANGED <<result, panel, capture, queried, requests>>

\* An alarm telegram that names a place; its records carry another extension.
Alarm(a) ==
  /\ IF Plus(scan) THEN UNCHANGED <<found, scan>> ELSE Named(a)
  /\ probe' = ProbeHears
  /\ UNCHANGED <<result, panel, capture, asked, queried, requests>>

\* "Nothing is connected here": an answer, whatever was asked.
NotOccupied(a) ==
  /\ a \in asked
  /\ asked' = asked \ {a}
  /\ scan' = IF scan.on THEN [scan EXCEPT !.await = Never] ELSE scan
  /\ probe' = ProbeHears
  /\ UNCHANGED <<found, result, panel, capture, queried, requests>>

-----------------------------------------------------------------------------
(* A poll is the window in which one question may be put *)

Sent(a) == asked' = IF capture.active /\ capture.mode = "listen" THEN asked ELSE asked \union {a}

\* DiagnosticProbe::on_frame: the stage after a window that has passed
Stage ==
  CASE probe.sent = Never -> probe.stage
    [] probe.stage = "inputs" -> "outputs"
    [] probe.stage = "outputs" /\ probe.least # Never -> "text"
    [] OTHER -> "done"

ProbeDue == Probing /\ ~Overdue /\ (probe.sent = Never \/ probe.sent >= Retry)

ProbeAsks ==
  /\ ProbeDue /\ Stage # "done"
  /\ probe' = [probe EXCEPT !.stage = Stage, !.sent = 0]
  /\ IF Stage = "text" THEN Sent(probe.least) ELSE UNCHANGED asked
  /\ UNCHANGED <<scan, found, result, panel, capture, queried, requests>>

\* The probe leaves the poll to the scan and the core.
ProbePasses ==
  probe' = IF ProbeDue THEN [probe EXCEPT !.stage = "done", !.sent = Never] ELSE ProbeHears

\* advance_scan begins by closing the occupancy phase of GMS plus.
Advanced ==
  IF Plus(scan) /\ ~scan.texted /\ found.ins /\ scan.quiet >= Retry
    THEN [scan EXCEPT !.texted = TRUE, !.todo = @ \union found.occ, !.await = Never]
    ELSE scan

Due(s) == s.on /\ (s.await = Never \/ s.await > Retry)

AsksBlocks(s) ==
  /\ Due(s) /\ ~Complete(s, found)
  /\ ~(Plus(s) /\ (found.ins \/ s.tries >= 3))
  /\ scan' = [s EXCEPT !.tries = IF Plus(s) /\ @ < 3 THEN @ + 1 ELSE @, !.await = 0]
  /\ UNCHANGED <<found, result, asked, queried>>

GivesUp(s) ==
  /\ Due(s) /\ ~Complete(s, found)
  /\ Plus(s) /\ ~found.ins /\ s.tries >= 3
  /\ scan' = [s EXCEPT !.on = FALSE]
  /\ UNCHANGED <<found, result, asked, queried>>

\* The questions were queued in address order, once.  Which one is pending, and how
\* often the blocks were asked for, is kept for GMS plus, which alone looks at it.
AsksName(s) ==
  /\ Due(s) /\ Complete(s, found) /\ s.todo # {}
  /\ scan' = [s EXCEPT !.cur = IF Plus(s) THEN Min(s.todo) ELSE @, !.todo = @ \ {Min(s.todo)}, !.await = 0]
  /\ Sent(Min(s.todo))
  /\ queried' = IF Plus(s) THEN queried \union {Min(s.todo)} ELSE queried
  /\ UNCHANGED <<found, result>>

Finishes(s) ==
  /\ Due(s) /\ Complete(s, found) /\ s.todo = {}
  /\ scan' = [s EXCEPT !.on = FALSE, !.done = TRUE, !.cur = Never]
  /\ result' = Result(found, s.kind)
  /\ UNCHANGED <<found, asked, queried>>

Waits(s) ==
  /\ \/ ~Due(s)
     \/ ~Complete(s, found) /\ Plus(s) /\ found.ins
  /\ scan' = IF s.on THEN s ELSE scan
  /\ UNCHANGED <<found, result, asked, queried>>

ScanPolled ==
  /\ ~(ProbeDue /\ Stage # "done")
  /\ ProbePasses
  /\ \/ AsksBlocks(Advanced)
     \/ GivesUp(Advanced)
     \/ AsksName(Advanced)
     \/ Finishes(Advanced)
     \/ Waits(Advanced)
  /\ UNCHANGED <<panel, capture, requests>>

Poll == ProbeAsks \/ ScanPolled

-----------------------------------------------------------------------------
(* The clock.  Runtime::tick looks at it, in a pass whose read returned     *)
(* nothing; a pass that reads on does not.                                 *)

Older(age, limit) == IF age = Never \/ age = limit THEN age ELSE age + 1

Aged ==
  [scan EXCEPT !.await = IF scan.on THEN Older(@, Retry + 1) ELSE @,
               !.quiet = IF scan.on /\ ~scan.texted THEN Older(@, Retry) ELSE @,
               !.ran   = IF scan.on /\ Plus(scan) /\ ~scan.texted THEN Older(@, Limit) ELSE @]

OutOfTime(s) == s.on /\ Plus(s) /\ ~s.texted /\ s.ran >= Limit

AgedProbe ==
  IF Probing THEN [probe EXCEPT !.sent = Older(@, Retry), !.ran = Older(@, Limit)] ELSE probe

Busy ==
  /\ scan' = Aged
  /\ probe' = AgedProbe
  /\ UNCHANGED <<found, result, panel, capture, asked, queried, requests>>

TickBlind == Busy               \* mutant: only the poll looks at the limits

Tick ==
  /\ scan' = IF OutOfTime(Aged) THEN [Aged EXCEPT !.on = FALSE] ELSE Aged
  /\ found' = IF OutOfTime(Aged) THEN Empty ELSE found
  /\ probe' = IF Probing /\ AgedProbe.ran >= Limit THEN [AgedProbe EXCEPT !.stage = "done"]
                                                  ELSE AgedProbe
  /\ UNCHANGED <<result, panel, capture, asked, queried, requests>>

-----------------------------------------------------------------------------
(* Intents *)

Request == requests < MaxRequests /\ requests' = requests + 1

\* (Mutant: a scan is started beside the probes.)
StartedBeside(kind) ==
  /\ scan' = [on |-> TRUE, done |-> FALSE, kind |-> kind, texted |-> FALSE, todo |-> {},
              await |-> Never, quiet |-> Never, tries |-> 0, cur |-> Never, ran |-> 0]
  /\ found' = Empty /\ result' = NoResult /\ queried' = {}
  /\ UNCHANGED probe

Started(kind) ==
  /\ scan' = [on |-> TRUE, done |-> FALSE, kind |-> kind, texted |-> FALSE, todo |-> {},
              await |-> Never, quiet |-> Never, tries |-> 0, cur |-> Never, ran |-> 0]
  /\ found' = Empty /\ result' = NoResult /\ queried' = {}
  /\ probe' = NoProbe

Stopped(s) == [s EXCEPT !.on = FALSE, !.cur = Never]

Cancelled(keep) ==
  IF probe.stage # "none"
    THEN /\ probe' = NoProbe /\ result' = NoResult
         /\ scan' = [scan EXCEPT !.on = FALSE, !.done = FALSE]
         /\ UNCHANGED found
    ELSE /\ scan' = [Stopped(scan) EXCEPT !.done = keep]
         /\ result' = IF keep THEN Result(found, scan.kind) ELSE result
         /\ found' = IF keep THEN found ELSE Empty
         /\ UNCHANGED probe

StartScan ==
  /\ Request
  /\ Started(panel.selected)
  /\ UNCHANGED <<panel, capture, asked>>

CancelScan(keep) ==
  /\ Request
  /\ Cancelled(keep)
  /\ UNCHANGED <<panel, capture, asked, queried>>

\* start_capture_scan: a hiplex panel gets the probes, another a scan under
\* the profile the core runs.
CaptureScan ==
  IF panel.selected \in Hiplex
    THEN /\ probe' = [NoProbe EXCEPT !.stage = "inputs"]
         /\ result' = NoResult
         /\ scan' = [scan EXCEPT !.on = FALSE, !.done = FALSE,
                                 !.cur = IF probe.stage = "none" THEN Never ELSE @]
         /\ found' = IF probe.stage = "none" THEN Empty ELSE found
         /\ UNCHANGED queried
    ELSE Started(panel.live)

CaptureStart(mode) ==
  /\ Request
  /\ capture' = [active |-> TRUE, mode |-> mode]
  /\ IF mode = "discover" THEN CaptureScan ELSE UNCHANGED <<scan, found, result, probe, queried>>
  /\ UNCHANGED <<panel, asked>>

CaptureStop ==
  /\ Request
  /\ capture' = [capture EXCEPT !.active = FALSE]
  /\ IF capture.mode = "discover" THEN Cancelled(FALSE) ELSE UNCHANGED <<scan, found, result, probe>>
  /\ UNCHANGED <<panel, asked, queried>>

\* PUT /connection
SelectPanel(kind) ==
  /\ Request
  /\ panel' = [panel EXCEPT !.selected = kind]
  /\ UNCHANGED <<scan, found, result, probe, capture, asked, queried>>

\* Runtime::reload after a commit: a new core, no probe; the scan goes on.
Reload ==
  /\ Request
  /\ panel' = [panel EXCEPT !.live = panel.selected]
  /\ probe' = NoProbe
  /\ UNCHANGED <<scan, found, result, capture, asked, queried>>

\* The end of a pass: take_scan_result, and App.setup.seed with it, which
\* brings the panel of the scan back as the selected one.
Take ==
  /\ result.some
  /\ panel' = [panel EXCEPT !.selected = result.kind]
  /\ result' = NoResult /\ found' = Empty
  /\ scan' = [scan EXCEPT !.todo = {}]
  /\ UNCHANGED <<probe, capture, asked, queried, requests>>

-----------------------------------------------------------------------------

\* A panel may report what is occupied in any number of blocks, at any time.
Reports(addrs) == SUBSET addrs

Frame ==
  \/ \E zero \in BOOLEAN, S \in Reports(Inputs) : Block("in", zero, S)
  \/ \E S \in Reports(Outputs) : Block("out", TRUE, S)
  \/ \E a \in Addrs : Text(a) \/ Alarm(a) \/ NotOccupied(a)

Intent ==
  \/ StartScan \/ CaptureStop \/ Reload
  \/ \E keep \in BOOLEAN : CancelScan(keep)
  \/ \E mode \in Modes : CaptureStart(mode)
  \/ \E kind \in Kinds : SelectPanel(kind)

Init ==
  /\ \E kind \in Kinds :
       /\ panel = [selected |-> kind, live |-> kind]
       /\ scan = [on |-> FALSE, done |-> FALSE, kind |-> kind, texted |-> FALSE, todo |-> {},
                  await |-> Never, quiet |-> Never, tries |-> 0, cur |-> Never, ran |-> 0]
  /\ found = Empty /\ result = NoResult /\ probe = NoProbe
  /\ capture = [active |-> FALSE, mode |-> "listen"]
  /\ asked = {} /\ queried = {} /\ requests = 0

Next == Frame \/ Poll \/ Tick \/ Busy \/ Intent \/ Take

Spec == Init /\ [][Next]_vars

\* The loop runs: time passes, whatever its passes read.
FairSpec == Spec /\ WF_vars(Tick \/ Busy)

-----------------------------------------------------------------------------
(* Properties *)

\* While a GMS plus scan asks for names, every address it took from a report has
\* been asked about or is in line for it, however the panel splits and repeats its
\* reports and whenever they come (Runtime::ingest_discover, advance_scan).  The
\* other panels are not promised this: a block that comes after both extensions
\* were seen is taken into the table, and its addresses are not asked about.
NoneSkipped ==
  scan.on /\ Plus(scan) /\ scan.texted => found.occ \subseteq queried \union scan.todo

\* The read probes of a debug capture never run beside an inventory scan and
\* never leave an inventory to be seeded, whatever was started before them.
ProbesAlone == probe.stage # "none" => ~scan.on /\ ~result.some

\* GMS plus: a name in the inventory answers a question of this scan; the
\* late answer to an earlier scan names nothing.
NamesWereAsked == scan.on /\ Plus(scan) => found.named \subseteq queried

Listening == scan.on /\ Plus(scan) /\ ~scan.texted
Naming    == scan.on /\ scan.texted

\* As long as reads return nothing again and again, the occupancy phase of a GMS
\* plus scan and the read probes end, whatever the panel says or leaves unsaid
\* (Runtime::tick, DiagnosticProbe::tick); and as long as the panel polls, a scan of
\* any kind that asks for names ends, answered or not (advance_scan).  The occupancy
\* phase of the other panels has no end of its own.
ScanEnds ==
  /\ WF_vars(Tick) => (Listening \/ Probing ~> ~Listening /\ ~Probing)
  /\ WF_vars(Poll) => (Naming ~> ~Naming)
=============================================================================
