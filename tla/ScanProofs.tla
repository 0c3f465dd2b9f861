----------------------------- MODULE ScanProofs -----------------------------
(***************************************************************************)
(* Theorems about Scan, for every set of addresses, size of the table and  *)
(* length of the windows: the probes and a scan exclude each other, a name *)
(* of a GMS plus detector was asked for by the running scan, the table of  *)
(* detectors never overflows, the types hold, and a GMS plus scan leaves   *)
(* no address it took from a report out of the questions.                  *)
(*                                                                         *)
(* The first ones need of the types only which fields the records have     *)
(* (Fields).                                                               *)
(***************************************************************************)
EXTENDS Scan, FiniteSetTheorems, WellFoundedInduction, TLAPS

ScanFields(s) ==
  /\ DOMAIN s = {"on", "done", "kind", "texted", "todo", "await", "quiet", "tries", "cur", "ran"}
  /\ s.on \in BOOLEAN
FoundFields(f) == DOMAIN f = {"ins", "outs", "occ", "named"}
ProbeFields(p) == DOMAIN p = {"stage", "sent", "least", "ran"}
ResultFields(r) == r.some \in BOOLEAN

Fields == ScanFields(scan) /\ FoundFields(found) /\ ProbeFields(probe) /\ ResultFields(result)

Alone == Fields /\ ProbesAlone

-----------------------------------------------------------------------------
(* Types, and probes and scans *)

LEMMA AgedFields ==
  ScanFields(scan) =>
    ScanFields(Aged) /\ Aged.on = scan.on /\ Aged.kind = scan.kind /\ Aged.cur = scan.cur
  BY DEF ScanFields, Aged

LEMMA InitAlone == Init => Alone
  BY DEF Init, Alone, Fields, ScanFields, FoundFields, ProbeFields, ResultFields, ProbesAlone,
         Empty, NoResult, NoProbe

LEMMA HearsFields ==
  ProbeFields(probe) =>
    /\ ProbeFields(ProbeHears) /\ (ProbeHears.stage # "none" => probe.stage # "none")
    /\ ProbeHears.stage \in {probe.stage, "done"}
  BY DEF ProbeFields, ProbeHears, Overdue, Probing

LEMMA FrameAlone == Alone /\ Frame => Alone'
<1> SUFFICES ASSUME Alone, Frame PROVE Alone'
  OBVIOUS
<1> USE DEF Alone, Fields, ScanFields, FoundFields, ProbeFields, ResultFields, ProbesAlone
<1>0. ProbeFields(ProbeHears) /\ (ProbeHears.stage # "none" => probe.stage # "none")
  BY HearsFields
<1>1. ASSUME NEW ext \in {"in", "out"}, NEW zero \in BOOLEAN, NEW S, Block(ext, zero, S)
      PROVE  Alone'
  <2>1. ProbeFields(probe') /\ (probe'.stage # "none" => probe.stage # "none")
    BY <1>0, <1>1 DEF Block, ProbeSees
  <2>2. ScanFields(scan') /\ (scan'.on => scan.on)
    BY <1>1 DEF Block, AfterBlock
  <2>3. FoundFields(found') /\ result' = result
    BY <1>1 DEF Block, Empty
  <2> QED BY <2>1, <2>2, <2>3
<1>2. ASSUME NEW a, Named(a)
      PROVE  ScanFields(scan') /\ FoundFields(found') /\ scan'.on = scan.on
  BY <1>2 DEF Named
<1>3. ASSUME NEW a \in Addrs, Text(a) \/ Alarm(a) \/ NotOccupied(a) PROVE Alone'
  <2>1. CASE Text(a)
    BY <1>0, <1>2, <2>1 DEF Text
  <2>2. CASE Alarm(a)
    BY <1>0, <1>2, <2>2 DEF Alarm
  <2>3. CASE NotOccupied(a)
    BY <1>0, <2>3 DEF NotOccupied
  <2> QED BY <1>3, <2>1, <2>2, <2>3
<1> QED BY <1>1, <1>3 DEF Frame

LEMMA AdvancedFields ==
  ScanFields(scan) =>
    /\ ScanFields(Advanced)
    /\ Advanced.on = scan.on /\ Advanced.kind = scan.kind /\ Advanced.cur = scan.cur
  BY DEF ScanFields, Advanced

LEMMA PollAlone == Alone /\ Poll => Alone'
<1> SUFFICES ASSUME Alone, Poll PROVE Alone'
  OBVIOUS
<1>1. Fields
  BY DEF Alone
<1>2. CASE ProbeAsks
  <2>1. ProbeFields(probe') /\ probe.stage # "none"
    BY <1>1, <1>2 DEF ProbeAsks, ProbeDue, Probing, Fields, ProbeFields
  <2> QED BY <1>1, <1>2, <2>1 DEF ProbeAsks, Alone, ProbesAlone, Fields
<1>3. CASE ScanPolled
  <2> DEFINE s == Advanced
  <2>1. ScanFields(s) /\ s.on = scan.on
    BY <1>1, AdvancedFields DEF Fields
  <2>2. ProbeFields(probe') /\ (probe'.stage # "none" => probe.stage # "none")
    BY <1>1, <1>3, HearsFields DEF ScanPolled, ProbePasses, ProbeDue, Probing, Fields, ProbeFields
  <2>3. /\ ScanFields(scan') /\ FoundFields(found') /\ ResultFields(result')
        /\ scan'.on => scan.on
        /\ result'.some => result.some \/ scan.on
    <3> HIDE DEF s
    <3>1. CASE AsksBlocks(s)
      BY <1>1, <2>1, <3>1 DEF AsksBlocks, Fields, ScanFields
    <3>2. CASE GivesUp(s)
      BY <1>1, <2>1, <3>2 DEF GivesUp, Fields, ScanFields
    <3>3. CASE AsksName(s)
      BY <1>1, <2>1, <3>3 DEF AsksName, Fields, ScanFields
    <3>4. CASE Finishes(s)
      BY <1>1, <2>1, <3>4 DEF Finishes, Due, Result, Fields, ScanFields, ResultFields
    <3>5. CASE Waits(s)
      BY <1>1, <2>1, <3>5 DEF Waits, Fields, ScanFields
    <3> QED BY <1>3, <3>1, <3>2, <3>3, <3>4, <3>5 DEF ScanPolled, s
  <2> QED BY <1>1, <2>2, <2>3 DEF Alone, ProbesAlone, Fields, ResultFields
<1> QED BY <1>2, <1>3 DEF Poll

LEMMA AgedProbeFields ==
  ProbeFields(probe) => ProbeFields(AgedProbe) /\ AgedProbe.stage = probe.stage
  BY DEF ProbeFields, AgedProbe

LEMMA ClockAlone == Alone /\ (Tick \/ Busy) => Alone'
<1> SUFFICES ASSUME Alone, Tick \/ Busy PROVE Alone'
  OBVIOUS
<1>1. ScanFields(Aged) /\ Aged.on = scan.on
  BY AgedFields DEF Alone, Fields
<1>2. ScanFields(scan') /\ (scan'.on => scan.on)
  BY <1>1 DEF Tick, Busy, ScanFields
<1>3. ProbeFields(AgedProbe) /\ AgedProbe.stage = probe.stage
  BY AgedProbeFields DEF Alone, Fields
<1>4. ProbeFields(probe') /\ (probe'.stage # "none" => probe.stage # "none")
  BY <1>3 DEF Tick, Busy, Probing, ProbeFields
<1>5. FoundFields(found') /\ result' = result
  BY DEF Tick, Busy, Alone, Fields, FoundFields, Empty
<1> QED BY <1>2, <1>4, <1>5 DEF Alone, Fields, ProbesAlone

\* A scan that is stopped, in each of the ways the intents do it.
LEMMA OffFields ==
  ASSUME NEW s, ScanFields(s)
  PROVE  /\ ScanFields([s EXCEPT !.on = FALSE, !.done = FALSE])
         /\ [s EXCEPT !.on = FALSE, !.done = FALSE].on = FALSE
         /\ ScanFields(Stopped(s)) /\ Stopped(s).on = FALSE
  BY DEF ScanFields, Stopped

LEMMA FreshFields == FoundFields(Empty) /\ ProbeFields(NoProbe) /\ ResultFields(NoResult)
                     /\ NoProbe.stage = "none" /\ ~NoResult.some
  BY DEF FoundFields, Empty, ProbeFields, NoProbe, ResultFields, NoResult

LEMMA StartedOn == \A kind : Started(kind) =>
  ScanFields(scan') /\ scan'.kind = kind /\ scan'.cur = Never /\ found' = Empty
  /\ result' = NoResult /\ probe' = NoProbe /\ queried' = {}
  BY DEF Started, ScanFields

LEMMA CancelledOff ==
  ASSUME Fields, ProbesAlone, NEW keep \in BOOLEAN, Cancelled(keep)
  PROVE  Fields' /\ ProbesAlone' /\ ~scan'.on
<1>1. CASE probe.stage # "none"
  <2>1. /\ scan' = [scan EXCEPT !.on = FALSE, !.done = FALSE]
        /\ probe' = NoProbe /\ result' = NoResult /\ found' = found
    BY <1>1 DEF Cancelled
  <2>2. ScanFields(scan') /\ scan'.on = FALSE
    BY <2>1, OffFields DEF Fields
  <2> QED BY <2>1, <2>2, FreshFields DEF Fields, ProbesAlone
<1>2. CASE probe.stage = "none"
  <2>1. ScanFields(scan') /\ scan'.on = FALSE
    <3>1. scan' = [Stopped(scan) EXCEPT !.done = keep]
      BY <1>2 DEF Cancelled
    <3> QED BY <3>1, OffFields DEF Fields, ScanFields
  <2>2. ResultFields(result')
    <3>1. ResultFields(Result(found, scan.kind))
      BY DEF Result, ResultFields
    <3> QED BY <1>2, <3>1 DEF Cancelled, Fields
  <2>3. FoundFields(found') /\ probe' = probe
    BY <1>2, FreshFields DEF Cancelled, Fields
  <2> QED BY <1>2, <2>1, <2>2, <2>3 DEF Fields, ProbesAlone
<1> QED BY <1>1, <1>2

LEMMA CaptureScanHiplex ==
  ASSUME Fields, CaptureScan, panel.selected \in Hiplex
  PROVE  Fields' /\ ProbesAlone' /\ ~scan'.on
<1> DEFINE cur == IF probe.stage = "none" THEN Never ELSE scan.cur
           off == [scan EXCEPT !.on = FALSE, !.done = FALSE]
<1>1. scan' = [off EXCEPT !.cur = cur]
  BY DEF CaptureScan
<1>2. ScanFields(off) /\ off.on = FALSE
  BY OffFields DEF Fields
<1>3. ScanFields(scan') /\ scan'.on = FALSE
  <2> HIDE DEF off, cur
  <2> QED BY <1>1, <1>2 DEF ScanFields
<1>4. FoundFields(found')
  BY FreshFields DEF CaptureScan, Fields
<1>5. ProbeFields([NoProbe EXCEPT !.stage = "inputs"])
  BY DEF ProbeFields, NoProbe
<1>6. result' = NoResult /\ probe' = [NoProbe EXCEPT !.stage = "inputs"]
  BY DEF CaptureScan
<1> QED BY <1>3, <1>4, <1>5, <1>6, FreshFields DEF Fields, ProbesAlone

LEMMA IntentAlone == Alone /\ Intent => Alone'
<1> SUFFICES ASSUME Alone, Intent PROVE Alone'
  OBVIOUS
<1> USE DEF Alone
<1>1. ASSUME NEW kind, Started(kind) PROVE Alone'
  BY <1>1, StartedOn, FreshFields DEF Fields, ProbesAlone
<1>2. ASSUME NEW keep \in BOOLEAN, Cancelled(keep) PROVE Alone'
  BY <1>2, CancelledOff
<1>3. ASSUME NEW mode, CaptureStart(mode) PROVE Alone'
  <2>1. CASE mode = "discover" /\ panel.selected \in Hiplex
    BY <1>3, <2>1, CaptureScanHiplex DEF CaptureStart
  <2>2. CASE mode = "discover" /\ panel.selected \notin Hiplex
    BY <1>1, <1>3, <2>2 DEF CaptureStart, CaptureScan
  <2>3. CASE mode # "discover"
    BY <1>3, <2>3 DEF CaptureStart, Fields, ProbesAlone
  <2> QED BY <2>1, <2>2, <2>3
<1>4. CASE CaptureStop
  BY <1>2, <1>4 DEF CaptureStop, Fields, ProbesAlone
<1>5. CASE Reload
  BY <1>5, FreshFields DEF Reload, Fields, ProbesAlone
<1>6. ASSUME NEW kind, SelectPanel(kind) PROVE Alone'
  BY <1>6 DEF SelectPanel, Fields, ProbesAlone
<1> QED BY <1>1, <1>2, <1>3, <1>4, <1>5, <1>6 DEF Intent, StartScan, CancelScan

LEMMA TakeAlone == Alone /\ Take => Alone'
  BY DEF Take, Alone, Fields, ScanFields, FoundFields, ProbeFields, ResultFields, ProbesAlone,
         NoResult, Empty

LEMMA StutterAlone == Alone /\ UNCHANGED vars => Alone'
  BY DEF Alone, Fields, ProbesAlone, vars

LEMMA SpecAlone == Spec => []Alone
<1>1. Alone /\ [Next]_vars => Alone'
  BY FrameAlone, PollAlone, ClockAlone, IntentAlone, TakeAlone, StutterAlone DEF Next
<1> QED BY InitAlone, <1>1, PTL DEF Spec

\* The read probes of a debug capture never run beside an inventory scan and
\* never leave an inventory to be seeded, whatever was started before them
\* (runtime.rs, start_capture_scan and apply_intent).
THEOREM ProbesRunAlone == Spec => []ProbesAlone
<1>1. Alone => ProbesAlone
  BY DEF Alone
<1> QED BY SpecAlone, <1>1, PTL

-----------------------------------------------------------------------------
(* Names *)

\* The detector whose name is awaited was asked about by the running scan.
CurWasAsked == scan.on /\ scan.cur # Never => scan.cur \in queried

NamesAsked == NamesWereAsked /\ CurWasAsked

LEMMA InitAsked == Init => NamesAsked
  BY DEF Init, NamesAsked, NamesWereAsked, CurWasAsked, Empty

LEMMA FrameAsked == Fields /\ NamesAsked /\ Frame => NamesAsked'
<1> SUFFICES ASSUME Fields, NamesAsked, Frame PROVE NamesAsked'
  OBVIOUS
<1> USE ScanAssumption DEF NamesAsked, NamesWereAsked, CurWasAsked, Plus
<1>1. ASSUME NEW ext \in {"in", "out"}, NEW zero \in BOOLEAN, NEW S, Block(ext, zero, S)
      PROVE  NamesAsked'
  <2>1. scan'.on => scan.on /\ scan'.kind = scan.kind /\ scan'.cur = scan.cur
    BY <1>1 DEF Block, AfterBlock, Fields, ScanFields
  <2>2. found'.named = {} \/ found'.named = found.named
    <3> DEFINE f == [found EXCEPT !.ins  = @ \/ ext = "in",
                                  !.outs = @ \/ ext = "out",
                                  !.occ  = Capped(@, S)]
    <3>1. f.named = found.named
      BY DEF Fields, FoundFields
    <3>2. found' \in {Empty, f, found}
      BY <1>1 DEF Block
    <3>3. Empty.named = {}
      BY DEF Empty
    <3> HIDE DEF f
    <3> QED BY <3>1, <3>2, <3>3
  <2> QED BY <1>1, <2>1, <2>2 DEF Block
<1>2. ASSUME NEW a \in Addrs, Named(a), queried' = queried PROVE NamesAsked'
  <2>1. scan'.on = scan.on /\ scan'.kind = scan.kind /\ scan'.cur = scan.cur
    BY <1>2 DEF Named, Fields, ScanFields
  <2>2. scan.on /\ scan.kind = "plus" => found'.named \subseteq queried
    <3> SUFFICES ASSUME scan.on, scan.kind = "plus" PROVE found'.named \subseteq queried
      OBVIOUS
    <3>1. a # Never
      BY DEF Never
    <3>2. CASE Matches(a)
      <4>1. a \in queried
        BY <3>1, <3>2 DEF Matches
      <4>2. found'.named = found.named \union {a}
        BY <1>2, <3>2 DEF Named, Fields, FoundFields
      <4> QED BY <4>1, <4>2
    <3>3. CASE ~Matches(a)
      BY <1>2, <3>3 DEF Named
    <3> QED BY <3>2, <3>3
  <2> QED BY <1>2, <2>1, <2>2
<1>3. ASSUME NEW a \in Addrs, Text(a) \/ Alarm(a) \/ NotOccupied(a) PROVE NamesAsked'
  <2>1. CASE Text(a)
    BY <1>2, <2>1 DEF Text
  <2>2. CASE Alarm(a)
    BY <1>2, <2>2 DEF Alarm
  <2>3. CASE NotOccupied(a)
    BY <2>3 DEF NotOccupied, Fields, ScanFields
  <2> QED BY <1>3, <2>1, <2>2, <2>3
<1> QED BY <1>1, <1>3 DEF Frame

LEMMA PollAsked == Fields /\ NamesAsked /\ Poll => NamesAsked'
<1> SUFFICES ASSUME Fields, NamesAsked, Poll PROVE NamesAsked'
  OBVIOUS
<1> USE DEF NamesAsked, NamesWereAsked, CurWasAsked, Plus
<1>1. CASE ProbeAsks
  BY <1>1 DEF ProbeAsks
<1>2. CASE ScanPolled
  <2> DEFINE s == Advanced
  <2>1. ScanFields(s) /\ s.on = scan.on /\ s.kind = scan.kind /\ s.cur = scan.cur
    BY AdvancedFields DEF Fields
  <2> HIDE DEF s
  <2>2. CASE AsksBlocks(s)
    BY <2>1, <2>2 DEF AsksBlocks, ScanFields
  <2>3. CASE GivesUp(s)
    BY <2>1, <2>3 DEF GivesUp, ScanFields
  <2>4. CASE AsksName(s)
    BY <2>1, <2>4 DEF AsksName, Due, ScanFields
  <2>5. CASE Finishes(s)
    BY <2>1, <2>5 DEF Finishes, ScanFields
  <2>6. CASE Waits(s)
    BY <2>1, <2>6 DEF Waits
  <2> QED BY <1>2, <2>2, <2>3, <2>4, <2>5, <2>6 DEF ScanPolled, s
<1> QED BY <1>1, <1>2 DEF Poll

LEMMA ClockAsked == Fields /\ NamesAsked /\ (Tick \/ Busy) => NamesAsked'
<1> SUFFICES ASSUME Fields, NamesAsked, Tick \/ Busy PROVE NamesAsked'
  OBVIOUS
<1>1. scan'.on => scan.on /\ scan'.kind = scan.kind /\ scan'.cur = scan.cur
  BY AgedFields DEF Tick, Busy, Fields, ScanFields
<1>2. (found'.named = {} \/ found' = found) /\ queried' = queried
  BY DEF Tick, Busy, Empty
<1> QED BY <1>1, <1>2 DEF NamesAsked, NamesWereAsked, CurWasAsked, Plus

LEMMA IntentAsked == Alone /\ NamesAsked /\ Intent => NamesAsked'
<1> SUFFICES ASSUME Fields, ProbesAlone, NamesAsked, Intent PROVE NamesAsked'
  BY DEF Alone
<1> USE DEF NamesAsked, NamesWereAsked, CurWasAsked, Plus
<1>1. ASSUME NEW kind, Started(kind) PROVE NamesAsked'
  BY <1>1, StartedOn DEF Empty
<1>2. ASSUME NEW keep \in BOOLEAN, Cancelled(keep) PROVE NamesAsked'
  BY <1>2, CancelledOff
<1>3. ASSUME NEW mode, CaptureStart(mode) PROVE NamesAsked'
  <2>1. CASE mode = "discover" /\ panel.selected \in Hiplex
    BY <1>3, <2>1, CaptureScanHiplex DEF CaptureStart
  <2>2. CASE mode = "discover" /\ panel.selected \notin Hiplex
    BY <1>1, <1>3, <2>2 DEF CaptureStart, CaptureScan
  <2>3. CASE mode # "discover"
    BY <1>3, <2>3 DEF CaptureStart
  <2> QED BY <2>1, <2>2, <2>3
<1>4. CASE CaptureStop
  BY <1>2, <1>4 DEF CaptureStop
<1>5. CASE Reload
  BY <1>5 DEF Reload
<1>6. ASSUME NEW kind, SelectPanel(kind) PROVE NamesAsked'
  BY <1>6 DEF SelectPanel
<1> QED BY <1>1, <1>2, <1>3, <1>4, <1>5, <1>6 DEF Intent, StartScan, CancelScan

LEMMA TakeAsked == Fields /\ NamesAsked /\ Take => NamesAsked'
  BY DEF Take, Fields, ScanFields, NamesAsked, NamesWereAsked, CurWasAsked, Plus, Empty

LEMMA StutterAsked == NamesAsked /\ UNCHANGED vars => NamesAsked'
  BY DEF NamesAsked, NamesWereAsked, CurWasAsked, Plus, vars

\* A name in the inventory of a GMS plus scan answers a question of that scan,
\* never one of an earlier scan (runtime.rs, ingest_discover).
THEOREM NamesAreAnswers == Spec => []NamesWereAsked
<1>1. Alone /\ NamesAsked /\ [Next]_vars => NamesAsked'
  BY FrameAsked, PollAsked, ClockAsked, IntentAsked, TakeAsked, StutterAsked DEF Next, Alone
<1>2. NamesAsked => NamesWereAsked
  BY DEF NamesAsked
<1> QED BY SpecAlone, InitAsked, <1>1, <1>2, PTL DEF Spec

-----------------------------------------------------------------------------
(* The table *)

\* Among numbers that are bounded there is a largest.
LEMMA Largest ==
  ASSUME NEW T, T # {}, NEW f \in [T -> Nat], NEW max \in Nat, \A a \in T : f[a] <= max
  PROVE  \E last \in T : \A a \in T : f[a] <= f[last]
<1> DEFINE spare == {max - f[a] : a \in T}
<1>1. spare \subseteq Nat /\ spare # {}
  OBVIOUS
<1>2. PICK n \in spare : \A m \in spare : n <= m
  <2> HIDE DEF spare
  <2>1. \E n \in spare : \A m \in spare : ~(<<m, n>> \in OpToRel(<, Nat))
    BY <1>1, NatLessThanWellFounded, WFMin
  <2>2. \A m, n \in spare : m < n => <<m, n>> \in OpToRel(<, Nat)
    BY <1>1 DEF OpToRel
  <2>3. \A m, n \in spare : ~(m < n) => n <= m
    BY <1>1
  <2> QED BY <2>1, <2>2, <2>3
<1>3. PICK last \in T : n = max - f[last]
  BY <1>2
<1>4. \A a \in T : max - f[last] <= max - f[a]
  BY <1>2, <1>3
<1> QED BY <1>4

\* A block adds as much of itself as the table takes: the addresses up to the
\* last that fits.
LEMMA CappedFits ==
  ASSUME NEW occ \in SUBSET Addrs, NEW S \in SUBSET Addrs, Cardinality(occ) <= MaxSensors
  PROVE  Capped(occ, S) \in SUBSET Addrs /\ Cardinality(Capped(occ, S)) <= MaxSensors
<1> USE ScanAssumption
<1> DEFINE upTo(a) == occ \union {b \in S : b <= a}
           taken == {a \in S : Cardinality(upTo(a)) <= MaxSensors}
           size == [a \in taken |-> Cardinality(upTo(a))]
<1>1. Capped(occ, S) = occ \union taken
  BY DEF Capped
<1>2. taken \in SUBSET Addrs
  OBVIOUS
<1>3. \A a \in taken : upTo(a) \in SUBSET Addrs /\ IsFiniteSet(upTo(a)) /\ Cardinality(upTo(a)) \in Nat
                       /\ Cardinality(upTo(a)) <= MaxSensors
  <2> TAKE a \in taken
  <2>1. upTo(a) \in SUBSET Addrs
    OBVIOUS
  <2>2. Cardinality(upTo(a)) <= MaxSensors
    OBVIOUS
  <2> HIDE DEF upTo
  <2> QED BY <2>1, <2>2, FS_Subset, FS_CardinalityType
<1>4. CASE taken = {}
  BY <1>1, <1>4
<1>5. CASE taken # {}
  <2>1. size \in [taken -> Nat] /\ \A a \in taken : size[a] <= MaxSensors
    <3> HIDE DEF upTo, taken
    <3> QED BY <1>3
  <2>2. PICK last \in taken : \A a \in taken : size[a] <= size[last]
    <3> HIDE DEF taken, size
    <3> QED BY <1>5, <2>1, Largest
  <2>3. \A a \in taken : Cardinality(upTo(a)) <= Cardinality(upTo(last))
    <3> HIDE DEF upTo, taken
    <3> QED BY <2>2
  <2>4. \A a \in taken : a \in upTo(last)
    <3> SUFFICES ASSUME NEW a \in taken, a \notin upTo(last) PROVE FALSE
      OBVIOUS
    <3>1. a \in Nat /\ last \in Nat /\ ~(a <= last)
      BY <1>2
    <3>2. upTo(last) \union {a} \in SUBSET upTo(a)
      <4>1. \A b \in S : b \in Nat /\ (b <= last => b <= a)
        BY <3>1
      <4>2. a \in S /\ a <= a
        BY <3>1
      <4> QED BY <4>1, <4>2, Zenon
    <3> HIDE DEF upTo, taken
    <3>3. Cardinality(upTo(last) \union {a}) = Cardinality(upTo(last)) + 1
      BY <1>3, FS_AddElement
    <3>4. Cardinality(upTo(last)) + 1 <= Cardinality(upTo(a))
      BY <1>3, <3>2, <3>3, FS_Subset
    <3>5. Cardinality(upTo(a)) \in Nat /\ Cardinality(upTo(last)) \in Nat
      BY <1>3
    <3> QED BY <2>3, <3>4, <3>5
  <2>5. occ \union taken \in SUBSET upTo(last)
    BY <2>4
  <2>6. Cardinality(upTo(last)) <= MaxSensors /\ Cardinality(upTo(last)) \in Nat
        /\ IsFiniteSet(upTo(last))
    BY <1>3
  <2>7. /\ Cardinality(occ \union taken) <= Cardinality(upTo(last))
        /\ Cardinality(occ \union taken) \in Nat
    <3> HIDE DEF upTo, taken
    <3> QED BY <2>5, <2>6, FS_Subset, FS_CardinalityType
  <2> HIDE DEF upTo, taken
  <2> QED BY <1>1, <1>2, <2>6, <2>7
<1> QED BY <1>4, <1>5

Fits == found.occ \subseteq Addrs /\ WithinTable

LEMMA FitsAlways == Fields /\ Fits /\ [Next]_vars => Fits'
<1> SUFFICES ASSUME Fields, Fits, [Next]_vars PROVE Fits'
  OBVIOUS
<1>1. FoundFields(found) /\ Cardinality({}) = 0 /\ MaxSensors \in Nat
  BY FS_EmptySet, ScanAssumption DEF Fields
<1>2. ASSUME found' = Empty \/ found'.occ = found.occ PROVE Fits'
  BY <1>1, <1>2 DEF Fits, WithinTable, Empty
<1>3. ASSUME NEW ext, NEW zero, NEW S \in SUBSET Addrs, Block(ext, zero, S) PROVE Fits'
  <2> DEFINE f == [found EXCEPT !.ins  = @ \/ ext = "in",
                                !.outs = @ \/ ext = "out",
                                !.occ  = Capped(@, S)]
  <2>1. f.occ = Capped(found.occ, S)
    BY <1>1 DEF FoundFields
  <2>2. found' \in {Empty, f, found}
    BY <1>3 DEF Block
  <2>3. CASE found' = f
    BY <2>1, <2>3, CappedFits DEF Fits, WithinTable
  <2> QED BY <1>2, <2>2, <2>3
<1>4. CASE Frame
  <2>1. ASSUME NEW a, Named(a) PROVE found'.occ = found.occ
    BY <1>1, <2>1 DEF Named, FoundFields
  <2>2. ASSUME NEW a, Text(a) \/ Alarm(a) \/ NotOccupied(a) PROVE found'.occ = found.occ
    BY <2>1, <2>2 DEF Text, Alarm, NotOccupied
  <2>3. Reports(Inputs) \subseteq SUBSET Addrs /\ Reports(Outputs) \subseteq SUBSET Addrs
    BY DEF Reports, Addrs
  <2> QED BY <1>2, <1>3, <1>4, <2>2, <2>3 DEF Frame
<1>5. CASE Poll
  BY <1>2, <1>5 DEF Poll, ProbeAsks, ScanPolled, AsksBlocks, GivesUp, AsksName, Finishes, Waits
<1>6. CASE Tick \/ Busy
  BY <1>2, <1>6 DEF Tick, Busy
<1>7. CASE Intent
  <2>1. ASSUME NEW keep, Cancelled(keep) PROVE found' = Empty \/ found'.occ = found.occ
    BY <2>1 DEF Cancelled
  <2> QED BY <1>2, <1>7, <2>1 DEF Intent, StartScan, Started, CancelScan, CaptureStart, CaptureScan,
          CaptureStop, SelectPanel, Reload
<1>8. CASE Take
  BY <1>2, <1>8 DEF Take
<1>9. CASE UNCHANGED vars
  BY <1>2, <1>9 DEF vars
<1> QED BY <1>4, <1>5, <1>6, <1>7, <1>8, <1>9 DEF Next

\* However a panel splits and repeats its reports, the table of detectors holds
\* at most MAX_SENSORS, and only addresses a panel has (discovery.rs,
\* ingest_belegt).
THEOREM TableNeverOverflows == Spec => []WithinTable
<1>1. Init => Fits
  BY FS_EmptySet, ScanAssumption DEF Init, Fits, WithinTable, Empty
<1>2. Fits => WithinTable
  BY DEF Fits
<1>3. Alone => Fields
  BY DEF Alone
<1> QED BY SpecAlone, FitsAlways, <1>1, <1>2, <1>3, PTL DEF Spec
-----------------------------------------------------------------------------
(* Types *)

Awaits == Never..(Retry + 1)
Quiets == Never..Retry
Runs   == 0..Limit
Tries  == 0..3
Place  == Addrs \union {Never}

Scans   == [on : BOOLEAN, done : BOOLEAN, kind : Kinds, texted : BOOLEAN, todo : SUBSET Addrs,
            await : Awaits, quiet : Quiets, tries : Tries, cur : Place, ran : Runs]
Founds  == [ins : BOOLEAN, outs : BOOLEAN, occ : SUBSET Addrs, named : SUBSET Addrs]
Results == [some : BOOLEAN, inv : SUBSET Addrs, kind : Kinds]
Probes  == [stage : Stages, sent : Quiets, least : Place, ran : Runs]

\* A probe asks for the name of an address.
Aimed(p) == p.stage = "text" => p.least # Never

Others ==
  /\ panel \in [selected : Kinds, live : Kinds]
  /\ capture \in [active : BOOLEAN, mode : Modes]
  /\ asked \subseteq Addrs /\ queried \subseteq Addrs
  /\ requests \in 0..MaxRequests

Typed ==
  /\ scan \in Scans /\ found \in Founds /\ result \in Results
  /\ probe \in Probes /\ Aimed(probe)
  /\ Others

LEMMA Ages ==
  /\ Never \in Awaits /\ 0 \in Awaits /\ \A x \in Awaits : Older(x, Retry + 1) \in Awaits
  /\ Never \in Quiets /\ 0 \in Quiets /\ \A x \in Quiets : Older(x, Retry) \in Quiets
  /\ 0 \in Runs /\ 0 < Limit /\ \A x \in Runs : Older(x, Limit) \in Runs
  /\ 0 \in Tries /\ \A x \in Tries : (IF x < 3 THEN x + 1 ELSE x) \in Tries
  /\ Never \in Place /\ Never \notin Addrs
  BY ScanAssumption DEF Awaits, Quiets, Runs, Tries, Place, Older, Never

\* The smallest of a set of addresses.
LEMMA Least ==
  ASSUME NEW S \in SUBSET Addrs, S # {}
  PROVE  Min(S) \in S /\ \A b \in S : Min(S) <= b
<1>1. S \subseteq Nat
  BY ScanAssumption
<1>2. \E n \in S : \A m \in S : ~(<<m, n>> \in OpToRel(<, Nat))
  BY <1>1, NatLessThanWellFounded, WFMin
<1>3. \A m, n \in S : m < n => <<m, n>> \in OpToRel(<, Nat)
  BY <1>1 DEF OpToRel
<1>4. \A m, n \in S : ~(m < n) => n <= m
  BY <1>1
<1>5. \E n \in S : \A m \in S : n <= m
  BY <1>2, <1>3, <1>4
<1> QED BY <1>5 DEF Min

LEMMA InitTyped == Init => Typed
<1> SUFFICES ASSUME Init PROVE Typed
  OBVIOUS
<1>1. scan \in Scans
  <2> PICK kind \in Kinds : scan = [on |-> FALSE, done |-> FALSE, kind |-> kind, texted |-> FALSE,
          todo |-> {}, await |-> Never, quiet |-> Never, tries |-> 0, cur |-> Never, ran |-> 0]
    BY DEF Init
  <2> QED BY Ages DEF Scans
<1>2. found \in Founds /\ result \in Results /\ probe \in Probes /\ Aimed(probe)
  BY Ages DEF Init, Empty, NoResult, NoProbe, Founds, Results, Probes, Aimed, Kinds, Stages
<1>3. Others
  BY ScanAssumption DEF Init, Others, Modes
<1> QED BY <1>1, <1>2, <1>3 DEF Typed

\* What the records of a fresh scan are, and what a stopped one is.
LEMMA FreshTyped ==
  Empty \in Founds /\ NoResult \in Results /\ NoProbe \in Probes /\ Aimed(NoProbe)
  BY Ages DEF Empty, NoResult, NoProbe, Founds, Results, Probes, Aimed, Kinds, Stages

LEMMA ResultTyped ==
  ASSUME NEW f \in Founds, NEW kind \in Kinds
  PROVE  Result(f, kind) \in Results
  BY DEF Result, Results, Inventory, Founds

LEMMA CappedTyped ==
  ASSUME NEW occ \in SUBSET Addrs, NEW S \in SUBSET Addrs
  PROVE  Capped(occ, S) \in SUBSET Addrs /\ occ \subseteq Capped(occ, S)
  BY DEF Capped

LEMMA HearsTyped ==
  Typed => ProbeHears \in Probes /\ Aimed(ProbeHears) /\ ProbeHears.stage \in {probe.stage, "done"}
  BY DEF Typed, ProbeHears, Probes, Aimed, Stages

LEMMA BlockTyped ==
  ASSUME Typed, NEW ext, NEW zero \in BOOLEAN, NEW S \in SUBSET Addrs, Block(ext, zero, S)
  PROVE  Typed'
<1> DEFINE f == [found EXCEPT !.ins  = @ \/ ext = "in",
                              !.outs = @ \/ ext = "out",
                              !.occ  = Capped(@, S)]
<1>1. f \in Founds
  BY CappedTyped DEF Typed, Founds
<1>2. probe' \in Probes /\ Aimed(probe')
  <2>1. probe' = ProbeSees(ext, zero, S)
    BY DEF Block
  <2>2. CASE ProbeHears.stage = "inputs" /\ S # {}
    <3> DEFINE least == IF probe.least = Never \/ Min(S) < probe.least THEN Min(S) ELSE probe.least
    <3>1. least \in Place
      BY Least, <2>2 DEF Typed, Probes, Place
    <3>2. probe' = ProbeHears \/ probe' = [probe EXCEPT !.least = least]
      BY <2>1 DEF ProbeSees, Typed, Probes
    <3>3. probe.stage = "inputs"
      BY <2>2, HearsTyped
    <3> HIDE DEF least
    <3> QED BY <3>1, <3>2, <3>3, HearsTyped DEF Typed, Probes, Aimed
  <2>3. CASE ~(ProbeHears.stage = "inputs" /\ S # {})
    BY <2>1, <2>3, HearsTyped DEF ProbeSees
  <2> QED BY <2>2, <2>3
<1>3. scan' \in Scans /\ found' \in Founds
  <2>1. AfterBlock(f) \in Scans
    <3> HIDE DEF f
    <3> QED BY <1>1, Ages DEF AfterBlock, Typed, Scans, Founds
  <2>2. [scan EXCEPT !.on = FALSE, !.quiet = 0] \in Scans /\ [scan EXCEPT !.quiet = 0] \in Scans
    BY Ages DEF Typed, Scans
  <2> HIDE DEF f
  <2>3. scan' \in {scan, AfterBlock(f), [scan EXCEPT !.on = FALSE, !.quiet = 0],
                   [scan EXCEPT !.quiet = 0]} /\ found' \in {found, Empty, f}
    BY DEF Block, f
  <2> QED BY <1>1, <2>1, <2>2, <2>3, FreshTyped DEF Typed
<1> QED BY <1>2, <1>3 DEF Block, Typed, Others

LEMMA NamedTyped ==
  ASSUME Typed, NEW a \in Addrs, Named(a)
  PROVE  scan' \in Scans /\ found' \in Founds
  BY Ages DEF Named, Typed, Scans, Founds

LEMMA FrameTyped == Typed /\ Frame => Typed'
<1> SUFFICES ASSUME Typed, Frame PROVE Typed'
  OBVIOUS
<1>1. ASSUME NEW zero \in BOOLEAN, NEW S \in Reports(Inputs), Block("in", zero, S) PROVE Typed'
  BY <1>1, BlockTyped DEF Reports, Addrs
<1>2. ASSUME NEW S \in Reports(Outputs), Block("out", TRUE, S) PROVE Typed'
  BY <1>2, BlockTyped DEF Reports, Addrs
<1>3. ASSUME NEW a \in Addrs, Text(a) PROVE Typed'
  BY <1>3, NamedTyped, HearsTyped DEF Text, Typed, Others
<1>4. ASSUME NEW a \in Addrs, Alarm(a) PROVE Typed'
  BY <1>4, NamedTyped, HearsTyped DEF Alarm, Typed, Others
<1>5. ASSUME NEW a \in Addrs, NotOccupied(a) PROVE Typed'
  <2>1. [scan EXCEPT !.await = Never] \in Scans
    BY Ages DEF Typed, Scans
  <2> QED BY <1>5, <2>1, HearsTyped DEF NotOccupied, Typed, Others
<1> QED BY <1>1, <1>2, <1>3, <1>4, <1>5 DEF Frame

LEMMA ProbeAsksTyped == Typed /\ ProbeAsks => Typed'
<1> SUFFICES ASSUME Typed, ProbeAsks PROVE Typed'
  OBVIOUS
<1>1. probe.stage \in {"inputs", "outputs", "text"}
  BY DEF ProbeAsks, ProbeDue, Probing, Typed, Probes, Stages, Aimed
<1>2. Stage \in {"inputs", "outputs", "text"} /\ (Stage = "text" => probe.least # Never)
  BY <1>1 DEF ProbeAsks, Stage, Typed, Aimed
<1>3. probe' \in Probes /\ Aimed(probe')
  <2>1. probe' = [probe EXCEPT !.stage = Stage, !.sent = 0]
    BY DEF ProbeAsks
  <2>2. Stage \in Stages
    BY <1>2 DEF Stages
  <2> HIDE DEF Stage
  <2> QED BY <1>1, <1>2, <2>1, <2>2, Ages DEF Typed, Probes, Aimed
<1>4. asked' \subseteq Addrs
  <2>1. Stage = "text" => probe.least \in Addrs
    BY <1>2 DEF Typed, Probes, Place
  <2> QED BY <2>1 DEF ProbeAsks, Sent, Typed, Others
<1> QED BY <1>3, <1>4 DEF ProbeAsks, Typed, Others

LEMMA AdvancedTyped == Typed => Advanced \in Scans
  BY Ages DEF Advanced, Typed, Scans, Founds

LEMMA ScanPolledTyped == Typed /\ ScanPolled => Typed'
<1> SUFFICES ASSUME Typed, ScanPolled PROVE Typed'
  OBVIOUS
<1> DEFINE s == Advanced
<1>1. s \in Scans
  BY AdvancedTyped
<1>2. probe' \in Probes /\ Aimed(probe')
  <2>1. [probe EXCEPT !.stage = "done", !.sent = Never] \in Probes
        /\ Aimed([probe EXCEPT !.stage = "done", !.sent = Never])
    BY Ages DEF Typed, Probes, Aimed, Stages
  <2> QED BY <2>1, HearsTyped DEF ScanPolled, ProbePasses
<1>3. scan' \in Scans /\ found' \in Founds /\ result' \in Results
      /\ asked' \subseteq Addrs /\ queried' \subseteq Addrs
  <2> HIDE DEF s
  <2>0. scan \in Scans /\ found \in Founds /\ result \in Results
        /\ asked \subseteq Addrs /\ queried \subseteq Addrs
    BY DEF Typed, Others
  <2>1. CASE AsksBlocks(s)
    <3> DEFINE tries == IF Plus(s) /\ s.tries < 3 THEN s.tries + 1 ELSE s.tries
    <3>1. tries \in Tries
      BY <1>1, Ages DEF Scans
    <3>2. scan' = [s EXCEPT !.tries = tries, !.await = 0]
      BY <1>1, <2>1 DEF AsksBlocks, Scans
    <3> HIDE DEF tries
    <3>3. scan' \in Scans
      BY <1>1, <3>1, <3>2, Ages DEF Scans
    <3> QED BY <2>0, <2>1, <3>3 DEF AsksBlocks
  <2>2. CASE GivesUp(s)
    BY <1>1, <2>0, <2>2 DEF GivesUp, Scans
  <2>3. CASE AsksName(s)
    <3>1. Min(s.todo) \in Addrs
      BY <1>1, <2>3, Least DEF AsksName, Scans
    <3> DEFINE a   == Min(s.todo)
               cur == IF Plus(s) THEN a ELSE s.cur
    <3>2. a \in Addrs /\ cur \in Place
      BY <1>1, <3>1 DEF Place, Scans
    <3>3. scan' = [s EXCEPT !.cur = cur, !.todo = @ \ {a}, !.await = 0]
          /\ Sent(a) /\ queried' \in {queried, queried \union {a}} /\ found' = found /\ result' = result
      BY <1>1, <2>3 DEF AsksName, Scans
    <3> HIDE DEF a, cur
    <3>4. scan' \in Scans
      BY <1>1, <3>2, <3>3, Ages DEF Scans
    <3> QED BY <2>0, <3>2, <3>3, <3>4 DEF Sent
  <2>4. CASE Finishes(s)
    <3>1. result' \in Results
      BY <1>1, <2>0, <2>4, ResultTyped DEF Finishes, Scans
    <3>2. scan' \in Scans
      BY <1>1, <2>4, Ages DEF Finishes, Scans
    <3> QED BY <2>0, <2>4, <3>1, <3>2 DEF Finishes
  <2>5. CASE Waits(s)
    BY <1>1, <2>0, <2>5 DEF Waits
  <2> QED BY <2>1, <2>2, <2>3, <2>4, <2>5 DEF ScanPolled, s
<1> QED BY <1>2, <1>3 DEF ScanPolled, Typed, Others

LEMMA ClockTyped == Typed /\ (Tick \/ Busy) => Typed'
<1> SUFFICES ASSUME Typed, Tick \/ Busy PROVE Typed'
  OBVIOUS
<1>1. Aged \in Scans
  <2> DEFINE await == IF scan.on THEN Older(scan.await, Retry + 1) ELSE scan.await
             quiet == IF scan.on /\ ~scan.texted THEN Older(scan.quiet, Retry) ELSE scan.quiet
             ran   == IF scan.on /\ Plus(scan) /\ ~scan.texted THEN Older(scan.ran, Limit) ELSE scan.ran
  <2>1. await \in Awaits /\ quiet \in Quiets /\ ran \in Runs
    BY Ages DEF Typed, Scans
  <2>2. Aged = [scan EXCEPT !.await = await, !.quiet = quiet, !.ran = ran]
    BY DEF Aged, Typed, Scans
  <2> HIDE DEF await, quiet, ran
  <2> QED BY <2>1, <2>2 DEF Typed, Scans
<1>2. scan' \in Scans /\ found' \in Founds
  <2>1. [Aged EXCEPT !.on = FALSE] \in Scans
    BY <1>1 DEF Scans
  <2> QED BY <1>1, <2>1, FreshTyped DEF Tick, Busy, Typed
<1>3. AgedProbe \in Probes /\ Aimed(AgedProbe)
  <2> DEFINE sent == Older(probe.sent, Retry)
             ran  == Older(probe.ran, Limit)
  <2>1. sent \in Quiets /\ ran \in Runs
    BY Ages DEF Typed, Probes
  <2>2. AgedProbe \in {probe, [probe EXCEPT !.sent = sent, !.ran = ran]}
    BY DEF AgedProbe, Typed, Probes
  <2> HIDE DEF sent, ran
  <2> QED BY <2>1, <2>2 DEF Typed, Probes, Aimed
<1>4. probe' \in Probes /\ Aimed(probe')
  <2>1. /\ [AgedProbe EXCEPT !.stage = "done"] \in Probes
        /\ Aimed([AgedProbe EXCEPT !.stage = "done"])
    BY <1>3 DEF Probes, Aimed, Stages
  <2> QED BY <1>3, <2>1 DEF Tick, Busy
<1> QED BY <1>2, <1>4 DEF Tick, Busy, Typed, Others

LEMMA StartedTyped ==
  ASSUME NEW kind \in Kinds, Started(kind)
  PROVE  scan' \in Scans /\ found' \in Founds /\ result' \in Results
         /\ probe' \in Probes /\ Aimed(probe') /\ queried' \subseteq Addrs
  BY Ages, FreshTyped DEF Started, Scans

\* A scan that is off, in each of the ways the intents turn it off.
LEMMA OffTyped ==
  ASSUME NEW s \in Scans, NEW keep \in BOOLEAN
  PROVE  [s EXCEPT !.on = FALSE, !.done = FALSE] \in Scans
         /\ [Stopped(s) EXCEPT !.done = keep] \in Scans
  BY Ages DEF Scans, Stopped

LEMMA CancelledTyped ==
  ASSUME Typed, NEW keep \in BOOLEAN, Cancelled(keep)
  PROVE  scan' \in Scans /\ found' \in Founds /\ result' \in Results
         /\ probe' \in Probes /\ Aimed(probe')
<1>1. Result(found, scan.kind) \in Results
  BY ResultTyped DEF Typed, Scans
<1> QED BY <1>1, OffTyped, FreshTyped DEF Cancelled, Typed

LEMMA CaptureScanTyped ==
  ASSUME Typed, CaptureScan
  PROVE  scan' \in Scans /\ found' \in Founds /\ result' \in Results
         /\ probe' \in Probes /\ Aimed(probe') /\ queried' \subseteq Addrs
<1>1. CASE panel.selected \notin Hiplex
  <2>1. panel.live \in Kinds /\ Started(panel.live)
    BY <1>1 DEF CaptureScan, Typed, Others
  <2> QED BY <2>1, StartedTyped
<1>2. CASE panel.selected \in Hiplex
  <2> DEFINE cur == IF probe.stage = "none" THEN Never ELSE scan.cur
  <2>1. cur \in Place
    BY Ages DEF Typed, Scans
  <2>2. scan' = [scan EXCEPT !.on = FALSE, !.done = FALSE, !.cur = cur]
    BY <1>2 DEF CaptureScan, Typed, Scans
  <2>3. scan' \in Scans
    <3> HIDE DEF cur
    <3> QED BY <2>1, <2>2 DEF Typed, Scans
  <2>4. [NoProbe EXCEPT !.stage = "inputs"] \in Probes /\ Aimed([NoProbe EXCEPT !.stage = "inputs"])
    BY Ages DEF NoProbe, Probes, Aimed, Stages
  <2> QED BY <1>2, <2>3, <2>4, FreshTyped DEF CaptureScan, Typed, Others
<1> QED BY <1>1, <1>2

LEMMA IntentTyped == Typed /\ Intent => Typed'
<1> SUFFICES ASSUME Typed, Intent PROVE Typed'
  OBVIOUS
<1>1. ASSUME Request PROVE requests' \in 0..MaxRequests
  BY <1>1, ScanAssumption DEF Request, Typed, Others
<1>2. CASE StartScan
  <2>1. panel.selected \in Kinds
    BY DEF Typed, Others
  <2> QED BY <1>1, <1>2, <2>1, StartedTyped DEF StartScan, Typed, Others
<1>3. ASSUME NEW keep \in BOOLEAN, CancelScan(keep) PROVE Typed'
  BY <1>1, <1>3, CancelledTyped DEF CancelScan, Typed, Others
<1>4. CASE CaptureStop
  BY <1>1, <1>4, CancelledTyped DEF CaptureStop, Typed, Others
<1>5. ASSUME NEW mode \in Modes, CaptureStart(mode) PROVE Typed'
  <2>1. capture' \in [active : BOOLEAN, mode : Modes]
    BY <1>5 DEF CaptureStart
  <2> QED BY <1>1, <1>5, <2>1, CaptureScanTyped DEF CaptureStart, Typed, Others
<1>6. ASSUME NEW kind \in Kinds, SelectPanel(kind) PROVE Typed'
  BY <1>1, <1>6 DEF SelectPanel, Typed, Others
<1>7. CASE Reload
  BY <1>1, <1>7, FreshTyped DEF Reload, Typed, Others
<1> QED BY <1>2, <1>3, <1>4, <1>5, <1>6, <1>7 DEF Intent

LEMMA TakeTyped == Typed /\ Take => Typed'
<1> SUFFICES ASSUME Typed, Take PROVE Typed'
  OBVIOUS
<1>1. [scan EXCEPT !.todo = {}] \in Scans
  BY DEF Typed, Scans
<1>2. panel' \in [selected : Kinds, live : Kinds]
  BY DEF Take, Typed, Others, Results
<1> QED BY <1>1, <1>2, FreshTyped DEF Take, Typed, Others

LEMMA NextTyped == Typed /\ [Next]_vars => Typed'
<1>1. Typed /\ UNCHANGED vars => Typed'
  BY DEF Typed, Others, vars
<1> QED BY <1>1, FrameTyped, ProbeAsksTyped, ScanPolledTyped, ClockTyped, IntentTyped, TakeTyped
        DEF Next, Poll

\* Every field of the scan, the probes and the inventory keeps its type, and the
\* table its size (runtime.rs, diagnostic_probe.rs, discovery.rs).
THEOREM TypeCorrect == Spec => []TypeOK
<1>1. Typed /\ WithinTable => TypeOK
  BY DEF Typed, Others, TypeOK, Scans, Founds, Results, Probes, Awaits, Quiets, Runs, Tries, Place
<1> QED BY InitTyped, NextTyped, TableNeverOverflows, <1>1, PTL DEF Spec

-----------------------------------------------------------------------------
(* Nothing is skipped *)

\* GMS plus takes no block once the names are asked for.
LEMMA BlockSkipless ==
  ASSUME Typed, NoneSkipped, NEW ext, NEW zero, NEW S, Block(ext, zero, S)
  PROVE  NoneSkipped'
<1>1. queried' = queried /\ (scan'.on => scan.on) /\ scan'.kind = scan.kind
  BY DEF Block, AfterBlock, Typed, Scans
<1>2. CASE ~(scan.on /\ Accepted(ext, zero))
  BY <1>1, <1>2 DEF Block, NoneSkipped, Plus
<1>3. CASE scan.on /\ Accepted(ext, zero) /\ Plus(scan)
  <2>1. ~scan.texted
    BY <1>3 DEF Accepted
  <2>2. scan'.texted = scan.texted
    BY <1>3 DEF Block, Typed, Scans
  <2> QED BY <2>1, <2>2 DEF NoneSkipped
<1>4. CASE ~Plus(scan)
  BY <1>1, <1>4 DEF NoneSkipped, Plus
<1> QED BY <1>2, <1>3, <1>4

\* Nothing this property speaks of changes but for the addresses asked about.
LEMMA SkiplessStays ==
  ASSUME NoneSkipped,
         scan'.on => scan.on, scan'.kind = scan.kind,
         scan'.texted = scan.texted, scan'.todo = scan.todo,
         found'.occ = found.occ, queried \subseteq queried'
  PROVE  NoneSkipped'
  BY DEF NoneSkipped, Plus

LEMMA SkiplessOff == ~scan'.on => NoneSkipped'
  BY DEF NoneSkipped

LEMMA FrameSkipless == Typed /\ NoneSkipped /\ Frame => NoneSkipped'
<1> SUFFICES ASSUME Typed, NoneSkipped, Frame PROVE NoneSkipped'
  OBVIOUS
<1>1. ASSUME NEW ext, NEW zero, NEW S, Block(ext, zero, S) PROVE NoneSkipped'
  BY <1>1, BlockSkipless
<1>2. ASSUME NEW a \in Addrs, Text(a) \/ Alarm(a) \/ NotOccupied(a) PROVE NoneSkipped'
  <2>1. /\ scan'.on = scan.on /\ scan'.kind = scan.kind
        /\ scan'.texted = scan.texted /\ scan'.todo = scan.todo
    BY <1>2 DEF Text, Alarm, NotOccupied, Named, Typed, Scans
  <2>2. found'.occ = found.occ
    BY <1>2 DEF Text, Alarm, NotOccupied, Named, Typed, Founds
  <2>3. queried' = queried
    BY <1>2 DEF Text, Alarm, NotOccupied
  <2> QED BY <2>1, <2>2, <2>3, SkiplessStays
<1> QED BY <1>1, <1>2 DEF Frame

\* Closing the occupancy phase queues everything that was taken.
LEMMA PollSkipless == Typed /\ NoneSkipped /\ Poll => NoneSkipped'
<1> SUFFICES ASSUME Typed, NoneSkipped, Poll PROVE NoneSkipped'
  OBVIOUS
<1>1. CASE ProbeAsks
  BY <1>1, SkiplessStays DEF ProbeAsks
<1>2. CASE ScanPolled
  <2> DEFINE s == Advanced
  <2>1. s \in Scans /\ s.on = scan.on
    BY AdvancedTyped DEF Advanced, Typed, Scans
  <2>2. s.on /\ s.kind = "plus" /\ s.texted => found.occ \subseteq queried \union s.todo
    BY DEF Advanced, NoneSkipped, Typed, Scans, Plus
  <2> HIDE DEF s
  <2>3. CASE GivesUp(s) \/ Finishes(s)
    <3>1. ~scan'.on
      BY <2>1, <2>3 DEF GivesUp, Finishes, Scans
    <3> QED BY <3>1, SkiplessOff
  <2>4. CASE AsksBlocks(s) \/ AsksName(s) \/ Waits(s)
    <3>1. found' = found /\ queried \subseteq queried'
      BY <2>4 DEF AsksBlocks, AsksName, Waits
    <3>2. scan'.on => /\ scan'.on = s.on /\ scan'.kind = s.kind /\ scan'.texted = s.texted
                      /\ s.kind = "plus" => s.todo \subseteq queried' \union scan'.todo
      <4>1. CASE AsksBlocks(s)
        <5>1. PICK n : scan' = [s EXCEPT !.tries = n, !.await = 0]
          BY <4>1 DEF AsksBlocks
        <5> QED BY <2>1, <5>1 DEF Scans
      <4>2. CASE AsksName(s)
        <5> DEFINE a == Min(s.todo)
        <5>1. PICK cur : scan' = [s EXCEPT !.cur = cur, !.todo = @ \ {a}, !.await = 0]
          BY <4>2 DEF AsksName
        <5>2. s.kind = "plus" => queried' = queried \union {a}
          BY <4>2 DEF AsksName, Plus
        <5> HIDE DEF a
        <5> QED BY <2>1, <5>1, <5>2 DEF Scans
      <4>3. CASE Waits(s)
        BY <2>1, <4>3 DEF Waits
      <4> QED BY <2>4, <4>1, <4>2, <4>3
    <3> QED BY <2>2, <3>1, <3>2 DEF NoneSkipped, Plus
  <2> QED BY <1>2, <2>3, <2>4 DEF ScanPolled, s
<1> QED BY <1>1, <1>2 DEF Poll

LEMMA ClockSkipless == Typed /\ NoneSkipped /\ (Tick \/ Busy) => NoneSkipped'
<1> SUFFICES ASSUME Typed, NoneSkipped, Tick \/ Busy PROVE NoneSkipped'
  OBVIOUS
<1>1. /\ Aged.on = scan.on /\ Aged.kind = scan.kind /\ DOMAIN Aged = DOMAIN scan
      /\ Aged.texted = scan.texted /\ Aged.todo = scan.todo
  BY DEF Aged, Typed, Scans
<1>2. CASE Tick /\ OutOfTime(Aged)
  <2>1. ~scan'.on
    BY <1>1, <1>2 DEF Tick, Typed, Scans
  <2> QED BY <2>1, SkiplessOff
<1>3. CASE Busy \/ (Tick /\ ~OutOfTime(Aged))
  BY <1>1, <1>3, SkiplessStays DEF Tick, Busy
<1> QED BY <1>2, <1>3

LEMMA IntentSkipless == Typed /\ Alone /\ NoneSkipped /\ Intent => NoneSkipped'
<1> SUFFICES ASSUME Typed, Fields, ProbesAlone, NoneSkipped, Intent PROVE NoneSkipped'
  BY DEF Alone
<1>1. ASSUME NEW kind, Started(kind) PROVE NoneSkipped'
  BY <1>1 DEF Started, NoneSkipped
<1>2. ASSUME NEW keep \in BOOLEAN, Cancelled(keep) PROVE NoneSkipped'
  BY <1>2, CancelledOff, SkiplessOff
<1>3. ASSUME NEW mode, CaptureStart(mode) PROVE NoneSkipped'
  <2>1. CASE mode = "discover" /\ panel.selected \in Hiplex
    BY <1>3, <2>1, CaptureScanHiplex, SkiplessOff DEF CaptureStart
  <2>2. CASE mode = "discover" /\ panel.selected \notin Hiplex
    BY <1>1, <1>3, <2>2 DEF CaptureStart, CaptureScan
  <2>3. CASE mode # "discover"
    BY <1>3, <2>3, SkiplessStays DEF CaptureStart
  <2> QED BY <2>1, <2>2, <2>3
<1>4. CASE CaptureStop
  BY <1>2, <1>4, SkiplessStays DEF CaptureStop
<1>5. CASE Reload
  BY <1>5, SkiplessStays DEF Reload
<1>6. ASSUME NEW kind, SelectPanel(kind) PROVE NoneSkipped'
  BY <1>6, SkiplessStays DEF SelectPanel
<1> QED BY <1>1, <1>2, <1>3, <1>4, <1>5, <1>6 DEF Intent, StartScan, CancelScan

\* An inventory waits to be seeded only when its scan is over.
Finished == result.some => ~scan.on

LEMMA FinishedStays ==
  ASSUME Finished, result'.some => result.some \/ ~scan'.on, scan'.on => scan.on \/ ~result'.some
  PROVE  Finished'
  BY DEF Finished

LEMMA NextFinished == Typed /\ Alone /\ Finished /\ [Next]_vars => Finished'
<1> SUFFICES ASSUME Typed, Fields, ProbesAlone, Finished, [Next]_vars PROVE Finished'
  BY DEF Alone
<1>0. NoResult.some = FALSE
  BY DEF NoResult
<1>1. CASE Frame
  <2>1. ASSUME NEW ext, NEW zero, NEW S, Block(ext, zero, S)
        PROVE  result' = result /\ (scan'.on => scan.on)
    BY <2>1 DEF Block, AfterBlock, Typed, Scans
  <2>2. ASSUME NEW a, Text(a) \/ Alarm(a) \/ NotOccupied(a)
        PROVE  result' = result /\ (scan'.on => scan.on)
    BY <2>2 DEF Text, Alarm, NotOccupied, Named, Typed, Scans
  <2>3. result' = result /\ (scan'.on => scan.on)
    BY <1>1, <2>1, <2>2 DEF Frame
  <2> QED BY <2>3, FinishedStays
<1>2. CASE ProbeAsks
  BY <1>2, FinishedStays DEF ProbeAsks
<1>3. CASE ScanPolled
  <2> DEFINE s == Advanced
  <2>1. s \in Scans /\ s.on = scan.on
    BY AdvancedTyped DEF Advanced, Typed, Scans
  <2> HIDE DEF s
  <2>2. CASE Finishes(s)
    <3>1. ~scan'.on
      BY <2>1, <2>2 DEF Finishes, Scans
    <3> QED BY <3>1 DEF Finished
  <2>3. CASE AsksBlocks(s) \/ GivesUp(s) \/ AsksName(s) \/ Waits(s)
    <3>1. result' = result /\ (scan'.on => scan.on)
      BY <2>1, <2>3 DEF AsksBlocks, GivesUp, AsksName, Waits, Scans
    <3> QED BY <3>1, FinishedStays
  <2> QED BY <1>3, <2>2, <2>3 DEF ScanPolled, s
<1>4. CASE Tick \/ Busy
  <2>1. Aged.on = scan.on /\ ([Aged EXCEPT !.on = FALSE]).on = FALSE
    BY DEF Aged, Typed, Scans
  <2>2. result' = result /\ (scan'.on => scan.on)
    BY <1>4, <2>1 DEF Tick, Busy
  <2> QED BY <2>2, FinishedStays
<1>5. CASE Intent
  <2>1. ASSUME NEW kind, Started(kind) PROVE Finished'
    BY <1>0, <2>1 DEF Started, Finished
  <2>2. ASSUME NEW keep \in BOOLEAN, Cancelled(keep) PROVE Finished'
    BY <2>2, CancelledOff DEF Finished
  <2>3. ASSUME NEW mode, CaptureStart(mode) PROVE Finished'
    <3>1. CASE mode = "discover" /\ panel.selected \in Hiplex
      BY <2>3, <3>1, CaptureScanHiplex DEF CaptureStart, Finished
    <3>2. CASE mode = "discover" /\ panel.selected \notin Hiplex
      BY <2>1, <2>3, <3>2 DEF CaptureStart, CaptureScan
    <3>3. CASE mode # "discover"
      BY <2>3, <3>3, FinishedStays DEF CaptureStart
    <3> QED BY <3>1, <3>2, <3>3
  <2>4. CASE CaptureStop
    BY <2>2, <2>4, FinishedStays DEF CaptureStop
  <2>5. CASE Reload
    BY <2>5, FinishedStays DEF Reload
  <2>6. ASSUME NEW kind, SelectPanel(kind) PROVE Finished'
    BY <2>6, FinishedStays DEF SelectPanel
  <2> QED BY <1>5, <2>1, <2>2, <2>3, <2>4, <2>5, <2>6 DEF Intent, StartScan, CancelScan
<1>6. CASE Take
  BY <1>0, <1>6 DEF Take, Finished
<1>7. CASE UNCHANGED vars
  BY <1>7, FinishedStays DEF vars
<1> QED BY <1>1, <1>2, <1>3, <1>4, <1>5, <1>6, <1>7 DEF Next, Poll

\* The queue is emptied with the inventory, and only of a scan that is over.
LEMMA TakeSkipless == Typed /\ Finished /\ NoneSkipped /\ Take => NoneSkipped'
<1> SUFFICES ASSUME Typed, Finished, Take PROVE NoneSkipped'
  OBVIOUS
<1>1. ~scan'.on
  BY DEF Take, Finished, Typed, Scans
<1> QED BY <1>1, SkiplessOff

\* While a GMS plus scan asks for names, every address it took from a report has
\* been asked about or waits in the queue (runtime.rs, ingest_discover and
\* advance_scan; discovery.rs, ingest_belegt).
THEOREM NothingSkipped == Spec => []NoneSkipped
<1>1. Typed /\ Alone /\ Finished /\ NoneSkipped /\ [Next]_vars => NoneSkipped'
  <2>1. NoneSkipped /\ UNCHANGED vars => NoneSkipped'
    BY SkiplessStays DEF vars
  <2> QED BY <2>1, FrameSkipless, PollSkipless, ClockSkipless, IntentSkipless, TakeSkipless DEF Next
<1>2. Init => Finished /\ NoneSkipped
  BY DEF Init, Finished, NoResult, NoneSkipped
<1> QED BY InitTyped, NextTyped, NextFinished, SpecAlone, <1>1, <1>2, PTL DEF Spec
=============================================================================
