------------------------------ MODULE CommandTx ------------------------------
(***************************************************************************)
(* The command transaction of telenot-core (crates/telenot-core/src/lib.rs)*)
(* as seen by the panel line: one queued command, one command in flight,   *)
(* bounded repetition on collision and on a missing acknowledgement, the   *)
(* pre-arm readiness gate, and the serial watchdog that discards both when *)
(* the line falls silent.                                                  *)
(*                                                                         *)
(* The code keeps absolute timestamps and only ever compares differences   *)
(* with a limit, so the model keeps AGES.  A unit of time passes in Tick   *)
(* (a loop pass whose read timed out, which runs on_tick) or in Busy (a    *)
(* pass that read bytes completing no frame, which does not).  Ages whose  *)
(* growth no timer stops saturate one unit above the limit they are        *)
(* compared with.                                                          *)
(***************************************************************************)
EXTENDS Integers, FiniteSets

CONSTANTS
  TxId,                   \* identities given to accepted commands (history only)
  NoTx,                   \* the empty slot
  Areas,                  \* Sicherungsbereiche of the panel profile, a subset of 1..16
  Commands,               \* the TxCmd values offered to the core
  EagerSend,              \* panel.eager_send
  HiplexPlus,             \* panel is a hiplex GMS plus
  COMMAND_MAX_ATTEMPTS,
  COMMAND_ACK_TIMEOUT,
  PENDING_MAX_AGE,
  SERIAL_DEADLINE,
  EAGER_IDLE_GUARD,
  LATE_FEHLER_WINDOW,
  RECOVERY_FRAMES,
  MaxBusy                 \* longest run of time units without an on_tick

VARIABLES
  online,                 \* availability = Online
  recoveryCount,
  heard,                  \* last_frame_at is Some
  silence,                \* time since last_frame_at, or since boot when it is None
  areaAge,                \* age of last_area_status, NoTx when None
  ready,                  \* per area: the *_bereit slots equal to Some(true)
  disarmEnabled,
  pending,
  inFlight,
  lastOk,
  sinceTick,              \* time units since the last on_tick
  sent,                   \* the command telegram the last step transmitted, or NoTx
  results                 \* the command_result publications of the last step

link    == <<online, recoveryCount, heard, silence>>
status  == <<areaAge, ready>>
slots   == <<pending, inFlight, lastOk>>
outputs == <<sent, results>>
vars    == <<link, status, disarmEnabled, slots, sinceTick, outputs>>

-----------------------------------------------------------------------------
(* Data *)

ArmKinds == {"ArmAway", "ArmHome", "ArmNight"}
Kinds    == ArmKinds \cup {"Disarm", "Reset", "SetTime", "BypassOn",
                           "BypassOff", "Output", "Schaltaktion"}
TxCmd    == [kind : Kinds, area : Areas]
Gates    == {"intern", "extern"}

\* A queued command.  id, born and sends are history: who it is, how long ago
\* it was accepted and how often it has gone out on the line.
Pending  == [id : TxId, cmd : TxCmd, attempts : Nat, age : Nat, born : Nat, sends : Nat]
\* A transmitted command; age is the time since its last transmission.
InFlight == Pending
Verdict  == {"OK", "NAK", "FEHLER", "LATE_FEHLER", "TIMEOUT", "REJECTED"}

ASSUME CommandAssumption ==
  /\ Areas \subseteq 1..16
  /\ Commands \subseteq TxCmd
  /\ NoTx \notin Pending
  /\ NoTx \notin [id : TxId, age : Nat]
  /\ NoTx \notin Nat
  /\ EagerSend \in BOOLEAN
  /\ HiplexPlus \in BOOLEAN

ASSUME TimingAssumption ==
  /\ COMMAND_MAX_ATTEMPTS \in Nat \ {0}
  /\ RECOVERY_FRAMES \in Nat \ {0}
  /\ COMMAND_ACK_TIMEOUT \in Nat
  /\ PENDING_MAX_AGE \in Nat \ {0}
  /\ SERIAL_DEADLINE \in Nat
  /\ LATE_FEHLER_WINDOW \in Nat
  /\ EAGER_IDLE_GUARD \in 0..SERIAL_DEADLINE
  /\ MaxBusy \in Nat

Capped(age, limit) == IF age > limit THEN age ELSE age + 1

Live == {t.id : t \in {pending, inFlight} \ {NoTx}}

Ageless(t) == t                                             \* mutant
Older(t) == IF t = NoTx THEN NoTx ELSE [t EXCEPT !.age = @ + 1, !.born = @ + 1]

Says(t, v) == IF t = NoTx THEN {} ELSE {[id |-> t.id, verdict |-> v]}

\* The pre-arm gate: which readiness bit a command needs, and whether it has it.
NeedsGate(cmd) == cmd.kind \in ArmKinds
Gate(cmd)      == IF cmd.kind = "ArmAway" THEN "extern" ELSE "intern"
Armable(cmd, rdy) == NeedsGate(cmd) => rdy[cmd.area][Gate(cmd)]

NotReady == [a \in Areas |-> [g \in Gates |-> FALSE]]

-----------------------------------------------------------------------------
(* Building blocks of the handlers *)

\* A mutant of NoteAlive: the recovery counter survives the recovery.
CountsOn ==
  /\ heard' = TRUE
  /\ silence' = 0
  /\ online' = (online \/ recoveryCount + 1 >= RECOVERY_FRAMES)
  /\ recoveryCount' = IF online THEN recoveryCount ELSE recoveryCount + 1

\* note_alive
NoteAlive ==
  /\ heard' = TRUE
  /\ silence' = 0
  /\ LET back == ~online /\ recoveryCount + 1 >= RECOVERY_FRAMES
     IN  /\ online' = (online \/ back)
         /\ recoveryCount' = IF online \/ back THEN 0 ELSE recoveryCount + 1

\* The 0x11 scan of on_frame: with a command in flight the error is its
\* verdict; without one it may be the late rejection of the last OK.
LateFehler(fehler) ==
  /\ fehler
  /\ inFlight = NoTx
  /\ lastOk # NoTx
  /\ lastOk.age <= LATE_FEHLER_WINDOW

FehlerVerdicts(fehler) ==
  IF LateFehler(fehler) THEN Says(lastOk, "LATE_FEHLER")
  ELSE IF fehler THEN Says(inFlight, "FEHLER") ELSE {}

ForgetLateOk(fehler) == lastOk' = IF LateFehler(fehler) THEN NoTx ELSE lastOk

\* requeue_on_collision: the slot pending holds afterwards, and what is said.
\* The collided command OVERWRITES whatever was queued meanwhile.
Exhausted(t) == t.attempts >= COMMAND_MAX_ATTEMPTS
RequeuedAfresh(t) == [t EXCEPT !.age = 0, !.attempts = 0]   \* mutant
Requeued(t)  == [t EXCEPT !.age = 0]

DropCollided(fehler) == pending                             \* mutant

AfterCollision(fehler) ==
  IF inFlight = NoTx \/ fehler THEN pending
  ELSE IF Exhausted(inFlight) THEN pending
  ELSE Requeued(inFlight)

\* A mutant of CollisionVerdicts: reports the command it repeats.
ReportCollided(fehler) ==
  IF inFlight # NoTx /\ ~fehler THEN Says(inFlight, "TIMEOUT") ELSE {}

CollisionVerdicts(fehler) ==
  IF inFlight # NoTx /\ ~fehler /\ Exhausted(inFlight)
  THEN Says(inFlight, "TIMEOUT") ELSE {}

Fresh(id, cmd) ==
  [id |-> id, cmd |-> cmd, attempts |-> 0, age |-> 0, born |-> 0, sends |-> 0]

Transmit(t) == [id |-> t.id, cmd |-> t.cmd, attempts |-> t.attempts + 1,
                age |-> 0, born |-> t.born, sends |-> t.sends + 1]

\* A mutant of Flush: no readiness gate.
FlushUngated(p, rdy, said) ==
  /\ pending' = NoTx
  /\ inFlight' = IF p = NoTx THEN NoTx ELSE Transmit(p)
  /\ sent' = inFlight'
  /\ results' = said

\* flush_pending on a free line, with p queued and rdy the readiness it sees.
Flush(p, rdy, said) ==
  /\ pending' = NoTx
  /\ \/ /\ p = NoTx
        /\ inFlight' = NoTx
        /\ sent' = NoTx
        /\ results' = said
     \/ /\ p # NoTx
        /\ ~Armable(p.cmd, rdy)
        /\ inFlight' = NoTx
        /\ sent' = NoTx
        /\ results' = said \cup Says(p, "REJECTED")
     \/ /\ p # NoTx
        /\ Armable(p.cmd, rdy)
        /\ inFlight' = Transmit(p)
        /\ sent' = Transmit(p)
        /\ results' = said

Hold(p, said) ==
  /\ pending' = p
  /\ inFlight' = NoTx
  /\ sent' = NoTx
  /\ results' = said

-----------------------------------------------------------------------------
(* Commands *)

\* on_command_area, on_bypass, on_output, on_schaltaktion: the deny paths
\* publish and change nothing.
Accepts(cmd) ==
  /\ cmd.kind \in {"Disarm", "BypassOn", "Schaltaktion"} => disarmEnabled
  /\ cmd.kind = "ArmNight" => cmd.area = 1

\* Eager sending: the line has been idle long enough and carries no command.
SendsOverFlight == EagerSend /\ heard /\ silence >= EAGER_IDLE_GUARD   \* mutant
SendsAtOnce ==
  /\ EagerSend
  /\ heard
  /\ silence >= EAGER_IDLE_GUARD
  /\ inFlight = NoTx

\* queue: the new command replaces a queued one, and goes out at once when the
\* line is free.  Which commands the panel profile can express (cmds_verified,
\* the hiplex command gate) decides what Commands holds.
Queue(id, cmd) ==
  LET p == Fresh(id, cmd)
  IN  /\ id \notin Live
      /\ lastOk # NoTx => id # lastOk.id
      /\ IF SendsAtOnce
         THEN Flush(p, ready, {})
         ELSE /\ pending' = p
              /\ inFlight' = inFlight
              /\ sent' = NoTx
              /\ results' = {}
      /\ UNCHANGED <<link, status, disarmEnabled, lastOk, sinceTick>>

OnCommand(id, cmd) ==
  /\ cmd.kind # "SetTime"
  /\ Accepts(cmd)
  /\ Queue(id, cmd)

\* on_set_time yields to any command transaction.
OnSetTime(id, cmd) ==
  /\ cmd.kind = "SetTime"
  /\ pending = NoTx
  /\ inFlight = NoTx
  /\ Queue(id, cmd)

\* set_disarm_enabled: the gate is read when a command is offered, never again.
SetDisarmEnabled ==
  /\ disarmEnabled' = ~disarmEnabled
  /\ sent' = NoTx
  /\ results' = {}
  /\ UNCHANGED <<link, status, slots, sinceTick>>

-----------------------------------------------------------------------------
(* Frames: on_frame, one action per FT1.2 function; the 0x11 scan comes first *)

OnSendNorm(fehler) ==
  /\ NoteAlive
  /\ ForgetLateOk(fehler)
  /\ Flush(AfterCollision(fehler), ready,
           FehlerVerdicts(fehler) \cup CollisionVerdicts(fehler))
  /\ UNCHANGED <<status, disarmEnabled, sinceTick>>

\* outputsSeen: the telegram carries the output block (second status telegram);
\* rdy is the readiness after its area status, if it carries one.
OnSendNdat(fehler, outputsSeen, areaSeen, rdy) ==
  LET said == FehlerVerdicts(fehler) \cup CollisionVerdicts(fehler)
  IN  /\ areaSeen => outputsSeen
      /\ ~areaSeen => rdy = ready
      /\ HiplexPlus => \A a \in Areas \ {1} : rdy[a] = ready[a]
      /\ NoteAlive
      /\ ForgetLateOk(fehler)
      /\ ready' = rdy
      /\ areaAge' = IF HiplexPlus /\ areaSeen THEN 0 ELSE areaAge
      /\ IF outputsSeen
         THEN Flush(AfterCollision(fehler), rdy, said)
         ELSE Hold(AfterCollision(fehler), said)
      /\ UNCHANGED <<disarmEnabled, sinceTick>>

\* resolve_in_flight
OnConfirm(ack, fehler) ==
  LET verdict == IF ack THEN "OK" ELSE "NAK"
      said == IF fehler THEN FehlerVerdicts(fehler) ELSE Says(inFlight, verdict)
  IN  /\ NoteAlive
      /\ inFlight' = NoTx
      /\ pending' = pending
      /\ IF ack /\ ~fehler /\ inFlight # NoTx
         THEN lastOk' = [id |-> inFlight.id, age |-> 0]
         ELSE ForgetLateOk(fehler)
      /\ sent' = NoTx
      /\ results' = said
      /\ UNCHANGED <<status, disarmEnabled, sinceTick>>

\* A frame of any other function proves the line alive, and its error record is
\* a verdict as in every frame; but a command in flight stays in flight.
OnOtherFrame(fehler) ==
  /\ NoteAlive
  /\ ForgetLateOk(fehler)
  /\ sent' = NoTx
  /\ results' = FehlerVerdicts(fehler)
  /\ UNCHANGED <<status, disarmEnabled, pending, inFlight, sinceTick>>

-----------------------------------------------------------------------------
(* Time *)

AgeLastOk ==
  IF lastOk = NoTx THEN NoTx
  ELSE [lastOk EXCEPT !.age = Capped(@, LATE_FEHLER_WINDOW)]

AgeArea == IF areaAge = NoTx THEN NoTx ELSE Capped(areaAge, SERIAL_DEADLINE)

\* go_unavailable
GoUnavailable ==
  /\ online' = FALSE
  /\ recoveryCount' = 0
  /\ pending' = NoTx
  /\ inFlight' = NoTx
  /\ lastOk' = NoTx
  /\ ready' = NotReady
  /\ areaAge' = NoTx
  /\ sent' = NoTx
  /\ results' = Says(pending, "TIMEOUT") \cup Says(inFlight, "TIMEOUT")

\* The timers of a queued and of a transmitted command, after one more unit.
NeverExpires(p) == FALSE                                    \* mutant
PendingTimer(p) == p # NoTx /\ p.age > PENDING_MAX_AGE
AckTimer(t)     == t # NoTx /\ t.age > COMMAND_ACK_TIMEOUT

CommandTimers ==
  LET p == Older(pending)
      t == Older(inFlight)
      expired == IF PendingTimer(p) THEN Says(p, "TIMEOUT") ELSE {}
  IN  /\ pending' = IF PendingTimer(p) THEN NoTx ELSE p
      /\ \/ /\ ~AckTimer(t)
            /\ inFlight' = t
            /\ sent' = NoTx
            /\ results' = expired
         \/ /\ AckTimer(t)
            /\ Exhausted(t)
            /\ inFlight' = NoTx
            /\ sent' = NoTx
            /\ results' = expired \cup Says(t, "TIMEOUT")
         \/ /\ AckTimer(t)
            /\ ~Exhausted(t)
            /\ inFlight' = Transmit(t)
            /\ sent' = Transmit(t)
            /\ results' = expired

\* The serial watchdog, quiet being the silence it measures.
StaleOnceHeard(quiet) == online /\ heard /\ quiet > SERIAL_DEADLINE   \* mutant
Stale(quiet) == online /\ quiet > SERIAL_DEADLINE

\* on_tick, one unit later.
Tick ==
  LET quiet    == Capped(silence, SERIAL_DEADLINE)
      areaLost == AgeArea # NoTx /\ AgeArea > SERIAL_DEADLINE
  IN  /\ silence' = quiet
      /\ sinceTick' = 0
      /\ UNCHANGED <<heard, disarmEnabled>>
      /\ \/ /\ Stale(quiet)
            /\ GoUnavailable
         \/ /\ ~Stale(quiet)
            /\ CommandTimers
            /\ lastOk' = AgeLastOk
            /\ ready' = IF areaLost THEN NotReady ELSE ready
            /\ areaAge' = IF areaLost THEN NoTx ELSE AgeArea
            /\ UNCHANGED <<online, recoveryCount>>

\* A loop pass that reads bytes which complete no frame: time passes and
\* on_tick is not called.
Busy ==
  /\ sinceTick < MaxBusy
  /\ sinceTick' = sinceTick + 1
  /\ silence' = Capped(silence, SERIAL_DEADLINE)
  /\ pending' = Older(pending)
  /\ inFlight' = Older(inFlight)
  /\ lastOk' = AgeLastOk
  /\ areaAge' = AgeArea
  /\ sent' = NoTx
  /\ results' = {}
  /\ UNCHANGED <<online, recoveryCount, heard, ready, disarmEnabled>>

-----------------------------------------------------------------------------
\* Core::new
Init ==
  /\ online = TRUE
  /\ recoveryCount = 0
  /\ heard = FALSE
  /\ silence = 0
  /\ areaAge = NoTx
  /\ ready = NotReady
  /\ disarmEnabled \in BOOLEAN
  /\ pending = NoTx
  /\ inFlight = NoTx
  /\ lastOk = NoTx
  /\ sinceTick = 0
  /\ sent = NoTx
  /\ results = {}

Command == \E id \in TxId, cmd \in Commands : OnCommand(id, cmd) \/ OnSetTime(id, cmd)

Frame ==
  \/ \E fehler \in BOOLEAN : OnSendNorm(fehler)
  \/ \E fehler, outputsSeen, areaSeen \in BOOLEAN, rdy \in [Areas -> [Gates -> BOOLEAN]] :
        OnSendNdat(fehler, outputsSeen, areaSeen, rdy)
  \/ \E ack, fehler \in BOOLEAN : OnConfirm(ack, fehler)
  \/ \E fehler \in BOOLEAN : OnOtherFrame(fehler)

Next == Command \/ SetDisarmEnabled \/ Frame \/ Tick \/ Busy

Spec == Init /\ [][Next]_vars

\* The firmware loop never stops, and a read that times out runs on_tick.
FairSpec == Spec /\ WF_vars(Tick)
-----------------------------------------------------------------------------
(* Properties *)

\* Every variable keeps the type the fields of Core and its slots give it.
TypeOK ==
  /\ online \in BOOLEAN
  /\ recoveryCount \in 0..(RECOVERY_FRAMES - 1)
  /\ heard \in BOOLEAN
  /\ silence \in 0..(SERIAL_DEADLINE + 1)
  /\ areaAge \in Nat \cup {NoTx}
  /\ ready \in [Areas -> [Gates -> BOOLEAN]]
  /\ disarmEnabled \in BOOLEAN
  /\ pending \in Pending \cup {NoTx}
  /\ inFlight \in InFlight \cup {NoTx}
  /\ lastOk \in [id : TxId, age : Nat] \cup {NoTx}
  /\ sinceTick \in 0..MaxBusy
  /\ sent \in InFlight \cup {NoTx}
  /\ results \subseteq [id : TxId, verdict : Verdict]

\* However collisions, acknowledgement timeouts and requeueing alternate, one
\* accepted command goes out on the line at most COMMAND_MAX_ATTEMPTS times.
BoundedRepetition == sent # NoTx => sent.sends <= COMMAND_MAX_ATTEMPTS

\* The pre-arm gate is read once, before the first transmission, but on_tick
\* repeats the telegram without reading it again.  Repeating is still right as
\* long as no status that withdraws the readiness can arrive in between.
InFlightStillArmable == inFlight # NoTx => Armable(inFlight.cmd, ready)

\* The longest a command may have waited when it goes out for the last time:
\* every attempt costs at most one stay in the queue, and all but the last one
\* stay on the line until a collision, each prolonged by a busy line.
QueueStay      == PENDING_MAX_AGE + MaxBusy
AckStay        == COMMAND_ACK_TIMEOUT + MaxBusy
MaxCommandAge  == COMMAND_MAX_ATTEMPTS * QueueStay + (COMMAND_MAX_ATTEMPTS - 1) * AckStay

\* No transmission of a command, first or repeated, comes later than that after
\* the user gave it (the comment of go_unavailable calls a command fired minutes
\* later a security risk).
NeverSentLate == sent # NoTx => sent.born <= MaxCommandAge

\* A command that is reported OK, NAK, TIMEOUT, REJECTED or late-rejected is out
\* of the transaction: neither queued nor in flight, so nothing can repeat it.  A
\* FEHLER takes it out too, unless it came in a frame that is neither a SEND nor
\* a confirmation: then the command is still in flight, and never in the queue.
VerdictIsFinal ==
  \A r \in results : r.id \in Live =>
    /\ r.verdict = "FEHLER"
    /\ sent = NoTx
    /\ inFlight # NoTx /\ r.id = inFlight.id
    /\ pending # NoTx => r.id # pending.id

\* A silent line is noticed: right after an on_tick the bridge is not online
\* with a line silent beyond the deadline, even when no frame ever arrived.
SilenceIsNoticed == online /\ sinceTick = 0 => silence <= SERIAL_DEADLINE

Answered == {r.id : r \in results}
Lost     == Live \ (Live' \cup Answered')

\* fail_command: never swallow silently.  A command in flight leaves the
\* line with a verdict or goes back to the queue, in every step.
TransmittedNeverForgotten == [][inFlight # NoTx => inFlight.id \notin Lost]_vars

\* Every accepted command is eventually answered or replaced.
EventuallyAnswered == \A id \in TxId : id \in Live ~> id \notin Live
=============================================================================
