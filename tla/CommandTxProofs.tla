--------------------------- MODULE CommandTxProofs ---------------------------
(***************************************************************************)
(* What CommandTx promises for every set of commands, every timing and any *)
(* interleaving of commands, telegrams and timers, and what is left of it  *)
(* in SerialLoop, where captures, scans and reloads use the same line.     *)
(***************************************************************************)
EXTENDS SerialLoop, TLAPS

USE CommandAssumption, TimingAssumption

Verdicts == [id : TxId, verdict : Verdict]
Slot     == Pending \cup {NoTx}

-----------------------------------------------------------------------------
(* The helpers keep slots slots and verdicts verdicts. *)

LEMMA OlderFields ==
  ASSUME NEW t \in Pending
  PROVE  Older(t) = [id |-> t.id, cmd |-> t.cmd, attempts |-> t.attempts,
                     age |-> t.age + 1, born |-> t.born + 1, sends |-> t.sends]
<1>1. t # NoTx
  OBVIOUS
<1>2. t = [id |-> t.id, cmd |-> t.cmd, attempts |-> t.attempts,
           age |-> t.age, born |-> t.born, sends |-> t.sends]
  BY DEF Pending
<1>. QED
  BY <1>1, <1>2, Zenon DEF Older

LEMMA OlderSlot == ASSUME NEW t \in Slot PROVE Older(t) \in Slot
<1>1. CASE t = NoTx
  BY <1>1 DEF Older, Slot
<1>2. CASE t \in Pending
  <2>1. /\ t.id \in TxId /\ t.cmd \in TxCmd /\ t.attempts \in Nat /\ t.age + 1 \in Nat
        /\ t.born + 1 \in Nat /\ t.sends \in Nat
    BY <1>2 DEF Pending
  <2>. QED
    BY <1>2, <2>1, OlderFields DEF Slot, Pending
<1>. QED
  BY <1>1, <1>2 DEF Slot

LEMMA OlderKeeps ==
  ASSUME NEW t \in Slot
  PROVE  /\ Older(t) = NoTx <=> t = NoTx
         /\ t # NoTx => /\ Older(t).id = t.id
                        /\ Older(t).cmd = t.cmd
                        /\ Older(t).attempts = t.attempts
                        /\ Older(t).sends = t.sends
                        /\ Older(t).age = t.age + 1
                        /\ Older(t).born = t.born + 1
<1>1. CASE t = NoTx
  BY <1>1 DEF Older
<1>2. CASE t \in Pending
  <2>1. Older(t) \in Pending
    <3>1. /\ t.id \in TxId /\ t.cmd \in TxCmd /\ t.attempts \in Nat /\ t.age + 1 \in Nat
          /\ t.born + 1 \in Nat /\ t.sends \in Nat
      BY <1>2 DEF Pending
    <3>. QED
      BY <1>2, <3>1, OlderFields DEF Pending
  <2>. QED
    BY <1>2, <2>1, OlderFields
<1>. QED
  BY <1>1, <1>2 DEF Slot

LEMMA TransmitSlot ==
  ASSUME NEW t \in Pending
  PROVE  /\ Transmit(t) \in Pending
         /\ Transmit(t).id = t.id
         /\ Transmit(t).cmd = t.cmd
         /\ Transmit(t).born = t.born
         /\ Transmit(t).attempts = t.attempts + 1
         /\ Transmit(t).sends = t.sends + 1
         /\ Transmit(t).age = 0
  BY DEF Transmit, Pending

LEMMA SaysVerdict ==
  ASSUME NEW t \in Slot, NEW v \in Verdict PROVE Says(t, v) \subseteq Verdicts
  BY DEF Says, Slot, Pending, Verdicts

LEMMA FehlerVerdictsType ==
  ASSUME TypeOK, NEW fehler PROVE FehlerVerdicts(fehler) \subseteq Verdicts
  BY DEF TypeOK, FehlerVerdicts, Says, LateFehler, Verdicts, Verdict, InFlight, Pending

LEMMA AfterCollisionSlot ==
  ASSUME TypeOK, NEW fehler
  PROVE  /\ AfterCollision(fehler) \in Slot
         /\ CollisionVerdicts(fehler) \subseteq Verdicts
  BY DEF TypeOK, AfterCollision, Requeued, CollisionVerdicts, Says, Slot, InFlight, Pending, Verdicts, Verdict

LEMMA FlushSlots ==
  ASSUME NEW p \in Slot, NEW rdy, NEW said \in SUBSET Verdicts, Flush(p, rdy, said)
  PROVE  /\ pending' = NoTx
         /\ inFlight' \in Slot
         /\ sent' \in Slot
         /\ results' \subseteq Verdicts
<1>1. ASSUME p # NoTx PROVE p \in Pending /\ Transmit(p) \in Pending
  BY <1>1, TransmitSlot DEF Slot
<1>2. Says(p, "REJECTED") \subseteq Verdicts
  BY SaysVerdict DEF Verdict
<1>. QED
  BY <1>1, <1>2 DEF Flush, Slot

LEMMA NoteAliveType ==
  ASSUME TypeOK, NoteAlive
  PROVE  /\ online' \in BOOLEAN
         /\ recoveryCount' \in 0..(RECOVERY_FRAMES - 1)
         /\ heard' \in BOOLEAN
         /\ silence' \in 0..(SERIAL_DEADLINE + 1)
  BY DEF TypeOK, NoteAlive

LEMMA LastOkType ==
  ASSUME TypeOK
  PROVE  /\ AgeLastOk \in [id : TxId, age : Nat] \cup {NoTx}
         /\ AgeArea \in Nat \cup {NoTx}
         /\ Capped(silence, SERIAL_DEADLINE) \in 0..(SERIAL_DEADLINE + 1)
  BY DEF TypeOK, AgeLastOk, AgeArea, Capped

-----------------------------------------------------------------------------
(* Type correctness *)

LEMMA QueueType ==
  ASSUME TypeOK, NEW id \in TxId, NEW cmd \in Commands, Queue(id, cmd)
  PROVE  TypeOK'
<1>. DEFINE p == Fresh(id, cmd)
<1>1. p \in Pending
  BY DEF Pending, Fresh
<1>. HIDE DEF p
<1>2. CASE Flush(p, ready, {})
  <2>1. pending' = NoTx /\ inFlight' \in Slot /\ sent' \in Slot /\ results' \subseteq Verdicts
    BY <1>1, <1>2, FlushSlots DEF Slot
  <2>. QED
    BY <2>1 DEF TypeOK, Queue, SendsAtOnce, link, status, Slot, InFlight, Verdicts
<1>3. CASE pending' = p /\ inFlight' = inFlight /\ sent' = NoTx /\ results' = {}
  BY <1>1, <1>3 DEF TypeOK, Queue, SendsAtOnce, link, status, InFlight
<1>. QED
  BY <1>2, <1>3 DEF Queue, SendsAtOnce, p

LEMMA FrameType == ASSUME TypeOK, Frame PROVE TypeOK'
<1>1. ASSUME NEW fehler \in BOOLEAN, OnSendNorm(fehler) PROVE TypeOK'
  <2>1. FehlerVerdicts(fehler) \cup CollisionVerdicts(fehler) \subseteq Verdicts
    BY FehlerVerdictsType, AfterCollisionSlot
  <2>2. pending' = NoTx /\ inFlight' \in Slot /\ sent' \in Slot /\ results' \subseteq Verdicts
    BY <1>1, <2>1, AfterCollisionSlot, FlushSlots DEF OnSendNorm
  <2>. QED
    BY <1>1, <2>2, NoteAliveType
       DEF TypeOK, OnSendNorm, ForgetLateOk, status, Slot, InFlight, Verdicts
<1>2. ASSUME NEW fehler \in BOOLEAN, NEW outputsSeen \in BOOLEAN, NEW areaSeen \in BOOLEAN,
             NEW rdy \in [Areas -> [Gates -> BOOLEAN]],
             OnSendNdat(fehler, outputsSeen, areaSeen, rdy)
      PROVE  TypeOK'
  <2>. DEFINE said == FehlerVerdicts(fehler) \cup CollisionVerdicts(fehler)
  <2>1. said \subseteq Verdicts
    BY FehlerVerdictsType, AfterCollisionSlot
  <2>2. pending' \in Slot /\ inFlight' \in Slot /\ sent' \in Slot /\ results' \subseteq Verdicts
    <3>1. CASE outputsSeen
      BY <1>2, <2>1, <3>1, AfterCollisionSlot, FlushSlots DEF OnSendNdat, Slot
    <3>2. CASE ~outputsSeen
      BY <1>2, <2>1, <3>2, AfterCollisionSlot DEF OnSendNdat, Hold, Slot
    <3>. QED BY <3>1, <3>2
  <2>3. /\ online' \in BOOLEAN
        /\ recoveryCount' \in 0..(RECOVERY_FRAMES - 1)
        /\ heard' \in BOOLEAN
        /\ silence' \in 0..(SERIAL_DEADLINE + 1)
    BY <1>2, NoteAliveType DEF OnSendNdat
  <2>. QED
    BY <1>2, <2>2, <2>3
       DEF TypeOK, OnSendNdat, ForgetLateOk, Slot, InFlight, Verdicts
<1>3. ASSUME NEW ack \in BOOLEAN, NEW fehler \in BOOLEAN, OnConfirm(ack, fehler) PROVE TypeOK'
  <2>1. results' \subseteq Verdicts
    BY <1>3, FehlerVerdictsType, SaysVerdict
       DEF OnConfirm, TypeOK, Slot, InFlight, Verdict
  <2>2. lastOk' \in [id : TxId, age : Nat] \cup {NoTx}
    BY <1>3 DEF OnConfirm, ForgetLateOk, TypeOK, InFlight, Pending
  <2>. QED
    BY <1>3, <2>1, <2>2, NoteAliveType DEF TypeOK, OnConfirm, status, Verdicts
<1>4. ASSUME NEW fehler \in BOOLEAN, OnOtherFrame(fehler) PROVE TypeOK'
  BY <1>4, NoteAliveType, FehlerVerdictsType
     DEF TypeOK, OnOtherFrame, ForgetLateOk, status, Verdicts
<1>. QED
  BY <1>1, <1>2, <1>3, <1>4 DEF Frame

LEMMA TickType == ASSUME TypeOK, Tick PROVE TypeOK'
<1>1. /\ AgeLastOk \in [id : TxId, age : Nat] \cup {NoTx}
      /\ AgeArea \in Nat \cup {NoTx}
      /\ Capped(silence, SERIAL_DEADLINE) \in 0..(SERIAL_DEADLINE + 1)
  BY LastOkType
<1>2. NotReady \in [Areas -> [Gates -> BOOLEAN]]
  BY DEF NotReady
<1>3. CASE GoUnavailable
  <2>1. results' \subseteq Verdicts
    BY <1>3, SaysVerdict DEF GoUnavailable, TypeOK, Slot, InFlight, Verdict
  <2>2. 0 \in 0..(RECOVERY_FRAMES - 1) /\ 0 \in 0..MaxBusy
    OBVIOUS
  <2>3. /\ pending' = NoTx /\ inFlight' = NoTx /\ lastOk' = NoTx /\ areaAge' = NoTx
        /\ online' = FALSE /\ recoveryCount' = 0 /\ sent' = NoTx /\ ready' = NotReady
    BY <1>3 DEF GoUnavailable
  <2>4. /\ silence' = Capped(silence, SERIAL_DEADLINE) /\ sinceTick' = 0
        /\ heard' = heard /\ disarmEnabled' = disarmEnabled
    BY DEF Tick, Stale
  <2>. QED
    BY <1>1, <1>2, <2>1, <2>2, <2>3, <2>4 DEF TypeOK, Verdicts
<1>4. CASE /\ CommandTimers
           /\ lastOk' = AgeLastOk
           /\ ready' \in {NotReady, ready}
           /\ areaAge' \in {NoTx, AgeArea}
           /\ UNCHANGED <<online, recoveryCount>>
  <2>. DEFINE p == Older(pending)
              t == Older(inFlight)
  <2>1. p \in Slot /\ t \in Slot
    BY OlderSlot DEF TypeOK, Slot, InFlight
  <2>2. Says(p, "TIMEOUT") \subseteq Verdicts /\ Says(t, "TIMEOUT") \subseteq Verdicts
    BY <2>1, SaysVerdict DEF Verdict
  <2>3. AckTimer(t) => Transmit(t) \in Pending
    BY <2>1, TransmitSlot DEF AckTimer, Slot
  <2>4. pending' \in Slot /\ inFlight' \in Slot /\ sent' \in Slot /\ results' \subseteq Verdicts
    BY <1>4, <2>1, <2>2, <2>3 DEF CommandTimers, Slot
  <2>. QED
    BY <1>1, <1>2, <1>4, <2>4 DEF Tick, Stale, TypeOK, Slot, InFlight, Verdicts
<1>. QED
  BY <1>3, <1>4 DEF Tick, Stale

LEMMA BusyType == ASSUME TypeOK, Busy PROVE TypeOK'
<1>1. Older(pending) \in Slot /\ Older(inFlight) \in Slot
  BY OlderSlot DEF TypeOK, Slot, InFlight
<1>. QED
  BY <1>1, LastOkType DEF TypeOK, Busy, Slot, InFlight

LEMMA TypeStep == ASSUME TypeOK, [Next]_vars PROVE TypeOK'
<1>1. CASE Command
  BY <1>1, QueueType DEF Command, OnCommand, OnSetTime
<1>2. CASE SetDisarmEnabled
  BY <1>2 DEF SetDisarmEnabled, TypeOK, link, status, slots
<1>3. CASE Frame
  BY <1>3, FrameType
<1>4. CASE Tick
  BY <1>4, TickType
<1>5. CASE Busy
  BY <1>5, BusyType
<1>6. CASE UNCHANGED vars
  BY <1>6 DEF TypeOK, vars, link, status, slots, outputs
<1>. QED
  BY <1>1, <1>2, <1>3, <1>4, <1>5, <1>6 DEF Next

LEMMA TypeInit == Init => TypeOK
<1>1. NotReady \in [Areas -> [Gates -> BOOLEAN]]
  BY DEF NotReady
<1>2. /\ 0 \in 0..(RECOVERY_FRAMES - 1)
      /\ 0 \in 0..MaxBusy
      /\ 0 \in 0..(SERIAL_DEADLINE + 1)
  OBVIOUS
<1>. QED
  BY <1>1, <1>2 DEF Init, TypeOK

\* The state keeps its types, whatever is commanded, received or timed out.
THEOREM TypeCorrect == Spec => []TypeOK
<1>1. TypeOK /\ [Next]_vars => TypeOK'
  BY TypeStep
<1>. QED
  BY <1>1, TypeInit, PTL DEF Spec

-----------------------------------------------------------------------------
(* What a step may put into the queue and on the line.  Handlers other than   *)
(* the clock move whole slots; the clock ages them and runs the timers.       *)

\* The command a handler may queue or transmit: the queued one, a new one, or
\* the one in flight with attempts left.
Sendable(q) ==
  /\ q \in Pending
  /\ \/ q = pending
     \/ \E id \in TxId, cmd \in Commands : q = Fresh(id, cmd)
     \/ inFlight # NoTx /\ ~Exhausted(inFlight) /\ q = Requeued(inFlight)

SlotStep ==
  /\ pending' = NoTx \/ Sendable(pending')
  /\ \/ inFlight' \in {NoTx, inFlight}
     \/ \E q \in Pending : Sendable(q) /\ inFlight' = Transmit(q)
  /\ sent' \in {NoTx, sent} \/ (\E q \in Pending : Sendable(q) /\ sent' = Transmit(q))
  /\ sinceTick' = sinceTick

LEMMA FlushStep ==
  ASSUME NEW p \in Slot, NEW rdy, NEW said, p # NoTx => Sendable(p), Flush(p, rdy, said),
         sinceTick' = sinceTick
  PROVE  SlotStep
<1>1. p # NoTx => p \in Pending
  BY DEF Slot
<1>. QED
  BY <1>1 DEF Flush, SlotStep

LEMMA CollisionStep ==
  ASSUME TypeOK, NEW fehler
  PROVE  LET p == AfterCollision(fehler) IN p \in Slot /\ (p # NoTx => Sendable(p))
<1>1. AfterCollision(fehler) \in Slot
  BY AfterCollisionSlot
<1>. QED
  BY <1>1 DEF AfterCollision, Sendable, Slot

LEMMA QueueStep ==
  ASSUME TypeOK, NEW id \in TxId, NEW cmd \in Commands, Queue(id, cmd) PROVE SlotStep
<1>. DEFINE p == Fresh(id, cmd)
<1>1. p \in Pending
  BY DEF Pending, Fresh
<1>2. Sendable(p)
  BY <1>1 DEF Sendable
<1>3. /\ Flush(p, ready, {}) \/ (pending' = p /\ inFlight' = inFlight /\ sent' = NoTx)
      /\ sinceTick' = sinceTick
  BY DEF Queue, SendsAtOnce
<1>. HIDE DEF p
<1>. QED
  BY <1>1, <1>2, <1>3, FlushStep DEF SlotStep, Slot

LEMMA EveryStep == ASSUME TypeOK, [Next]_vars PROVE SlotStep \/ Tick \/ Busy
<1>1. pending = NoTx \/ Sendable(pending)
  BY DEF TypeOK, Sendable
<1>2. CASE Command
  BY <1>2, QueueStep DEF Command, OnCommand, OnSetTime
<1>3. CASE SetDisarmEnabled \/ (\E fehler \in BOOLEAN : OnOtherFrame(fehler)) \/ UNCHANGED vars
  BY <1>1, <1>3 DEF SetDisarmEnabled, OnOtherFrame, vars, slots, outputs, SlotStep
<1>4. ASSUME NEW fehler \in BOOLEAN, OnSendNorm(fehler) PROVE SlotStep
  BY <1>4, CollisionStep, FlushStep DEF OnSendNorm
<1>5. ASSUME NEW fehler \in BOOLEAN, NEW outputsSeen, NEW areaSeen, NEW rdy,
             OnSendNdat(fehler, outputsSeen, areaSeen, rdy)
      PROVE  SlotStep
  <2>1. CASE outputsSeen
    BY <1>5, <2>1, CollisionStep, FlushStep DEF OnSendNdat
  <2>2. CASE ~outputsSeen
    BY <1>5, <2>2, CollisionStep DEF OnSendNdat, Hold, SlotStep
  <2>. QED BY <2>1, <2>2
<1>6. ASSUME NEW ack, NEW fehler, OnConfirm(ack, fehler) PROVE SlotStep
  BY <1>1, <1>6 DEF OnConfirm, SlotStep
<1>. QED
  BY <1>2, <1>3, <1>4, <1>5, <1>6 DEF Next, Frame

\* What on_tick leaves in the slots when the line is alive.
LEMMA TimersStep ==
  ASSUME TypeOK, CommandTimers
  PROVE  LET p == Older(pending)
             t == Older(inFlight)
         IN  /\ p \in Slot /\ t \in Slot
             /\ pending' = NoTx \/ (pending' = p /\ p.age <= PENDING_MAX_AGE)
             /\ \/ inFlight' = NoTx /\ sent' = NoTx
                \/ inFlight' = t /\ t.age <= COMMAND_ACK_TIMEOUT /\ sent' = NoTx
                \/ t \in Pending /\ ~Exhausted(t) /\ inFlight' = Transmit(t) /\ sent' = Transmit(t)
<1>. DEFINE p == Older(pending)
            t == Older(inFlight)
<1>1. p \in Slot /\ t \in Slot
  BY OlderSlot DEF TypeOK, Slot, InFlight
<1>2. /\ pending' = IF PendingTimer(p) THEN NoTx ELSE p
      /\ \/ ~AckTimer(t) /\ inFlight' = t /\ sent' = NoTx
         \/ inFlight' = NoTx /\ sent' = NoTx
         \/ AckTimer(t) /\ ~Exhausted(t) /\ inFlight' = Transmit(t) /\ sent' = Transmit(t)
  BY DEF CommandTimers
<1>. HIDE DEF p, t
<1>3. \A s \in Slot : s # NoTx => s \in Pending /\ s.age \in Nat
  BY DEF Slot, Pending
<1>4. pending' = NoTx \/ (pending' = p /\ p.age <= PENDING_MAX_AGE)
  BY <1>1, <1>2, <1>3 DEF PendingTimer
<1>5. \/ inFlight' = NoTx /\ sent' = NoTx
      \/ inFlight' = t /\ t.age <= COMMAND_ACK_TIMEOUT /\ sent' = NoTx
      \/ t \in Pending /\ ~Exhausted(t) /\ inFlight' = Transmit(t) /\ sent' = Transmit(t)
  BY <1>1, <1>2, <1>3 DEF AckTimer
<1>. QED
  BY <1>1, <1>4, <1>5 DEF p, t

-----------------------------------------------------------------------------
(* Bounded repetition *)

\* Why repetition is bounded: the attempt counter that every handler checks is
\* the number of transmissions, and only a command below the limit is queued.
CountedQueue(p) == p # NoTx => p.sends = p.attempts /\ p.attempts < COMMAND_MAX_ATTEMPTS
CountedLine(t)  == t # NoTx => t.sends = t.attempts /\ t.attempts <= COMMAND_MAX_ATTEMPTS

Counted ==
  /\ CountedQueue(pending)
  /\ CountedLine(inFlight)
  /\ CountedLine(sent)

LEMMA SendableCounted ==
  ASSUME TypeOK, Counted, NEW q, Sendable(q)
  PROVE  q \in Pending /\ CountedQueue(q)
<1>1. CASE q = pending
  BY <1>1 DEF Sendable, Counted
<1>2. ASSUME NEW id \in TxId, NEW cmd \in Commands, q = Fresh(id, cmd)
      PROVE  CountedQueue(q)
  BY <1>2 DEF Fresh, CountedQueue
<1>3. CASE inFlight # NoTx /\ ~Exhausted(inFlight) /\ q = Requeued(inFlight)
  BY <1>3 DEF Requeued, Counted, CountedQueue, CountedLine, Exhausted, TypeOK, InFlight, Pending
<1>. QED
  BY <1>1, <1>2, <1>3 DEF Sendable

LEMMA TransmitCounted ==
  ASSUME NEW q \in Pending, CountedQueue(q) PROVE CountedLine(Transmit(q))
<1>1. q # NoTx /\ q.attempts \in Nat
  BY DEF Pending
<1>. QED
  BY <1>1, TransmitSlot DEF CountedQueue, CountedLine

LEMMA OlderCounted ==
  ASSUME TypeOK, Counted
  PROVE  /\ CountedQueue(Older(pending))
         /\ CountedLine(Older(inFlight))
  BY OlderKeeps DEF TypeOK, Slot, InFlight, Counted, CountedQueue, CountedLine

LEMMA CountedStep == ASSUME TypeOK, Counted, [Next]_vars PROVE Counted'
<1>1. CASE SlotStep
  <2>1. CountedQueue(pending')
    BY <1>1, SendableCounted DEF SlotStep, CountedQueue
  <2>2. \A q \in Pending : Sendable(q) => CountedLine(Transmit(q))
    BY SendableCounted, TransmitCounted
  <2>3. CountedLine(inFlight')
    BY <1>1, <2>2 DEF SlotStep, Counted, CountedLine
  <2>4. CountedLine(sent')
    BY <1>1, <2>2 DEF SlotStep, Counted, CountedLine
  <2>. QED
    BY <2>1, <2>3, <2>4 DEF Counted, CountedQueue, CountedLine
<1>2. CASE Tick
  <2>1. CASE GoUnavailable
    BY <2>1 DEF GoUnavailable, Counted, CountedQueue, CountedLine
  <2>2. CASE CommandTimers
    <3>. DEFINE p == Older(pending)
                t == Older(inFlight)
    <3>1. /\ p \in Slot /\ t \in Slot
          /\ pending' \in {NoTx, p}
          /\ \/ inFlight' \in {NoTx, t} /\ sent' = NoTx
             \/ t \in Pending /\ ~Exhausted(t) /\ inFlight' = Transmit(t) /\ sent' = Transmit(t)
      BY <2>2, TimersStep
    <3>2. CountedQueue(p) /\ CountedLine(t)
      BY OlderCounted
    <3>. HIDE DEF p, t
    <3>3. t \in Pending /\ ~Exhausted(t) => CountedQueue(t)
      BY <3>2 DEF CountedLine, CountedQueue, Exhausted, Pending
    <3>4. t \in Pending /\ ~Exhausted(t) => CountedLine(Transmit(t))
      BY <3>3, TransmitCounted
    <3>5. CountedQueue(pending')
      BY <3>1, <3>2 DEF CountedQueue
    <3>6. CountedLine(inFlight') /\ CountedLine(sent')
      BY <3>1, <3>2, <3>4 DEF CountedLine
    <3>. QED
      BY <3>5, <3>6 DEF Counted, CountedQueue, CountedLine
  <2>. QED
    BY <1>2, <2>1, <2>2 DEF Tick, Stale
<1>3. CASE Busy
  <2>1. /\ CountedQueue(Older(pending))
        /\ CountedLine(Older(inFlight))
    BY OlderCounted
  <2>. QED
    BY <1>3, <2>1 DEF Busy, Counted, CountedQueue, CountedLine
<1>. QED
  BY <1>1, <1>2, <1>3, EveryStep

\* One accepted command is transmitted at most COMMAND_MAX_ATTEMPTS times, for
\* every limit, every set of timers and any number of commands.
THEOREM RepetitionIsBounded == Spec => []BoundedRepetition
<1>1. Init => Counted
  BY DEF Init, Counted, CountedQueue, CountedLine
<1>2. TypeOK /\ Counted /\ [Next]_vars => Counted'
  BY CountedStep
<1>3. TypeOK /\ Counted => BoundedRepetition
  BY DEF Counted, CountedLine, BoundedRepetition
<1>. QED
  BY <1>1, <1>2, <1>3, TypeCorrect, PTL DEF Spec

-----------------------------------------------------------------------------
(* The readiness gate.  It is read with the readiness the step leaves behind, *)
(* and a panel without an area-status deadline never withdraws readiness      *)
(* without first taking the command off the line.                             *)

Gated ==
  /\ ~HiplexPlus => areaAge = NoTx
  /\ InFlightStillArmable

LEMMA FlushGated ==
  ASSUME NEW p \in Slot, NEW said, ready' \in [Areas -> [Gates -> BOOLEAN]],
         Flush(p, ready', said)
  PROVE  InFlightStillArmable'
<1>1. CASE inFlight' = NoTx
  BY <1>1 DEF InFlightStillArmable
<1>2. CASE p # NoTx /\ Armable(p.cmd, ready') /\ inFlight' = Transmit(p)
  <2>1. inFlight'.cmd = p.cmd
    BY <1>2, TransmitSlot DEF Slot
  <2>. QED
    BY <1>2, <2>1 DEF InFlightStillArmable
<1>. QED
  BY <1>1, <1>2 DEF Flush

LEMMA TickGated == ASSUME ~HiplexPlus, TypeOK, Gated, Tick PROVE Gated'
<1>1. CASE GoUnavailable
  BY <1>1 DEF GoUnavailable, Gated, InFlightStillArmable
<1>2. CASE CommandTimers /\ ready' = ready /\ areaAge' = NoTx
  <2>1. inFlight' # NoTx => inFlight # NoTx /\ inFlight'.cmd = inFlight.cmd
    <3>1. Older(inFlight) \in Slot
      BY OlderSlot DEF TypeOK, Slot, InFlight
    <3>2. Older(inFlight) # NoTx => inFlight # NoTx /\ Older(inFlight).cmd = inFlight.cmd
      BY OlderKeeps DEF TypeOK, Slot, InFlight
    <3>3. AckTimer(Older(inFlight)) => /\ Older(inFlight) # NoTx
                                       /\ Transmit(Older(inFlight)).cmd = inFlight.cmd
      BY <3>1, <3>2, TransmitSlot DEF AckTimer, Slot
    <3>4. \/ inFlight' \in {NoTx, Older(inFlight)}
          \/ AckTimer(Older(inFlight)) /\ inFlight' = Transmit(Older(inFlight))
      BY <1>2, Zenon DEF CommandTimers
    <3>. QED
      BY <3>2, <3>3, <3>4
  <2>. QED
    BY <1>2, <2>1 DEF Gated, InFlightStillArmable
<1>3. AgeArea = NoTx
  BY DEF AgeArea, Gated
<1>. QED
  BY <1>1, <1>2, <1>3 DEF Tick, Stale

\* On every panel but the hiplex plus, a command that is repeated is repeated
\* under the readiness that justified its first transmission.
THEOREM RepeatedUnderReadiness ==
  ASSUME ~HiplexPlus PROVE Spec => []InFlightStillArmable
<1>1. Init => Gated
  BY DEF Init, Gated, InFlightStillArmable
<1>2. TypeOK /\ TypeOK' /\ Gated /\ [Next]_vars => Gated'
  <2>. SUFFICES ASSUME TypeOK, TypeOK', Gated, [Next]_vars PROVE Gated'
    OBVIOUS
  <2>0. ready' \in [Areas -> [Gates -> BOOLEAN]]
    BY DEF TypeOK
  <2>1. ASSUME NEW id \in TxId, NEW cmd \in Commands, Queue(id, cmd) PROVE Gated'
    <3>. DEFINE p == Fresh(id, cmd)
    <3>1. p \in Slot
      BY DEF Pending, Fresh, Slot
    <3>2. ready' = ready /\ areaAge' = areaAge
      BY <2>1 DEF Queue, SendsAtOnce, status
    <3>3. Flush(p, ready, {}) \/ inFlight' = inFlight
      BY <2>1 DEF Queue, SendsAtOnce
    <3>. HIDE DEF p
    <3>4. CASE Flush(p, ready, {})
      BY <2>0, <3>1, <3>2, <3>4, FlushGated DEF Gated
    <3>5. CASE inFlight' = inFlight
      BY <3>2, <3>5 DEF Gated, InFlightStillArmable
    <3>. QED BY <3>3, <3>4, <3>5
  <2>2. ASSUME NEW fehler \in BOOLEAN, OnSendNorm(fehler) PROVE Gated'
    <3>1. ready' = ready /\ areaAge' = areaAge
      BY <2>2 DEF OnSendNorm, status
    <3>. QED
      BY <2>0, <2>2, <3>1, AfterCollisionSlot, FlushGated DEF OnSendNorm, Gated
  <2>3. ASSUME NEW fehler \in BOOLEAN, NEW outputsSeen, NEW areaSeen, NEW rdy,
               OnSendNdat(fehler, outputsSeen, areaSeen, rdy)
        PROVE  Gated'
    <3>1. ready' = rdy /\ areaAge' = NoTx
      BY <2>3 DEF OnSendNdat, Gated
    <3>2. CASE outputsSeen
      BY <2>0, <2>3, <3>1, <3>2, AfterCollisionSlot, FlushGated DEF OnSendNdat, Gated
    <3>3. CASE ~outputsSeen
      BY <2>3, <3>1, <3>3 DEF OnSendNdat, Hold, Gated, InFlightStillArmable
    <3>. QED BY <3>2, <3>3
  <2>4. ASSUME NEW ack, NEW fehler, OnConfirm(ack, fehler) PROVE Gated'
    BY <2>4 DEF OnConfirm, status, Gated, InFlightStillArmable
  <2>5. CASE (\E fehler \in BOOLEAN : OnOtherFrame(fehler)) \/ SetDisarmEnabled \/ UNCHANGED vars
    BY <2>5 DEF OnOtherFrame, SetDisarmEnabled, vars, status, slots, Gated, InFlightStillArmable
  <2>6. CASE Tick
    BY <2>6, TickGated
  <2>7. CASE Busy
    <3>1. inFlight' # NoTx => inFlight # NoTx /\ inFlight'.cmd = inFlight.cmd
      BY <2>7, OlderKeeps DEF Busy, TypeOK, Slot, InFlight
    <3>. QED
      BY <2>7, <3>1 DEF Busy, AgeArea, Gated, InFlightStillArmable
  <2>. QED
    BY <2>1, <2>2, <2>3, <2>4, <2>5, <2>6, <2>7
       DEF Next, Command, OnCommand, OnSetTime, Frame
<1>3. Gated => InFlightStillArmable
  BY DEF Gated
<1>. QED
  BY <1>1, <1>2, <1>3, TypeCorrect, PTL DEF Spec

-----------------------------------------------------------------------------
(* How late a command can be transmitted.  Each attempt adds at most one stay *)
(* in the queue and, when it is repeated, one stay on the line.               *)

Stays(k) == k * (QueueStay + AckStay)

\* Why lateness is bounded: the timers keep the age of each slot under its
\* limit plus the time without an on_tick, and the age since acceptance is
\* covered by the stays of the attempts already made.
OnTimeQueue(p, since) == p # NoTx =>
  /\ p.age <= PENDING_MAX_AGE + since
  /\ p.born <= Stays(p.attempts) + p.age

OnTimeLine(t, since) == t # NoTx =>
  /\ t.age <= COMMAND_ACK_TIMEOUT + since
  /\ t.born + AckStay <= Stays(t.attempts) + t.age

OnTime ==
  /\ OnTimeQueue(pending, sinceTick)
  /\ OnTimeLine(inFlight, sinceTick)
  /\ NeverSentLate

LEMMA StaysFacts ==
  ASSUME NEW k \in Nat
  PROVE  /\ Stays(k) \in Nat
         /\ Stays(0) = 0
         /\ Stays(k + 1) = Stays(k) + QueueStay + AckStay
         /\ QueueStay \in Nat /\ AckStay \in Nat /\ QueueStay >= 1
<1>1. QueueStay \in Nat /\ AckStay \in Nat /\ QueueStay >= 1
  BY DEF QueueStay, AckStay
<1>2. \A c \in Nat : k * c \in Nat /\ 0 * c = 0 /\ (k + 1) * c = k * c + c
  OBVIOUS
<1>. QED
  BY <1>1, <1>2 DEF Stays

LEMMA StaysMonotonic ==
  ASSUME NEW k \in Nat, NEW m \in Nat, k <= m PROVE Stays(k) <= Stays(m)
<1>1. PICK d \in Nat : m = k + d
  BY m - k \in Nat, m = k + (m - k)
<1>2. \A c \in Nat : (k + d) * c = k * c + d * c /\ d * c \in Nat /\ k * c \in Nat
  OBVIOUS
<1>. QED
  BY <1>1, <1>2, StaysFacts DEF Stays

LEMMA MaxAgeStays == MaxCommandAge + AckStay = Stays(COMMAND_MAX_ATTEMPTS)
<1>1. \A a, b \in Nat, m \in Nat \ {0} : m * a + (m - 1) * b + b = m * (a + b)
  OBVIOUS
<1>. QED
  BY <1>1, StaysFacts DEF MaxCommandAge, Stays

\* A transmission of q, at most one unit past what the slots promise, is in time.
LEMMA TransmitInTime ==
  ASSUME NEW q \in Pending, q.attempts < COMMAND_MAX_ATTEMPTS,
         q.born <= Stays(q.attempts) + QueueStay
  PROVE  /\ Transmit(q).age = 0
         /\ Transmit(q).born + AckStay <= Stays(Transmit(q).attempts)
         /\ Transmit(q).born <= MaxCommandAge
<1>1. /\ q.attempts \in Nat /\ q.born \in Nat
      /\ Transmit(q).age = 0 /\ Transmit(q).born = q.born
      /\ Transmit(q).attempts = q.attempts + 1
  BY TransmitSlot DEF Pending
<1>2. q.born + AckStay <= Stays(q.attempts + 1)
  BY <1>1, StaysFacts
<1>3. Stays(q.attempts + 1) <= Stays(COMMAND_MAX_ATTEMPTS)
  BY <1>1, StaysMonotonic
<1>4. MaxCommandAge \in Int
  BY StaysFacts DEF MaxCommandAge
<1>. QED
  BY <1>1, <1>2, <1>3, <1>4, MaxAgeStays, StaysFacts

LEMMA SendableOnTime ==
  ASSUME TypeOK, Counted, OnTime, NEW q, Sendable(q)
  PROVE  /\ q \in Pending
         /\ OnTimeQueue(q, sinceTick)
         /\ q.attempts < COMMAND_MAX_ATTEMPTS
         /\ q.born <= Stays(q.attempts) + QueueStay
<1>0. q \in Pending /\ q # NoTx
  BY DEF Sendable, Pending
<1>1. q.attempts < COMMAND_MAX_ATTEMPTS
  BY <1>0, SendableCounted DEF CountedQueue
<1>2. sinceTick \in Nat /\ sinceTick <= MaxBusy
  BY DEF TypeOK
<1>3. q.born <= Stays(q.attempts) + q.age /\ q.age <= PENDING_MAX_AGE + sinceTick
  <2>1. CASE q = pending
    BY <1>0, <2>1 DEF OnTime, OnTimeQueue
  <2>2. ASSUME NEW id \in TxId, NEW cmd \in Commands, q = Fresh(id, cmd)
        PROVE  q.born <= Stays(q.attempts) + q.age /\ q.age <= PENDING_MAX_AGE + sinceTick
    <3>1. q.born = 0 /\ q.age = 0 /\ q.attempts = 0
      BY <2>2 DEF Fresh
    <3>. QED
      BY <1>2, <3>1, StaysFacts
  <2>3. CASE inFlight # NoTx /\ q = Requeued(inFlight)
    <3>1. /\ q.born = inFlight.born /\ q.age = 0 /\ q.attempts = inFlight.attempts
          /\ inFlight.born \in Nat /\ inFlight.age \in Nat /\ inFlight.attempts \in Nat
      BY <2>3 DEF Requeued, TypeOK, InFlight, Pending
    <3>2. /\ inFlight.age <= COMMAND_ACK_TIMEOUT + sinceTick
          /\ inFlight.born + AckStay <= Stays(inFlight.attempts) + inFlight.age
      BY <2>3 DEF OnTime, OnTimeLine
    <3>3. AckStay = COMMAND_ACK_TIMEOUT + MaxBusy
      BY DEF AckStay
    <3>4. Stays(inFlight.attempts) \in Nat
      BY <3>1, StaysFacts
    <3>. HIDE DEF Stays, AckStay
    <3>. QED
      BY <1>2, <3>1, <3>2, <3>3, <3>4
  <2>. QED
    BY <2>1, <2>2, <2>3 DEF Sendable
<1>4. q.born <= Stays(q.attempts) + QueueStay
  <2>1. q.born \in Nat /\ q.age \in Nat /\ q.attempts \in Nat
    BY <1>0 DEF Pending
  <2>. QED
    BY <1>2, <1>3, <2>1, StaysFacts DEF QueueStay
<1>. QED
  BY <1>0, <1>1, <1>3, <1>4 DEF OnTimeQueue

LEMMA TransmitOnTime ==
  ASSUME NEW q \in Pending, q.attempts < COMMAND_MAX_ATTEMPTS,
         q.born <= Stays(q.attempts) + QueueStay, NEW since \in Nat
  PROVE  /\ Transmit(q) # NoTx
         /\ OnTimeLine(Transmit(q), since)
         /\ Transmit(q).born <= MaxCommandAge
<1>1. /\ Transmit(q).age = 0
      /\ Transmit(q).born + AckStay <= Stays(Transmit(q).attempts)
      /\ Transmit(q).born <= MaxCommandAge
      /\ Transmit(q) \in Pending
  BY TransmitInTime, TransmitSlot
<1>2. Transmit(q).attempts \in Nat /\ Transmit(q).born \in Nat
  BY <1>1 DEF Pending
<1>3. Stays(Transmit(q).attempts) \in Nat
  BY <1>2, StaysFacts
<1>. QED
  BY <1>1, <1>2, <1>3 DEF OnTimeLine

\* One unit later a slot is one unit older, and still covered.
LEMMA OlderOnTime ==
  ASSUME TypeOK, OnTime
  PROVE  LET p == Older(pending)
             t == Older(inFlight)
         IN  /\ OnTimeQueue(p, sinceTick + 1)
             /\ OnTimeLine(t, sinceTick + 1)
             /\ p # NoTx => p.born <= Stays(p.attempts) + p.age
<1>. DEFINE p == Older(pending)
            t == Older(inFlight)
<1>0. sinceTick \in Nat
  BY DEF TypeOK
<1>1. OnTimeQueue(p, sinceTick + 1)
  <2>. SUFFICES ASSUME p # NoTx PROVE OnTimeQueue(p, sinceTick + 1)
    BY DEF OnTimeQueue
  <2>1. /\ pending # NoTx /\ p.attempts = pending.attempts
        /\ p.age = pending.age + 1 /\ p.born = pending.born + 1
    BY OlderKeeps DEF TypeOK, Slot
  <2>2. pending.age \in Nat /\ pending.born \in Nat /\ pending.attempts \in Nat
    BY <2>1 DEF TypeOK, Pending
  <2>3. /\ pending.age <= PENDING_MAX_AGE + sinceTick
        /\ pending.born <= Stays(pending.attempts) + pending.age
    BY <2>1 DEF OnTime, OnTimeQueue
  <2>4. Stays(pending.attempts) \in Nat
    BY <2>2, StaysFacts
  <2>. HIDE DEF p
  <2>. QED
    BY <1>0, <2>1, <2>2, <2>3, <2>4 DEF OnTimeQueue
<1>2. OnTimeLine(t, sinceTick + 1)
  <2>. SUFFICES ASSUME t # NoTx PROVE OnTimeLine(t, sinceTick + 1)
    BY DEF OnTimeLine
  <2>1. /\ inFlight # NoTx /\ t.attempts = inFlight.attempts
        /\ t.age = inFlight.age + 1 /\ t.born = inFlight.born + 1
    BY OlderKeeps DEF TypeOK, Slot, InFlight
  <2>2. inFlight.age \in Nat /\ inFlight.born \in Nat /\ inFlight.attempts \in Nat
    BY <2>1 DEF TypeOK, InFlight, Pending
  <2>3. /\ inFlight.age <= COMMAND_ACK_TIMEOUT + sinceTick
        /\ inFlight.born + AckStay <= Stays(inFlight.attempts) + inFlight.age
    BY <2>1 DEF OnTime, OnTimeLine
  <2>4. Stays(inFlight.attempts) \in Nat /\ AckStay \in Nat
    BY <2>2, StaysFacts
  <2>. HIDE DEF t
  <2>. QED
    BY <1>0, <2>1, <2>2, <2>3, <2>4 DEF OnTimeLine
<1>. QED
  BY <1>1, <1>2 DEF OnTimeQueue

LEMMA OnTimeStep == ASSUME TypeOK, Counted, OnTime, SlotStep PROVE OnTime'
<1>0. sinceTick \in Nat /\ sinceTick' = sinceTick
  BY DEF TypeOK, SlotStep
<1>1. OnTimeQueue(pending', sinceTick')
  BY <1>0, SendableOnTime DEF SlotStep, OnTimeQueue
<1>2. \A q \in Pending : Sendable(q) => /\ OnTimeLine(Transmit(q), sinceTick)
                                        /\ Transmit(q).born <= MaxCommandAge
  BY <1>0, SendableOnTime, TransmitOnTime
<1>3. OnTimeLine(inFlight', sinceTick')
  BY <1>0, <1>2 DEF SlotStep, OnTime, OnTimeLine
<1>4. sent' # NoTx => sent'.born <= MaxCommandAge
  BY <1>2 DEF SlotStep, OnTime, NeverSentLate
<1>. QED
  BY <1>1, <1>3, <1>4 DEF OnTime, OnTimeQueue, OnTimeLine, NeverSentLate

LEMMA OnTimeTick == ASSUME TypeOK, Counted, OnTime, Tick PROVE OnTime'
<1>1. CASE GoUnavailable
  BY <1>1 DEF GoUnavailable, OnTime, OnTimeQueue, OnTimeLine, NeverSentLate
<1>2. CASE CommandTimers
  <2>. DEFINE p == Older(pending)
              t == Older(inFlight)
  <2>1. /\ p \in Slot /\ t \in Slot
        /\ pending' = NoTx \/ (pending' = p /\ p.age <= PENDING_MAX_AGE)
        /\ \/ inFlight' = NoTx /\ sent' = NoTx
           \/ inFlight' = t /\ t.age <= COMMAND_ACK_TIMEOUT /\ sent' = NoTx
           \/ t \in Pending /\ ~Exhausted(t) /\ inFlight' = Transmit(t) /\ sent' = Transmit(t)
    BY <1>2, TimersStep
  <2>2. /\ OnTimeQueue(p, sinceTick + 1)
        /\ OnTimeLine(t, sinceTick + 1)
    BY OlderOnTime
  <2>. HIDE DEF p, t
  <2>3. sinceTick' = 0 /\ sinceTick \in Nat /\ sinceTick <= MaxBusy
    BY DEF Tick, Stale, TypeOK
  <2>4. OnTimeQueue(pending', 0)
    BY <2>1, <2>2 DEF OnTimeQueue
  <2>5. ASSUME t \in Pending, ~Exhausted(t)
        PROVE  OnTimeLine(Transmit(t), 0) /\ Transmit(t).born <= MaxCommandAge
    <3>1. t.attempts \in Nat /\ t.age \in Nat /\ t.born \in Nat /\ t # NoTx
      BY <2>5 DEF Pending
    <3>2. t.attempts < COMMAND_MAX_ATTEMPTS
      BY <2>5, <3>1 DEF Exhausted
    <3>3. /\ t.age <= COMMAND_ACK_TIMEOUT + sinceTick + 1
          /\ t.born + AckStay <= Stays(t.attempts) + t.age
      BY <2>2, <2>3, <3>1 DEF OnTimeLine
    <3>4. AckStay = COMMAND_ACK_TIMEOUT + MaxBusy
      BY DEF AckStay
    <3>5. Stays(t.attempts) \in Nat /\ QueueStay \in Nat /\ QueueStay >= 1
      BY <3>1, StaysFacts
    <3>6. t.born <= Stays(t.attempts) + QueueStay
      BY <2>3, <3>1, <3>3, <3>4, <3>5
    <3>. QED
      BY <2>5, <3>2, <3>6, TransmitOnTime
  <2>6. OnTimeLine(inFlight', 0)
    BY <2>1, <2>2, <2>5 DEF OnTimeLine
  <2>7. sent' # NoTx => sent'.born <= MaxCommandAge
    BY <2>1, <2>5
  <2>. QED
    BY <2>3, <2>4, <2>6, <2>7 DEF OnTime, OnTimeQueue, OnTimeLine, NeverSentLate
<1>. QED
  BY <1>1, <1>2 DEF Tick, Stale

LEMMA OnTimeNext == ASSUME TypeOK, Counted, OnTime, [Next]_vars PROVE OnTime'
<1>1. CASE SlotStep
  BY <1>1, OnTimeStep
<1>2. CASE Tick
  BY <1>2, OnTimeTick
<1>3. CASE Busy
  <2>1. OnTimeQueue(pending', sinceTick') /\ OnTimeLine(inFlight', sinceTick') /\ sent' = NoTx
    BY <1>3, OlderOnTime DEF Busy
  <2>. QED
    BY <2>1 DEF OnTime, OnTimeQueue, OnTimeLine, NeverSentLate
<1>. QED
  BY <1>1, <1>2, <1>3, EveryStep

LEMMA OnTimeInit == Init => Counted /\ OnTime
  BY DEF Init, Counted, CountedQueue, CountedLine, OnTime, OnTimeQueue, OnTimeLine, NeverSentLate

\* Every transmission, the first and each repetition, comes at most MaxCommandAge
\* after the command was accepted, in whatever order collisions and timeouts come,
\* as long as bytes that form no frame hold on_tick up for at most MaxBusy.
THEOREM NoLateTransmission == Spec => []NeverSentLate
<1>1. TypeOK /\ Counted /\ OnTime /\ [Next]_vars => Counted' /\ OnTime'
  BY CountedStep, OnTimeNext
<1>2. OnTime => NeverSentLate
  BY DEF OnTime
<1>. QED
  BY <1>1, <1>2, OnTimeInit, TypeCorrect, PTL DEF Spec

-----------------------------------------------------------------------------
(* Answers *)

\* Why a verdict is final: the commands of the two slots and the one whose OK
\* may still be withdrawn are three different commands.
Distinct == pending # NoTx /\ inFlight # NoTx => pending.id # inFlight.id
Settled  == lastOk # NoTx => lastOk.id \notin Live
Final    == VerdictIsFinal /\ Distinct /\ Settled

LEMMA LiveIds ==
  /\ \A x : x \in Live <=> \/ pending # NoTx /\ x = pending.id
                           \/ inFlight # NoTx /\ x = inFlight.id
  /\ \A x : x \in Live' <=> \/ pending' # NoTx /\ x = pending'.id
                            \/ inFlight' # NoTx /\ x = inFlight'.id
  BY DEF Live

\* A collision answers no command that stays.
LEMMA CollisionFinal ==
  ASSUME TypeOK, Final, NEW fehler
  PROVE  LET p == AfterCollision(fehler)
         IN  /\ p # NoTx => p.id \in Live
             /\ \A r \in FehlerVerdicts(fehler) \cup CollisionVerdicts(fehler) : p # NoTx => r.id # p.id
<1>1. \A v : \A r \in Says(inFlight, v) : inFlight # NoTx /\ r.id = inFlight.id
  BY DEF Says
<1>2. \A v : \A r \in Says(lastOk, v) : lastOk # NoTx /\ r.id = lastOk.id
  BY DEF Says
<1>3. inFlight # NoTx => Requeued(inFlight).id = inFlight.id
  BY DEF Requeued, TypeOK, InFlight, Pending
<1>4. CASE inFlight = NoTx
  BY <1>1, <1>2, <1>4, LiveIds DEF AfterCollision, FehlerVerdicts, CollisionVerdicts, Final, Settled
<1>5. CASE inFlight # NoTx
  BY <1>1, <1>3, <1>5, LiveIds
     DEF AfterCollision, FehlerVerdicts, CollisionVerdicts, LateFehler, Final, Distinct
<1>. QED
  BY <1>4, <1>5

LEMMA FlushFinal ==
  ASSUME NEW p \in Slot, NEW rdy, NEW said, Flush(p, rdy, said),
         p # NoTx => \A r \in said : r.id # p.id,
         p # NoTx /\ lastOk' # NoTx => lastOk'.id # p.id
  PROVE  Final'
<1>1. \A r \in Says(p, "REJECTED") : p # NoTx /\ r.id = p.id
  BY DEF Says
<1>2. p # NoTx => Transmit(p).id = p.id
  BY TransmitSlot DEF Slot
<1>3. pending' = NoTx
  BY DEF Flush
<1>4. \/ inFlight' = NoTx
      \/ p # NoTx /\ inFlight' = Transmit(p) /\ results' = said
  BY DEF Flush
<1>. QED
  BY <1>2, <1>3, <1>4, LiveIds DEF Final, VerdictIsFinal, Distinct, Settled

LEMMA FrameFinal == ASSUME TypeOK, Final, Frame PROVE Final'
<1>0. ASSUME NEW fehler, ForgetLateOk(fehler)
      PROVE  \A x \in Live : lastOk' # NoTx => lastOk'.id # x
  BY <1>0 DEF ForgetLateOk, Final, Settled
<1>1. ASSUME NEW fehler \in BOOLEAN, OnSendNorm(fehler) PROVE Final'
  <2>. DEFINE p == AfterCollision(fehler)
              said == FehlerVerdicts(fehler) \cup CollisionVerdicts(fehler)
  <2>1. p \in Slot
    BY AfterCollisionSlot
  <2>2. /\ p # NoTx => p.id \in Live
        /\ \A r \in said : p # NoTx => r.id # p.id
    BY CollisionFinal
  <2>3. Flush(p, ready, said) /\ ForgetLateOk(fehler)
    BY <1>1 DEF OnSendNorm
  <2>. HIDE DEF p, said
  <2>. QED
    BY <1>0, <2>1, <2>2, <2>3, FlushFinal
<1>2. ASSUME NEW fehler \in BOOLEAN, NEW outputsSeen, NEW areaSeen, NEW rdy,
             OnSendNdat(fehler, outputsSeen, areaSeen, rdy)
      PROVE  Final'
  <2>. DEFINE p == AfterCollision(fehler)
              said == FehlerVerdicts(fehler) \cup CollisionVerdicts(fehler)
  <2>1. p \in Slot
    BY AfterCollisionSlot
  <2>2. /\ p # NoTx => p.id \in Live
        /\ \A r \in said : p # NoTx => r.id # p.id
    BY CollisionFinal
  <2>3. ForgetLateOk(fehler) /\ (Flush(p, rdy, said) \/ Hold(p, said))
    BY <1>2 DEF OnSendNdat
  <2>. HIDE DEF p, said
  <2>4. CASE Flush(p, rdy, said)
    BY <1>0, <2>1, <2>2, <2>3, <2>4, FlushFinal
  <2>5. CASE Hold(p, said)
    BY <1>0, <2>2, <2>3, <2>5, LiveIds DEF Hold, Final, VerdictIsFinal, Distinct, Settled
  <2>. QED
    BY <2>3, <2>4, <2>5
<1>3. ASSUME NEW ack \in BOOLEAN, NEW fehler \in BOOLEAN, OnConfirm(ack, fehler) PROVE Final'
  <2>1. pending' = pending /\ inFlight' = NoTx
    BY <1>3 DEF OnConfirm
  <2>2. \A r \in results' : \/ inFlight # NoTx /\ r.id = inFlight.id
                            \/ lastOk # NoTx /\ r.id = lastOk.id
    BY <1>3 DEF OnConfirm, FehlerVerdicts, Says
  <2>3. \/ lastOk' \in {NoTx, lastOk}
        \/ inFlight # NoTx /\ lastOk' = [id |-> inFlight.id, age |-> 0]
    BY <1>3 DEF OnConfirm, ForgetLateOk
  <2>. QED
    BY <2>1, <2>2, <2>3, LiveIds DEF Final, VerdictIsFinal, Distinct, Settled
<1>4. ASSUME NEW fehler \in BOOLEAN, OnOtherFrame(fehler) PROVE Final'
  <2>1. /\ pending' = pending /\ inFlight' = inFlight /\ sent' = NoTx
        /\ ForgetLateOk(fehler) /\ results' = FehlerVerdicts(fehler)
    BY <1>4 DEF OnOtherFrame
  <2>2. \A r \in results' : \/ inFlight # NoTx /\ r.id = inFlight.id /\ r.verdict = "FEHLER"
                            \/ lastOk # NoTx /\ r.id = lastOk.id
    BY <2>1 DEF FehlerVerdicts, Says
  <2>3. VerdictIsFinal'
    BY <2>1, <2>2, LiveIds DEF Final, VerdictIsFinal, Distinct, Settled
  <2>. QED
    BY <1>0, <2>1, <2>3, LiveIds DEF Final, Distinct, Settled
<1>. QED
  BY <1>1, <1>2, <1>3, <1>4 DEF Frame

LEMMA QueueFinal ==
  ASSUME TypeOK, Final, NEW id \in TxId, NEW cmd \in Commands, Queue(id, cmd) PROVE Final'
<1>. DEFINE p == Fresh(id, cmd)
<1>1. p \in Pending /\ p.id = id /\ p \in Slot /\ p # NoTx
  BY DEF Pending, Fresh, Slot
<1>2. id \notin Live /\ lastOk' = lastOk /\ (lastOk # NoTx => lastOk.id # id)
  BY DEF Queue
<1>3. \/ Flush(p, ready, {})
      \/ pending' = p /\ inFlight' = inFlight /\ results' = {}
  BY DEF Queue
<1>. HIDE DEF p
<1>4. CASE Flush(p, ready, {})
  BY <1>1, <1>2, <1>4, FlushFinal
<1>5. CASE pending' = p /\ inFlight' = inFlight /\ results' = {}
  BY <1>1, <1>2, <1>5, LiveIds DEF Final, VerdictIsFinal, Distinct, Settled
<1>. QED
  BY <1>3, <1>4, <1>5

\* The clock and the timers: an expired command leaves its slot with its answer.
LEMMA TimedFinal == ASSUME TypeOK, Final, Tick \/ Busy PROVE Final'
<1>1. /\ Older(pending) = NoTx <=> pending = NoTx
      /\ pending # NoTx => Older(pending).id = pending.id
      /\ Older(inFlight) = NoTx <=> inFlight = NoTx
      /\ inFlight # NoTx => Older(inFlight).id = inFlight.id
  BY OlderKeeps DEF TypeOK, Slot, InFlight
<1>2. AgeLastOk = NoTx <=> lastOk = NoTx
  <2>. SUFFICES ASSUME lastOk # NoTx PROVE AgeLastOk # NoTx
    BY DEF AgeLastOk
  <2>1. lastOk \in [id : TxId, age : Nat]
    BY DEF TypeOK
  <2>2. Capped(lastOk.age, LATE_FEHLER_WINDOW) \in Nat
    BY <2>1 DEF Capped
  <2>. QED
    BY <2>1, <2>2 DEF AgeLastOk
<1>3. lastOk # NoTx => AgeLastOk.id = lastOk.id
  BY DEF AgeLastOk, TypeOK
<1>4. CASE GoUnavailable
  BY <1>4, LiveIds DEF GoUnavailable, Final, VerdictIsFinal, Distinct, Settled
<1>5. CASE CommandTimers /\ lastOk' = AgeLastOk
  <2>. DEFINE p == Older(pending)
              t == Older(inFlight)
  <2>1. t # NoTx => Transmit(t).id = t.id
    <3>1. t \in Slot
      BY OlderSlot DEF TypeOK, Slot, InFlight
    <3>. QED
      BY <3>1, TransmitSlot DEF Slot
  <2>2. /\ \/ pending' = p /\ ~PendingTimer(p)
           \/ pending' = NoTx /\ PendingTimer(p)
        /\ \/ /\ inFlight' = t \/ (t # NoTx /\ inFlight' = Transmit(t))
              /\ \A r \in results' : PendingTimer(p) /\ r.id = p.id
           \/ /\ inFlight' = NoTx
              /\ \A r \in results' : \/ PendingTimer(p) /\ r.id = p.id
                                     \/ t # NoTx /\ r.id = t.id
    BY <1>5 DEF CommandTimers, AckTimer, Says
  <2>3. PendingTimer(p) => p # NoTx
    BY DEF PendingTimer
  <2>. QED
    BY <1>1, <1>2, <1>3, <1>5, <2>1, <2>2, <2>3, LiveIds
       DEF Final, VerdictIsFinal, Distinct, Settled
<1>6. CASE Busy
  BY <1>1, <1>2, <1>3, <1>6, LiveIds DEF Busy, Final, VerdictIsFinal, Distinct, Settled
<1>. QED
  BY <1>4, <1>5, <1>6 DEF Tick

LEMMA FinalStep == ASSUME TypeOK, Final, [Next]_vars PROVE Final'
<1>1. CASE SetDisarmEnabled \/ UNCHANGED vars
  BY <1>1, LiveIds DEF SetDisarmEnabled, vars, slots, outputs, Final, VerdictIsFinal, Distinct, Settled
<1>. QED
  BY <1>1, QueueFinal, FrameFinal, TimedFinal DEF Next, Command, OnCommand, OnSetTime

LEMMA FinalInit == Init => Final
  BY LiveIds DEF Init, Final, VerdictIsFinal, Distinct, Settled

\* A command that was reported OK, NAK, TIMEOUT, REJECTED or late-rejected is in
\* neither slot, for any commands and frames in any order: nothing repeats it.
\* After a FEHLER it is at most in flight still, and only if the frame was
\* neither a SEND nor a confirmation (on_frame, requeue_on_collision,
\* resolve_in_flight).
THEOREM AnswersAreFinal == Spec => []VerdictIsFinal
<1>1. TypeOK /\ Final /\ [Next]_vars => Final'
  BY FinalStep
<1>2. Final => VerdictIsFinal
  BY DEF Final
<1>. QED
  BY <1>1, <1>2, FinalInit, TypeCorrect, PTL DEF Spec

-----------------------------------------------------------------------------
(* No command leaves the line in silence *)

\* The ways the command t may have come through a step.
KeptOrAnswered(t) == t.id \in Live' \/ \E r \in results' : r.id = t.id

LEMMA CollisionKeeps ==
  ASSUME TypeOK, inFlight # NoTx, NEW fehler
  PROVE  LET p == AfterCollision(fehler)
         IN  \/ p # NoTx /\ p.id = inFlight.id
             \/ \E r \in FehlerVerdicts(fehler) \cup CollisionVerdicts(fehler) : r.id = inFlight.id
<1>1. \A v : \E r \in Says(inFlight, v) : r.id = inFlight.id
  BY DEF Says
<1>2. Requeued(inFlight) \in Pending /\ Requeued(inFlight).id = inFlight.id
  BY DEF Requeued, TypeOK, InFlight, Pending
<1>. QED
  BY <1>1, <1>2 DEF AfterCollision, FehlerVerdicts, CollisionVerdicts, LateFehler

LEMMA FlushKeeps ==
  ASSUME NEW p \in Slot, NEW rdy, NEW said, Flush(p, rdy, said), NEW t,
         (p # NoTx /\ p.id = t.id) \/ \E r \in said : r.id = t.id
  PROVE  KeptOrAnswered(t)
<1>1. p # NoTx => Transmit(p).id = p.id /\ Transmit(p) # NoTx
  BY TransmitSlot DEF Slot
<1>2. p # NoTx => \E r \in Says(p, "REJECTED") : r.id = p.id
  BY DEF Says
<1>3. \/ said \subseteq results' /\ (p # NoTx => inFlight' = Transmit(p))
      \/ p # NoTx /\ results' = said \cup Says(p, "REJECTED")
  BY DEF Flush
<1>. QED
  BY <1>1, <1>2, <1>3, LiveIds DEF KeptOrAnswered

LEMMA InFlightKept == ASSUME TypeOK, inFlight # NoTx, Next PROVE KeptOrAnswered(inFlight)
<1>0. \A v : \E r \in Says(inFlight, v) : r.id = inFlight.id
  BY DEF Says
<1>1. CASE Command
  <2>1. PICK id \in TxId, cmd \in Commands : Queue(id, cmd)
    BY <1>1 DEF Command, OnCommand, OnSetTime
  <2>2. inFlight' = inFlight
    BY <2>1 DEF Queue, SendsAtOnce
  <2>. QED
    BY <2>2, LiveIds DEF KeptOrAnswered
<1>2. ASSUME NEW fehler \in BOOLEAN, OnSendNorm(fehler) PROVE KeptOrAnswered(inFlight)
  <2>. DEFINE p == AfterCollision(fehler)
              said == FehlerVerdicts(fehler) \cup CollisionVerdicts(fehler)
  <2>1. /\ p \in Slot /\ Flush(p, ready, said)
        /\ (p # NoTx /\ p.id = inFlight.id) \/ \E r \in said : r.id = inFlight.id
    BY <1>2, AfterCollisionSlot, CollisionKeeps DEF OnSendNorm
  <2>. HIDE DEF p, said
  <2>. QED
    BY <2>1, FlushKeeps
<1>3. ASSUME NEW fehler \in BOOLEAN, NEW outputsSeen, NEW areaSeen, NEW rdy,
             OnSendNdat(fehler, outputsSeen, areaSeen, rdy)
      PROVE  KeptOrAnswered(inFlight)
  <2>. DEFINE p == AfterCollision(fehler)
              said == FehlerVerdicts(fehler) \cup CollisionVerdicts(fehler)
  <2>1. /\ p \in Slot /\ (Flush(p, rdy, said) \/ Hold(p, said))
        /\ (p # NoTx /\ p.id = inFlight.id) \/ \E r \in said : r.id = inFlight.id
    BY <1>3, AfterCollisionSlot, CollisionKeeps DEF OnSendNdat
  <2>. HIDE DEF p, said
  <2>2. CASE Hold(p, said)
    BY <2>1, <2>2, LiveIds DEF Hold, KeptOrAnswered
  <2>. QED
    BY <2>1, <2>2, FlushKeeps
<1>4. ASSUME NEW ack, NEW fehler, OnConfirm(ack, fehler) PROVE KeptOrAnswered(inFlight)
  <2>1. \E v : results' = Says(inFlight, v)
    BY <1>4 DEF OnConfirm, FehlerVerdicts, LateFehler
  <2>. QED
    BY <1>0, <2>1 DEF KeptOrAnswered
<1>5. CASE (\E fehler \in BOOLEAN : OnOtherFrame(fehler)) \/ SetDisarmEnabled
  <2>1. inFlight' = inFlight
    BY <1>5 DEF OnOtherFrame, SetDisarmEnabled, slots
  <2>. QED
    BY <2>1, LiveIds DEF KeptOrAnswered
<1>6. CASE Tick \/ Busy
  <2>. DEFINE t == Older(inFlight)
  <2>1. t \in Pending /\ t # NoTx /\ t.id = inFlight.id
    BY OlderSlot, OlderKeeps DEF TypeOK, Slot, InFlight
  <2>2. Transmit(t) # NoTx /\ Transmit(t).id = t.id
    BY <2>1, TransmitSlot
  <2>3. \E r \in Says(t, "TIMEOUT") : r.id = t.id
    BY <2>1 DEF Says
  <2>4. \/ inFlight' \in {t, Transmit(t)}
        \/ Says(t, "TIMEOUT") \subseteq results'
        \/ Says(inFlight, "TIMEOUT") \subseteq results'
    BY <1>6 DEF Tick, Busy, GoUnavailable, CommandTimers
  <2>. HIDE DEF t
  <2>. QED
    BY <1>0, <2>1, <2>2, <2>3, <2>4, LiveIds DEF KeptOrAnswered
<1>. QED
  BY <1>1, <1>2, <1>3, <1>4, <1>5, <1>6 DEF Next, Frame

\* A command on the line stays in the transaction until it is answered:
\* collisions, confirmations, timers and an outage never drop one silently.
THEOREM NeverDroppedSilently == Spec => TransmittedNeverForgotten
<1>1. TypeOK /\ [Next]_vars => [inFlight # NoTx => inFlight.id \notin Lost]_vars
  BY InFlightKept DEF KeptOrAnswered, Lost, Answered
<1>. QED
  BY <1>1, TypeCorrect, PTL DEF Spec, TransmittedNeverForgotten

\* A silent line is noticed by the first on_tick after the deadline, whether or
\* not the panel was ever heard.
THEOREM SilenceNoticed == Spec => []SilenceIsNoticed
<1>1. Init => SilenceIsNoticed
  BY DEF Init, SilenceIsNoticed
<1>2. TypeOK /\ SilenceIsNoticed /\ [Next]_vars => SilenceIsNoticed'
  <2>. SUFFICES ASSUME TypeOK, SilenceIsNoticed, [Next]_vars PROVE SilenceIsNoticed'
    OBVIOUS
  <2>1. CASE Command \/ SetDisarmEnabled \/ UNCHANGED vars
    <3>1. UNCHANGED <<online, silence, sinceTick>>
      BY <2>1 DEF Command, OnCommand, OnSetTime, Queue, SetDisarmEnabled, vars, link
    <3>. QED
      BY <3>1 DEF SilenceIsNoticed
  <2>2. CASE Frame
    <3>1. silence' = 0
      BY <2>2 DEF Frame, OnSendNorm, OnSendNdat, OnConfirm, OnOtherFrame, NoteAlive
    <3>. QED
      BY <3>1 DEF SilenceIsNoticed
  <2>3. CASE Tick
    <3>1. \/ online' = FALSE
          \/ online' = online /\ (online => silence' <= SERIAL_DEADLINE)
      <4>1. Capped(silence, SERIAL_DEADLINE) \in Int
        BY DEF Capped, TypeOK
      <4>. QED
        BY <2>3, <4>1 DEF Tick, Stale, GoUnavailable
    <3>. QED
      BY <3>1 DEF SilenceIsNoticed
  <2>4. CASE Busy
    BY <2>4 DEF Busy, TypeOK, SilenceIsNoticed
  <2>. QED
    BY <2>1, <2>2, <2>3, <2>4 DEF Next
<1>. QED
  BY <1>1, <1>2, TypeCorrect, PTL DEF Spec

-----------------------------------------------------------------------------
(* The serial loop around the core (SerialLoop): its passes are the handlers, *)
(* passes the core does not see, and the reload that puts a new core in its   *)
(* place.                                                                     *)

USE LineAssumption

CoreInv == TypeOK /\ Counted /\ OnTime /\ Final

LEMMA LoopSteps ==
  ASSUME TypeOK, [LoopNext]_loopVars PROVE [Next]_vars \/ CoreIdle \/ ReloadConfig
<1>1. CASE FeedSend
  <2>1. Readiness \cup {ready} \subseteq [Areas -> [Gates -> BOOLEAN]]
    BY DEF TypeOK
  <2>. QED
    BY <1>1, <2>1 DEF FeedSend, Next, Frame
<1>2. CASE FeedScanPoll
  BY <1>2 DEF FeedScanPoll
<1>3. CASE FeedConfirm \/ FeedOther
  BY <1>3 DEF FeedConfirm, FeedOther, Next, Frame
<1>4. CASE TickPass \/ BusyPass \/ RemoteDisarm
  BY <1>4 DEF TickPass, BusyPass, RemoteDisarm, Next
<1>5. CASE CommandIntent \/ HomekitCommand
  BY <1>5 DEF CommandIntent, HomekitCommand, Switch, Next, Command
<1>6. CASE (\E mode \in CaptureModes : CaptureStart(mode)) \/ CaptureStop \/ StartScan \/ CancelScan
  BY <1>6 DEF CaptureStart, CaptureStop, StartScan, CancelScan
<1>7. CASE UNCHANGED loopVars
  BY <1>7 DEF loopVars
<1>. QED
  BY <1>1, <1>2, <1>3, <1>4, <1>5, <1>6, <1>7 DEF LoopNext, Feed, Intents

LEMMA IdleKeeps == ASSUME CoreInv, CoreIdle PROVE CoreInv'
<1>1. /\ UNCHANGED <<online, recoveryCount, heard, silence, areaAge, ready, disarmEnabled>>
      /\ UNCHANGED <<pending, inFlight, lastOk, sinceTick>>
      /\ sent' = NoTx /\ results' = {}
  BY DEF CoreIdle, link, status, slots
<1>2. TypeOK'
  BY <1>1 DEF CoreInv, TypeOK
<1>3. Counted' /\ OnTime'
  BY <1>1 DEF CoreInv, Counted, CountedLine, CountedQueue, OnTime, OnTimeQueue, OnTimeLine, NeverSentLate
<1>4. Final'
  BY <1>1, LiveIds DEF CoreInv, Final, VerdictIsFinal, Distinct, Settled
<1>. QED
  BY <1>2, <1>3, <1>4 DEF CoreInv

\* A new core starts like the first one, except that a silent line stays silent.
LEMMA ReloadKeeps == ASSUME CoreInv, ReloadConfig PROVE CoreInv'
<1>1. /\ pending' = NoTx /\ inFlight' = NoTx /\ lastOk' = NoTx /\ areaAge' = NoTx
      /\ sent' = NoTx /\ results' = {} /\ sinceTick' = sinceTick
  BY DEF ReloadConfig
<1>2. TypeOK'
  <2>1. silence' \in 0..(SERIAL_DEADLINE + 1)
    BY DEF ReloadConfig, CoreInv, TypeOK
  <2>2. /\ recoveryCount' = 0 /\ online' = TRUE /\ heard' = FALSE /\ disarmEnabled' \in BOOLEAN
        /\ ready' = NotReady /\ sinceTick \in 0..MaxBusy
    BY DEF ReloadConfig, CoreInv, TypeOK
  <2>3. NotReady \in [Areas -> [Gates -> BOOLEAN]] /\ 0 \in 0..(RECOVERY_FRAMES - 1)
    BY DEF NotReady
  <2>. QED
    BY <1>1, <2>1, <2>2, <2>3 DEF TypeOK
<1>3. Counted' /\ OnTime'
  BY <1>1 DEF Counted, CountedLine, CountedQueue, OnTime, OnTimeQueue, OnTimeLine, NeverSentLate
<1>4. Final'
  BY <1>1 DEF Final, VerdictIsFinal, Distinct, Settled
<1>. QED
  BY <1>2, <1>3, <1>4 DEF CoreInv

LEMMA LoopCoreStep == CoreInv /\ [LoopNext]_loopVars => CoreInv'
<1>. SUFFICES ASSUME CoreInv, [LoopNext]_loopVars PROVE CoreInv'
  OBVIOUS
<1>1. CASE [Next]_vars
  BY <1>1, TypeStep, CountedStep, OnTimeNext, FinalStep DEF CoreInv
<1>. QED
  BY <1>1, IdleKeeps, ReloadKeeps, LoopSteps DEF CoreInv

LEMMA LoopCoreInit == LoopInit => CoreInv
  BY TypeInit, OnTimeInit, FinalInit DEF LoopInit, CoreInv

\* What the transaction promises survives its use in the loop: scans and
\* captures that hide frames from the core, telegrams that are not written, and
\* a reload in the middle of a transaction transmit no command too often, none
\* at an age beyond MaxCommandAge, and none whose verdict is final.
THEOREM LoopKeepsPromises ==
  LoopSpec => [](BoundedRepetition /\ NeverSentLate /\ VerdictIsFinal)
<1>1. CoreInv => BoundedRepetition /\ NeverSentLate /\ VerdictIsFinal
  BY DEF CoreInv, Counted, CountedLine, BoundedRepetition, OnTime, Final, TypeOK
<1>. QED
  BY <1>1, LoopCoreInit, LoopCoreStep, PTL DEF LoopSpec

-----------------------------------------------------------------------------
(* A capture admits nothing *)

\* A frame or a unit of time brings no command into the transaction.
LEMMA NothingNew ==
  ASSUME CoreInv, Frame \/ Tick \/ Busy \/ SetDisarmEnabled \/ CoreIdle PROVE Live' \subseteq Live
<1>. USE DEF CoreInv
<1>1. ASSUME NEW p \in Slot, NEW rdy, NEW said, Flush(p, rdy, said), p # NoTx => p.id \in Live
      PROVE  Live' \subseteq Live
  <2>1. p # NoTx => Transmit(p).id = p.id
    BY TransmitSlot DEF Slot
  <2>2. pending' = NoTx /\ (inFlight' = NoTx \/ (p # NoTx /\ inFlight' = Transmit(p)))
    BY <1>1 DEF Flush
  <2>. QED
    BY <1>1, <2>1, <2>2, LiveIds
<1>2. ASSUME NEW fehler \in BOOLEAN, NEW rdy, NEW said,
             Flush(AfterCollision(fehler), rdy, said) \/ Hold(AfterCollision(fehler), said)
      PROVE  Live' \subseteq Live
  <2>. DEFINE p == AfterCollision(fehler)
  <2>1. p \in Slot /\ (p # NoTx => p.id \in Live)
    BY AfterCollisionSlot, CollisionFinal
  <2>2. Flush(p, rdy, said) \/ Hold(p, said)
    BY <1>2
  <2>. HIDE DEF p
  <2>. QED
    BY <1>1, <2>1, <2>2, LiveIds DEF Hold
<1>3. CASE \/ \E fehler \in BOOLEAN : OnSendNorm(fehler)
           \/ \E fehler, outputsSeen, areaSeen \in BOOLEAN, rdy \in [Areas -> [Gates -> BOOLEAN]] :
                 OnSendNdat(fehler, outputsSeen, areaSeen, rdy)
  BY <1>2, <1>3 DEF OnSendNorm, OnSendNdat
<1>4. CASE \/ \E ack, fehler \in BOOLEAN : OnConfirm(ack, fehler)
           \/ \E fehler \in BOOLEAN : OnOtherFrame(fehler)
           \/ SetDisarmEnabled \/ CoreIdle
  <2>1. pending' = pending /\ inFlight' \in {NoTx, inFlight}
    BY <1>4 DEF OnConfirm, OnOtherFrame, SetDisarmEnabled, CoreIdle, slots
  <2>. QED
    BY <2>1, LiveIds
<1>5. CASE Tick \/ Busy
  <2>. DEFINE p == Older(pending)
              t == Older(inFlight)
  <2>1. /\ p = NoTx <=> pending = NoTx
        /\ pending # NoTx => p.id = pending.id
        /\ t = NoTx <=> inFlight = NoTx
        /\ inFlight # NoTx => t.id = inFlight.id
    BY OlderKeeps DEF TypeOK, Slot, InFlight
  <2>2. t # NoTx => Transmit(t).id = t.id
    <3>1. t \in Slot
      BY OlderSlot DEF TypeOK, Slot, InFlight
    <3>. QED
      BY <3>1, TransmitSlot DEF Slot
  <2>3. /\ pending' \in {NoTx, p}
        /\ inFlight' \in {NoTx, t} \/ (t # NoTx /\ inFlight' = Transmit(t))
    BY <1>5 DEF Tick, Busy, GoUnavailable, CommandTimers, AckTimer
  <2>. HIDE DEF p, t
  <2>. QED
    BY <2>1, <2>2, <2>3, LiveIds
<1>. QED
  BY <1>3, <1>4, <1>5 DEF Frame

LEMMA CaptureStep ==
  CoreInv /\ CaptureAdmitsNothing /\ [LoopNext]_loopVars => CaptureAdmitsNothing'
<1>. SUFFICES ASSUME CoreInv, CaptureAdmitsNothing, [LoopNext]_loopVars PROVE CaptureAdmitsNothing'
  OBVIOUS
<1>1. CASE Live' \subseteq Live /\ UNCHANGED capture
  BY <1>1 DEF CaptureAdmitsNothing, capture
<1>2. CASE Feed
  <2>1. Readiness \cup {ready} \subseteq [Areas -> [Gates -> BOOLEAN]]
    BY DEF CoreInv, TypeOK
  <2>2. (Frame \/ CoreIdle) /\ UNCHANGED capture
    BY <1>2, <2>1 DEF Feed, FeedSend, FeedScanPoll, FeedConfirm, FeedOther, Frame
  <2>. QED
    BY <1>1, <2>2, NothingNew
<1>3. CASE TickPass \/ BusyPass \/ RemoteDisarm \/ StartScan \/ CancelScan
  BY <1>1, <1>3, NothingNew DEF TickPass, BusyPass, RemoteDisarm, StartScan, CancelScan
<1>4. CASE CommandIntent \/ HomekitCommand
  <2>1. ~captureActive'
    BY <1>4 DEF CommandIntent, HomekitCommand, Switch, capture
  <2>. QED
    BY <2>1 DEF CaptureAdmitsNothing
<1>5. ASSUME NEW mode \in CaptureModes, CaptureStart(mode) PROVE CaptureAdmitsNothing'
  <2>1. Live' \subseteq Live /\ admitted' = Live
    BY <1>5, NothingNew DEF CaptureStart
  <2>. QED
    BY <2>1 DEF CaptureAdmitsNothing
<1>6. CASE CaptureStop
  BY <1>6 DEF CaptureStop, CaptureAdmitsNothing
<1>7. CASE ReloadConfig
  <2>1. Live' = {} /\ UNCHANGED capture
    BY <1>7, LiveIds DEF ReloadConfig
  <2>. QED
    BY <1>1, <2>1
<1>8. CASE UNCHANGED loopVars
  <2>1. Live' = Live /\ UNCHANGED capture
    BY <1>8 DEF loopVars, vars, slots, Live
  <2>. QED
    BY <1>1, <2>1
<1>. QED
  BY <1>2, <1>3, <1>4, <1>5, <1>6, <1>7, <1>8 DEF LoopNext, Intents

\* While a debug capture is active no new command enters the transaction, for
\* any interleaving of intents, frames, scans and reloads.
THEOREM CaptureIsClosed == LoopSpec => []CaptureAdmitsNothing
<1>1. LoopInit => CaptureAdmitsNothing
  BY DEF LoopInit, CaptureAdmitsNothing
<1>. QED
  BY <1>1, CaptureStep, LoopCoreInit, LoopCoreStep, PTL DEF LoopSpec

-----------------------------------------------------------------------------
(* Whose answer a confirmation is *)

\* Why the order of answers is enough to match them: while only the core's
\* commands use the line, nothing but the command in flight is outstanding.
OwnLine == line = <<>> \/ (inFlight # NoTx /\ line = <<inFlight.id>>)
LineInv == ~foreign => OwnLine

LEMMA SetLineFacts ==
  ASSUME NEW telegrams, SetLine(telegrams)
  PROVE  line' = telegrams /\ (~foreign' => telegrams = <<>> \/ ~foreign)
  BY DEF SetLine

\* What a handler transmits is in flight; a frame replaces what was in flight.
LEMMA SentIsInFlight ==
  ASSUME TypeOK, Frame \/ Tick \/ (\E id \in TxId, cmd \in Commands : Queue(id, cmd))
  PROVE  sent' # NoTx => inFlight' = sent'
<1>1. ASSUME NEW p, NEW rdy, NEW said, Flush(p, rdy, said) \/ Hold(p, said)
      PROVE  sent' # NoTx => inFlight' = sent'
  BY <1>1 DEF Flush, Hold
<1>2. CASE Frame
  <2>1. CASE \/ \E ack, fehler \in BOOLEAN : OnConfirm(ack, fehler)
             \/ \E fehler \in BOOLEAN : OnOtherFrame(fehler)
    BY <2>1 DEF OnConfirm, OnOtherFrame
  <2>2. CASE \/ \E fehler \in BOOLEAN : OnSendNorm(fehler)
             \/ \E fehler, outputsSeen, areaSeen \in BOOLEAN, rdy \in [Areas -> [Gates -> BOOLEAN]] :
                   OnSendNdat(fehler, outputsSeen, areaSeen, rdy)
    BY <1>1, <2>2 DEF OnSendNorm, OnSendNdat
  <2>. QED
    BY <1>2, <2>1, <2>2 DEF Frame
<1>3. CASE Tick
  BY <1>3 DEF Tick, GoUnavailable, CommandTimers
<1>4. ASSUME NEW id \in TxId, NEW cmd \in Commands, Queue(id, cmd)
      PROVE  sent' # NoTx => inFlight' = sent'
  BY <1>1, <1>4 DEF Queue
<1>. QED
  BY <1>2, <1>3, <1>4

LEMMA AgedInFlight ==
  ASSUME TypeOK, Tick \/ Busy, inFlight # NoTx, inFlight' # NoTx
  PROVE  inFlight'.id = inFlight.id
<1>. DEFINE t == Older(inFlight)
<1>1. t \in Pending /\ t # NoTx /\ t.id = inFlight.id
  BY OlderSlot, OlderKeeps DEF TypeOK, Slot, InFlight
<1>2. Transmit(t).id = t.id
  BY <1>1, TransmitSlot
<1>3. inFlight' \in {t, Transmit(t)}
  BY DEF Tick, Busy, GoUnavailable, CommandTimers
<1>. QED
  BY <1>1, <1>2, <1>3

LEMMA LineStep == CoreInv /\ LineInv /\ [LoopNext]_loopVars => LineInv'
<1>. SUFFICES ASSUME TypeOK, LineInv, [LoopNext]_loopVars PROVE LineInv'
  BY DEF CoreInv
<1>0. \A tx : Outstanding(<<>>, tx) = IF tx = NoTx THEN <<>> ELSE <<tx.id>>
  BY DEF Outstanding
<1>1. CASE FeedSend
  <2>1. Frame
    <3>1. Readiness \cup {ready} \subseteq [Areas -> [Gates -> BOOLEAN]]
      BY DEF TypeOK
    <3>. QED
      BY <1>1, <3>1 DEF FeedSend, Frame
  <2>2. wire' \in {sent', NoTx} /\ line' = Outstanding(<<>>, wire')
    BY <1>1 DEF FeedSend, WrittenOf, Filtered, SetLine
  <2>3. wire' # NoTx => inFlight' = wire'
    BY <2>1, <2>2, SentIsInFlight
  <2>. QED
    BY <1>0, <2>2, <2>3 DEF LineInv, OwnLine
<1>2. CASE FeedScanPoll
  <2>1. \/ SetLine(<<Query>>)
        \/ SetLine(<<>>)
    BY <1>2 DEF FeedScanPoll
  <2>2. Query \in ToSet(<<Query>>) /\ <<Query>> # <<>>
    BY DEF ToSet
  <2>. QED
    BY <2>1, <2>2 DEF SetLine, LineInv, OwnLine
<1>3. CASE FeedConfirm
  <2>1. line # <<>> /\ SetLine(Tail(line))
    BY <1>3 DEF FeedConfirm
  <2>2. Tail(<<inFlight.id>>) = <<>>
    OBVIOUS
  <2>. QED
    BY <2>1, <2>2, SetLineFacts DEF LineInv, OwnLine
<1>4. CASE TickPass
  <2>1. Tick /\ wire' \in {sent', NoTx}
    BY <1>4 DEF TickPass, WrittenOf
  <2>2. SetLine(IF wire' # NoTx THEN <<wire'.id>> ELSE IF GaveUp THEN <<>> ELSE line)
    BY <1>4 DEF TickPass
  <2>3. CASE wire' # NoTx
    <3>1. inFlight' = wire'
      BY <2>1, <2>3, SentIsInFlight
    <3>. QED
      BY <2>2, <2>3, <3>1, SetLineFacts DEF LineInv, OwnLine
  <2>4. CASE wire' = NoTx /\ GaveUp
    BY <2>2, <2>4, SetLineFacts DEF LineInv, OwnLine
  <2>5. CASE wire' = NoTx /\ ~GaveUp
    <3>1. line' = line /\ (~foreign' => line = <<>> \/ ~foreign)
      BY <2>2, <2>5, SetLineFacts
    <3>2. inFlight # NoTx => inFlight' # NoTx /\ inFlight'.id = inFlight.id
      BY <2>1, <2>5, AgedInFlight DEF GaveUp
    <3>. QED
      BY <3>1, <3>2 DEF LineInv, OwnLine
  <2>. QED
    BY <2>3, <2>4, <2>5
<1>5. CASE BusyPass
  <2>1. Busy /\ UNCHANGED <<line, foreign>>
    BY <1>5 DEF BusyPass
  <2>2. inFlight # NoTx => inFlight' # NoTx
    BY <2>1, OlderKeeps DEF Busy, TypeOK, Slot, InFlight
  <2>. QED
    BY <2>1, <2>2, AgedInFlight DEF LineInv, OwnLine
<1>6. CASE CommandIntent \/ HomekitCommand
  <2>1. PICK id \in TxId, cmd \in Commands : Switch(id, cmd)
    BY <1>6 DEF CommandIntent, HomekitCommand
  <2>2. /\ Queue(id, cmd) /\ wire' \in {sent', NoTx}
        /\ SetLine(Outstanding(line, wire'))
    BY <2>1 DEF Switch, OnCommand, WrittenOf
  <2>3. (inFlight' = inFlight /\ sent' = NoTx) \/ inFlight = NoTx
    BY <2>2 DEF Queue, SendsAtOnce
  <2>4. line' = Outstanding(line, wire') /\ (~foreign' => line' = <<>> \/ ~foreign)
    BY <2>2, SetLineFacts
  <2>5. CASE wire' # NoTx
    <3>1. inFlight' = wire' /\ inFlight = NoTx
      BY <2>2, <2>3, <2>5, SentIsInFlight
    <3>. QED
      BY <1>0, <2>4, <2>5, <3>1 DEF LineInv, OwnLine
  <2>6. CASE wire' = NoTx
    <3>1. line' = line
      BY <2>4, <2>6 DEF Outstanding
    <3>. QED
      BY <2>3, <2>4, <3>1 DEF LineInv, OwnLine
  <2>. QED
    BY <2>5, <2>6
<1>7. CASE \/ FeedOther \/ RemoteDisarm \/ CaptureStop \/ StartScan \/ CancelScan
           \/ \E mode \in CaptureModes : CaptureStart(mode)
           \/ UNCHANGED loopVars
  <2>1. UNCHANGED <<inFlight, line, foreign>>
    BY <1>7 DEF FeedOther, OnOtherFrame, RemoteDisarm, SetDisarmEnabled, CaptureStart, CaptureStop,
                StartScan, CancelScan, CoreIdle, loopVars, vars, slots
  <2>. QED
    BY <2>1 DEF LineInv, OwnLine
<1>8. CASE ReloadConfig
  BY <1>8 DEF ReloadConfig, LineInv, OwnLine
<1>. QED
  BY <1>1, <1>2, <1>3, <1>4, <1>5, <1>6, <1>7, <1>8 DEF LoopNext, Feed, Intents

\* Only a confirmation reports OK, and for the command in flight.
LEMMA OkIsConfirm ==
  ASSUME LoopNext, NEW r \in results', r.verdict = "OK"
  PROVE  line # <<>> /\ inFlight # NoTx /\ r.id = inFlight.id
<1>1. \A t, v : \A q \in Says(t, v) : t # NoTx /\ q.id = t.id /\ q.verdict = v
  BY DEF Says
<1>2. \A fehler : \A q \in FehlerVerdicts(fehler) \cup CollisionVerdicts(fehler) : q.verdict # "OK"
  BY <1>1 DEF FehlerVerdicts, CollisionVerdicts
<1>3. ASSUME NEW p, NEW rdy, NEW said, \A q \in said : q.verdict # "OK",
             Flush(p, rdy, said) \/ Hold(p, said)
      PROVE  FALSE
  BY <1>1, <1>3 DEF Flush, Hold
<1>4. CASE FeedSend
  BY <1>2, <1>3, <1>4 DEF FeedSend, OnSendNorm, OnSendNdat
<1>5. CASE FeedConfirm
  <2>1. PICK ack \in BOOLEAN, fehler \in BOOLEAN : OnConfirm(ack, fehler)
    BY <1>5 DEF FeedConfirm
  <2>2. results' = FehlerVerdicts(fehler) \/ \E v : results' = Says(inFlight, v)
    BY <2>1 DEF OnConfirm
  <2>. QED
    BY <1>1, <1>2, <1>5, <2>2 DEF FeedConfirm
<1>6. CASE FeedOther \/ FeedScanPoll \/ BusyPass \/ RemoteDisarm
  BY <1>2, <1>6 DEF FeedOther, OnOtherFrame, FeedScanPoll, BusyPass, Busy, RemoteDisarm, SetDisarmEnabled, CoreIdle
<1>7. CASE TickPass
  <2>1. \E t, u : results' \subseteq Says(t, "TIMEOUT") \cup Says(u, "TIMEOUT")
    BY <1>7 DEF TickPass, Tick, GoUnavailable, CommandTimers
  <2>. QED
    BY <1>1, <2>1
<1>8. CASE CommandIntent \/ HomekitCommand
  BY <1>3, <1>8 DEF CommandIntent, HomekitCommand, Switch, OnCommand, Queue
<1>9. CASE \/ \E mode \in CaptureModes : CaptureStart(mode)
           \/ CaptureStop \/ StartScan \/ CancelScan \/ ReloadConfig
  BY <1>9 DEF CaptureStart, CaptureStop, StartScan, CancelScan, ReloadConfig, CoreIdle
<1>. QED
  BY <1>4, <1>5, <1>6, <1>7, <1>8, <1>9 DEF LoopNext, Feed, Intents

\* As long as the core's commands have the line to themselves, an OK is reported
\* for the command that was confirmed, whatever timeouts, repetitions,
\* collisions, lost writes and eager sending went before.
THEOREM OkForOwnCommand == LoopSpec => OkIsOwnAnswer
<1>1. LoopInit => LineInv
  BY DEF LoopInit, LineInv, OwnLine
<1>2. LineInv /\ [LoopNext]_loopVars
        => [\A r \in results' : r.verdict = "OK" /\ ~foreign => Head(line) = r.id]_loopVars
  <2>. SUFFICES ASSUME LineInv, LoopNext, NEW r \in results', r.verdict = "OK", ~foreign
                PROVE  Head(line) = r.id
    OBVIOUS
  <2>1. line = <<inFlight.id>> /\ r.id = inFlight.id
    BY OkIsConfirm DEF LineInv, OwnLine
  <2>. QED
    BY <2>1
<1>. QED
  BY <1>1, <1>2, LineStep, LoopCoreInit, LoopCoreStep, PTL DEF LoopSpec, OkIsOwnAnswer
=============================================================================
