---------------------------- MODULE AccessProofs ----------------------------
(***************************************************************************)
(* Theorems about Access, for every number of guesses and every length of  *)
(* a lockout: its types and the bound on guesses, which need each other,   *)
(* the first-boot gate, and what the core takes.                           *)
(***************************************************************************)
EXTENDS Access, TLAPS

LockRec == [fails : 0..(MaxFails - 1), until : BOOLEAN, left : 0..Window]
KeptRec == [fails : 0..(MaxFails - 1), until : BOOLEAN]

\* What a lock and the wrong guesses since the last wait have to do with each
\* other: while the lock is open, the counter has seen them all.
Counted(k, n) ==
  /\ k \in LockRec /\ n \in 0..MaxFails
  /\ k.left > 0 => k.until
  /\ k.left = 0 => n <= k.fails

LocksInv ==
  /\ lock \in [Locks -> LockRec] /\ kept \in [Locks -> KeptRec] /\ wrong \in [Locks -> 0..MaxFails]
  /\ \A l \in Locks : Counted(lock[l], wrong[l])

RestTyped ==
  /\ secret \in [hash : BOOLEAN, changed : BOOLEAN, pin : BOOLEAN]
  /\ setup \in [remote : BOOLEAN, homekit : BOOLEAN, hkDisarm : BOOLEAN]
  /\ {session, saved, gate, chosen, touched} \subseteq BOOLEAN
  /\ pass \in [begun : BOOLEAN, remote : BOOLEAN, pin : BOOLEAN]
  /\ taken \in [from : {"pin", "homekit", None}, cmd : Kinds]

LEMMA TypesFollow == LocksInv /\ RestTyped => TypeOK
  BY DEF LocksInv, RestTyped, TypeOK, LockRec, KeptRec, Counted

LEMMA BoundFollows == LocksInv => GuessesBounded
  BY AccessAssumption, SMT DEF LocksInv, Counted, GuessesBounded, Locked, LockRec

-----------------------------------------------------------------------------
(* The two lockouts *)

LEMMA ClearCounted == Counted(Clear, 0)
  BY AccessAssumption, SMT DEF Counted, Clear, LockRec

\* record_fail on a lock that is open
LEMMA FailCounted ==
  ASSUME NEW k, NEW n, Counted(k, n), k.left = 0
  PROVE  Counted(Failed(k), n + 1)
<1>1. k \in LockRec /\ k.fails \in 0..(MaxFails - 1) /\ n \in Nat /\ n <= k.fails
  BY SMT DEF Counted, LockRec
<1>2. CASE k.fails + 1 >= MaxFails
  <2>1. Failed(k) = [fails |-> 0, until |-> TRUE, left |-> Window]
    BY <1>2 DEF Failed
  <2>2. n + 1 \in 0..MaxFails
    BY AccessAssumption, <1>1, SMT
  <2> QED BY AccessAssumption, <2>1, <2>2, SMT DEF Counted, LockRec
<1>3. CASE ~(k.fails + 1 >= MaxFails)
  <2>1. Failed(k) = [k EXCEPT !.fails = k.fails + 1]
    BY <1>3 DEF Failed
  <2>2. k.fails + 1 \in 0..(MaxFails - 1) /\ n + 1 \in 0..MaxFails /\ n + 1 <= k.fails + 1
    BY AccessAssumption, <1>1, <1>3, SMT
  <2>3. Failed(k) = [fails |-> k.fails + 1, until |-> k.until, left |-> k.left]
    BY <1>1, <2>1 DEF LockRec
  <2> QED BY <1>1, <2>2, <2>3, SMT DEF Counted, LockRec
<1> QED BY <1>2, <1>3

LEMMA NoteKeeps ==
  ASSUME LocksInv, NEW l \in Locks, NEW right \in BOOLEAN, right \/ ~Locked(l), Note(l, right)
  PROVE  LocksInv'
<1> DEFINE k == IF right THEN Clear ELSE Failed(lock[l])
           n == IF right THEN 0 ELSE wrong[l] + 1
<1>0. Counted(lock[l], wrong[l])
  BY DEF LocksInv
<1>1. Counted(k, n)
  <2>1. CASE right
    BY <2>1, ClearCounted
  <2>2. CASE ~right
    <3>1. lock[l].left = 0
      BY <1>0, <2>2, AccessAssumption, SMT DEF Locked, Counted, LockRec
    <3> QED BY <1>0, <2>2, <3>1, FailCounted
  <2> QED BY <2>1, <2>2
<1>2. k \in LockRec /\ n \in 0..MaxFails /\ k.fails \in 0..(MaxFails - 1) /\ k.until \in BOOLEAN
  BY <1>1 DEF Counted, LockRec
<1>3. lock' = [lock EXCEPT ![l] = k] /\ wrong' = [wrong EXCEPT ![l] = n]
  BY DEF Note, LocksInv
<1>4. kept' \in [Locks -> KeptRec]
  BY <1>2 DEF Note, Persist, LocksInv, KeptRec
<1> HIDE DEF k, n
<1> QED BY <1>1, <1>2, <1>3, <1>4 DEF LocksInv

LEMMA LocksStay == LocksInv /\ UNCHANGED <<lock, kept, wrong>> => LocksInv'
  BY DEF LocksInv

LEMMA TickKeeps == ASSUME LocksInv, NEW l \in Locks, Tick(l) PROVE LocksInv'
<1> DEFINE k == [lock[l] EXCEPT !.left = @ - 1]
           n == IF lock[l].left = 1 THEN 0 ELSE wrong[l]
<1>0. /\ Counted(lock[l], wrong[l]) /\ lock[l] \in LockRec /\ wrong[l] \in 0..MaxFails
      /\ lock[l].left \in 1..Window
  BY AccessAssumption, SMT DEF LocksInv, Tick, Locked, Counted, LockRec
<1>1. k = [fails |-> lock[l].fails, until |-> lock[l].until, left |-> lock[l].left - 1]
  BY <1>0 DEF LockRec
<1>2. Counted(k, n)
  BY AccessAssumption, <1>0, <1>1, SMT DEF Counted, LockRec
<1>3. lock' = [lock EXCEPT ![l] = k] /\ wrong' = [wrong EXCEPT ![l] = n] /\ kept' = kept
  BY DEF Tick, LocksInv
<1>4. k \in LockRec /\ n \in 0..MaxFails
  BY <1>2 DEF Counted
<1> HIDE DEF k, n
<1> QED BY <1>2, <1>3, <1>4 DEF LocksInv

\* A lock whose window was recorded is closed again; one that is open has seen
\* what its record holds.
LEMMA ReadCounted ==
  ASSUME NEW k \in KeptRec, NEW n \in 0..MaxFails
  PROVE  Counted(Loaded(k), Held(n, k))
<1>1. k.fails \in 0..(MaxFails - 1) /\ k.until \in BOOLEAN
  BY DEF KeptRec
<1>2. Held(n, k) \in 0..MaxFails /\ (~k.until => Held(n, k) <= k.fails)
  BY AccessAssumption, <1>1, SMT DEF Held
<1>3. Loaded(k) \in LockRec
  BY AccessAssumption, <1>1, SMT DEF Loaded, LockRec
<1> QED BY AccessAssumption, <1>1, <1>2, <1>3, SMT DEF Counted, Loaded

LEMMA RestartKeeps == LocksInv /\ Restart => LocksInv'
<1> SUFFICES ASSUME LocksInv, Restart PROVE LocksInv'
  OBVIOUS
<1>1. PICK read \in [Locks -> KeptRec] :
        /\ lock' = [l \in Locks |-> Loaded(read[l])]
        /\ wrong' = [l \in Locks |-> Held(wrong[l], read[l])]
  BY DEF Restart, KeptRec
<1>2. \A l \in Locks : Counted(Loaded(read[l]), Held(wrong[l], read[l]))
  BY ReadCounted DEF LocksInv
<1>3. \A l \in Locks : Loaded(read[l]) \in LockRec /\ Held(wrong[l], read[l]) \in 0..MaxFails
  BY <1>2 DEF Counted
<1> QED BY <1>1, <1>2, <1>3 DEF Restart, LocksInv

LEMMA NextKeepsLocks == LocksInv /\ [Next]_vars => LocksInv'
<1> SUFFICES ASSUME LocksInv, [Next]_vars PROVE LocksInv'
  OBVIOUS
<1>0. "login" \in Locks /\ "pin" \in Locks
  BY DEF Locks
<1>1. CASE Login
  BY <1>0, <1>1, NoteKeeps DEF Login
<1>2. CASE PutPin
  BY <1>0, <1>2, NoteKeeps DEF PutPin
<1>3. ASSUME NEW cmd \in Kinds, Command(cmd) PROVE LocksInv'
  BY <1>0, <1>3, NoteKeeps, LocksStay DEF Command, VerifyPin
<1>4. CASE \E l \in Locks : Tick(l)
  BY <1>4, TickKeeps
<1>5. CASE Restart
  BY <1>5, RestartKeeps
<1>6. CASE SetPassword \/ Logout \/ BeginPass \/ Reload \/ UNCHANGED vars
  BY <1>6, LocksStay DEF SetPassword, Logout, BeginPass, Reload, vars, history
<1>7. CASE \/ \E on \in BOOLEAN : PutRemoteDisarm(on)
           \/ \E homekit, hkDisarm \in BOOLEAN : PutMqtt(homekit, hkDisarm)
           \/ ImportBackup
  BY <1>7, LocksStay DEF PutRemoteDisarm, PutMqtt, ImportBackup
<1>8. ASSUME NEW cmd \in Kinds, HomekitCommand(cmd) PROVE LocksInv'
  BY <1>8, LocksStay DEF HomekitCommand, history
<1> QED BY <1>1, <1>2, <1>3, <1>4, <1>5, <1>6, <1>7, <1>8
        DEF Next, Request, Loop, Messages, Targets, TargetCommand, Kinds

LEMMA InitLocks == Init => LocksInv
<1>1. [fails |-> 0, until |-> FALSE] \in KeptRec /\ Clear \in LockRec /\ 0 \in 0..MaxFails
  BY AccessAssumption, SMT DEF KeptRec, LockRec, Clear
<1> QED BY <1>1, ClearCounted DEF Init, LocksInv

\* Each counter has seen every wrong guess of an open lock that its record holds,
\* whatever writes are lost and whenever the device restarts (record_fail,
\* PersistLock).
THEOREM LocksCounted == Spec => []LocksInv
  BY InitLocks, NextKeepsLocks, PTL DEF Spec

\* After MaxFails wrong guesses in a row at the login, or with the PIN, the next
\* is looked at there only when a whole window has passed, whatever restarts in
\* between (PersistLock); a restart forgets only what its record does not hold.
THEOREM GuessBound == Spec => []GuessesBounded
  BY LocksCounted, BoundFollows, PTL

-----------------------------------------------------------------------------
(* The other types, and the first-boot gate *)

LEMMA InitRest == Init => RestTyped
<1> SUFFICES ASSUME Init PROVE RestTyped
  OBVIOUS
<1>1. secret \in [hash : BOOLEAN, changed : BOOLEAN, pin : BOOLEAN]
  BY DEF Init
<1>2. setup \in [remote : BOOLEAN, homekit : BOOLEAN, hkDisarm : BOOLEAN]
  BY DEF Init
<1>3. pass \in [begun : BOOLEAN, remote : BOOLEAN, pin : BOOLEAN]
  BY DEF Init, NoPass
<1>4. taken \in [from : {"pin", "homekit", None}, cmd : Kinds]
  BY DEF Init, Nothing, Kinds
<1>5. {session, saved, gate, chosen, touched} \subseteq BOOLEAN
  BY DEF Init
<1> QED BY <1>1, <1>2, <1>3, <1>4, <1>5 DEF RestTyped

LEMMA StoreTyped ==
  ASSUME RestTyped, StorePassword
  PROVE  /\ secret' \in [hash : BOOLEAN, changed : BOOLEAN, pin : BOOLEAN]
         /\ secret'.pin = secret.pin
         /\ {session', chosen'} \subseteq BOOLEAN
  BY DEF RestTyped, StorePassword

LEMMA NextKeepsRest == RestTyped /\ [Next]_vars => RestTyped'
<1> SUFFICES ASSUME RestTyped, [Next]_vars PROVE RestTyped'
  OBVIOUS
<1> USE DEF RestTyped
<1>0. Nothing \in [from : {"pin", "homekit", None}, cmd : Kinds]
  BY DEF Nothing, Kinds
<1>1. CASE Login
  BY <1>0, <1>1 DEF Login, settings
<1>2. CASE SetPassword
  BY <1>0, <1>2, StoreTyped DEF SetPassword, RotationRefused, settings
<1>3. CASE Logout
  BY <1>0, <1>3 DEF Logout, settings, history
<1>4. CASE PutPin
  BY <1>0, <1>4 DEF PutPin, Setting
<1>5. CASE \/ \E on \in BOOLEAN : PutRemoteDisarm(on)
           \/ \E homekit, hkDisarm \in BOOLEAN : PutMqtt(homekit, hkDisarm)
           \/ ImportBackup
  BY <1>0, <1>5 DEF PutRemoteDisarm, PutMqtt, ImportBackup, Setting
<1>6. CASE BeginPass \/ Reload
  <2>1. /\ gate \in BOOLEAN /\ saved \in BOOLEAN /\ setup.remote \in BOOLEAN
        /\ pass.remote \in BOOLEAN /\ pass.pin \in BOOLEAN /\ secret.pin \in BOOLEAN
    OBVIOUS
  <2>2. gate' \in BOOLEAN
    BY <1>6, <2>1 DEF BeginPass, Reload, DisarmEnabled
  <2>3. saved' \in BOOLEAN
    BY <1>6, <2>1 DEF BeginPass, Reload
  <2>4. pass' \in [begun : BOOLEAN, remote : BOOLEAN, pin : BOOLEAN]
    <3>1. CASE BeginPass
      BY <2>1, <3>1 DEF BeginPass
    <3>2. CASE Reload
      BY <3>2 DEF Reload
    <3> QED BY <1>6, <3>1, <3>2
  <2>5. taken' = Nothing /\ UNCHANGED <<secret, session, setup, chosen, touched>>
    BY <1>6 DEF BeginPass, Reload, history
  <2> QED BY <1>0, <2>2, <2>3, <2>4, <2>5
<1>7. ASSUME NEW from \in {"pin", "homekit"}, NEW cmd \in Kinds, CoreTakes(from, cmd)
      PROVE  taken' \in [from : {"pin", "homekit", None}, cmd : Kinds]
  BY <1>0, <1>7 DEF CoreTakes
<1>8. ASSUME NEW cmd \in Kinds, Command(cmd) PROVE RestTyped'
  <2>1. taken' \in [from : {"pin", "homekit", None}, cmd : Kinds]
    BY <1>0, <1>7, <1>8 DEF Command
  <2> QED BY <1>8, <2>1 DEF Command, settings
<1>9. ASSUME NEW cmd \in Kinds, HomekitCommand(cmd) PROVE RestTyped'
  <2>1. taken' \in [from : {"pin", "homekit", None}, cmd : Kinds]
    BY <1>7, <1>9 DEF HomekitCommand
  <2> QED BY <1>9, <2>1 DEF HomekitCommand, settings, history
<1>10. CASE (\E l \in Locks : Tick(l)) \/ UNCHANGED vars
  BY <1>0, <1>10 DEF Tick, settings, vars, history
<1>11. CASE Restart
  BY <1>0, <1>11 DEF Restart, FirstInit, DisarmEnabled, NoPass
<1> QED BY <1>1, <1>2, <1>3, <1>4, <1>5, <1>6, <1>8, <1>9, <1>10, <1>11
        DEF Next, Request, Loop, Messages, Targets, TargetCommand, Kinds

\* The variables keep their types; a lock that still waits has its window
\* recorded, and a counter never reaches the limit.
THEOREM TypeCorrect == Spec => []TypeOK
<1>1. Spec => []RestTyped
  BY InitRest, NextKeepsRest, PTL DEF Spec
<1> QED BY <1>1, LocksCounted, TypesFollow, PTL

\* What a request may rely on: pw_changed is in NVS only when an owner has
\* stored a password.
OwnerFirst == OwnPasswordFirst /\ (secret.changed => chosen)

LEMMA NextKeepsOwner == RestTyped /\ OwnerFirst /\ [Next]_vars => OwnerFirst'
<1> SUFFICES ASSUME RestTyped, OwnerFirst, [Next]_vars PROVE OwnerFirst'
  OBVIOUS
<1> USE DEF OwnerFirst, OwnPasswordFirst
<1>1. CASE SetPassword
  BY <1>1 DEF SetPassword, StorePassword, RotationRefused, RestTyped
<1>2. CASE PutPin
  BY <1>2 DEF PutPin, Setting, Admitted, ChangeRequired, RestTyped
<1>3. CASE \/ \E on \in BOOLEAN : PutRemoteDisarm(on)
           \/ \E homekit, hkDisarm \in BOOLEAN : PutMqtt(homekit, hkDisarm)
           \/ ImportBackup
  BY <1>3 DEF PutRemoteDisarm, PutMqtt, ImportBackup, Setting, Admitted, ChangeRequired
<1>4. CASE Restart
  BY <1>4 DEF Restart, FirstInit, RestTyped
<1>5. ASSUME NEW cmd \in Kinds, Command(cmd) \/ HomekitCommand(cmd) PROVE OwnerFirst'
  BY <1>5 DEF Command, HomekitCommand, history
<1>6. CASE Login \/ Logout \/ BeginPass \/ Reload \/ (\E l \in Locks : Tick(l)) \/ UNCHANGED vars
  BY <1>6 DEF Login, Logout, BeginPass, Reload, Tick, vars, history
<1> QED BY <1>1, <1>2, <1>3, <1>4, <1>5, <1>6
        DEF Next, Request, Loop, Messages, Targets, TargetCommand, Kinds

\* No request changes a setting before an owner has stored a password, whatever
\* write of set_password fails and whenever the device restarts.
THEOREM GatedUntilOwned == Spec => []OwnPasswordFirst
<1>1. Init => RestTyped /\ OwnerFirst
  BY InitRest DEF Init, OwnerFirst, OwnPasswordFirst
<1> QED BY <1>1, NextKeepsRest, NextKeepsOwner, PTL DEF Spec, OwnerFirst

-----------------------------------------------------------------------------
(* What the core takes *)

\* The gate stands for the switch and the PIN this pass has read, and a PIN
\* once set is never taken away.
GateFits ==
  pass.begun => /\ gate => pass.remote /\ secret.pin
                /\ pass.pin => secret.pin

LEMMA PinStays == RestTyped /\ [Next]_vars => (secret.pin => secret'.pin)
<1> SUFFICES ASSUME RestTyped, [Next]_vars, secret.pin PROVE secret'.pin
  OBVIOUS
<1>1. CASE SetPassword
  BY <1>1, StoreTyped DEF SetPassword, RotationRefused
<1>2. CASE PutPin
  BY <1>2 DEF PutPin, RestTyped
<1>3. CASE Restart
  BY <1>3 DEF Restart, FirstInit, RestTyped
<1>4. ASSUME NEW cmd \in Kinds, Command(cmd) \/ HomekitCommand(cmd) PROVE secret'.pin
  BY <1>4 DEF Command, HomekitCommand
<1>5. CASE \/ \E on \in BOOLEAN : PutRemoteDisarm(on)
           \/ \E homekit, hkDisarm \in BOOLEAN : PutMqtt(homekit, hkDisarm)
           \/ ImportBackup \/ Login \/ Logout \/ BeginPass \/ Reload
           \/ (\E l \in Locks : Tick(l)) \/ UNCHANGED vars
  BY <1>5 DEF PutRemoteDisarm, PutMqtt, ImportBackup, Login, Logout, BeginPass, Reload, Tick, vars
<1> QED BY <1>1, <1>2, <1>3, <1>4, <1>5
        DEF Next, Request, Loop, Messages, Targets, TargetCommand, Kinds

LEMMA NextKeepsGate == RestTyped /\ GateFits /\ [Next]_vars => GateFits'
<1> SUFFICES ASSUME RestTyped, GateFits, [Next]_vars PROVE GateFits'
  OBVIOUS
<1>1. CASE UNCHANGED <<pass, gate>>
  BY <1>1, PinStays DEF GateFits
<1>2. CASE BeginPass
  BY <1>2 DEF BeginPass, DisarmEnabled, GateFits, RestTyped
<1>3. CASE Reload
  BY <1>3 DEF Reload, DisarmEnabled, GateFits
<1>4. CASE Restart
  BY <1>4 DEF Restart, NoPass, GateFits
<1>5. ASSUME NEW cmd \in Kinds, Command(cmd) \/ HomekitCommand(cmd) PROVE UNCHANGED <<pass, gate>>
  BY <1>5 DEF Command, HomekitCommand, settings
<1>6. ASSUME Request \/ (\E l \in Locks : Tick(l)) \/ UNCHANGED vars PROVE UNCHANGED <<pass, gate>>
  BY <1>6 DEF Request, Login, SetPassword, Logout, PutPin, PutRemoteDisarm, PutMqtt, ImportBackup,
              Setting, Tick, settings, vars
<1> QED BY <1>1, <1>2, <1>3, <1>4, <1>5, <1>6
        DEF Next, Loop, Messages, Targets, TargetCommand, Kinds

LEMMA CommandAllowed ==
  ASSUME RestTyped, GateFits, NEW cmd \in Kinds, Command(cmd)
  PROVE  TakesAllowed
<1> SUFFICES ASSUME taken'.from # None PROVE TakesAllowed
  BY DEF TakesAllowed
<1> USE DEF Command, CoreTakes, Nothing, None
<1>1. taken' = [from |-> "pin", cmd |-> cmd] /\ ~setup.homekit
  BY DEF Reducing
<1>2. CASE Reducing(cmd)
  <2>1. gate /\ setup.remote
    BY <1>2 DEF Disarms
  <2>2. ~Locked("pin") /\ secret.pin
    BY <1>2 DEF Disarms, VerifyPin
  <2> QED BY <1>1, <2>1, <2>2 DEF TakesAllowed, GateFits
<1>3. CASE ~Reducing(cmd)
  BY <1>1, <1>3 DEF TakesAllowed
<1> QED BY <1>2, <1>3

LEMMA HomekitAllowed ==
  ASSUME GateFits, NEW cmd \in Kinds, HomekitCommand(cmd)
  PROVE  TakesAllowed
<1> SUFFICES ASSUME taken'.from # None PROVE TakesAllowed
  BY DEF TakesAllowed
<1>1. taken' = [from |-> "homekit", cmd |-> cmd] /\ setup.homekit /\ (Reducing(cmd) => gate)
  BY DEF HomekitCommand, HomekitAuthorized, CoreTakes, Nothing, None
<1> QED BY <1>1 DEF TakesAllowed, GateFits, HomekitCommand, HomekitAuthorized

LEMMA NextTakesAllowed == RestTyped /\ GateFits /\ [Next]_vars => [TakesAllowed]_vars
<1> SUFFICES ASSUME RestTyped, GateFits, Next PROVE TakesAllowed \/ UNCHANGED vars
  OBVIOUS
<1>1. CASE \E m \in Messages : IsCommand(m) /\ Command(m.cmd)
  BY <1>1, CommandAllowed DEF Messages
<1>2. CASE \E t \in Targets : HomekitCommand(TargetCommand(t))
  BY <1>2, HomekitAllowed DEF TargetCommand, Kinds
<1>3. CASE Request \/ BeginPass \/ Reload \/ (\E l \in Locks : Tick(l)) \/ Restart
  <2>1. taken' = Nothing
    BY <1>3 DEF Request, Login, SetPassword, Logout, PutPin, PutRemoteDisarm, PutMqtt,
                ImportBackup, Setting, BeginPass, Reload, Tick, Restart
  <2> QED BY <2>1 DEF TakesAllowed, Nothing
<1> QED BY <1>1, <1>2, <1>3 DEF Next, Loop

\* The core takes a command only from the channel in use, and one that reduces
\* security only with the switch on, a PIN on the device and the channel's own
\* permission (authorize_command, homekit_authorized, Core::on_command).
THEOREM TakesOnlyWhatIsAllowed == Spec => TakesOnlyAllowed
<1>1. Init => RestTyped /\ GateFits
  BY InitRest DEF Init, GateFits, NoPass
<1> QED BY <1>1, NextKeepsRest, NextKeepsGate, NextTakesAllowed, PTL DEF Spec, TakesOnlyAllowed
=============================================================================
