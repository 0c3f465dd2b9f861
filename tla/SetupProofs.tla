----------------------------- MODULE SetupProofs ----------------------------
(***************************************************************************)
(* Theorems about Setup, for every set of detectors and panels and any     *)
(* number of requests: a committed selection is never lost, what reaches   *)
(* the flash is valid, a reboot is granted only when nothing is on its     *)
(* way, and a commit's status and its HomeKit step belong to that commit.  *)
(*                                                                         *)
(* All of them rest on the order of the intents (Line): at most one commit *)
(* is queued and it is the pending one, imports without a session are      *)
(* followed by it, and a HomeKit step stands right behind its commit.      *)
(* The types come last: they need a count of the accessories (AddedFits).  *)
(***************************************************************************)
EXTENDS Setup, FiniteSetTheorems, WellFoundedInduction, TLAPS

Reloads == [op : {"reload"}, cfg : Configs, id : Commits \union {0}]
Intents == Reloads \union [op : {"apply", "reboot", "start"}, id : Commits \union {0}]

\* The i-th intent saves a configuration; and it does so for commit n.
Saving(q, i)    == q[i].op = "reload"
SavesFor(q, i, n) == Saving(q, i) /\ q[i].id = n

\* Only the pending commit is queued, once, and while it is pending it is.
OnePending(q, p) ==
  /\ \A i \in 1..Len(q) : Saving(q, i) => q[i].id \in {0, p}
  /\ \A i, j \in 1..Len(q) : SavesFor(q, i, p) /\ SavesFor(q, j, p) /\ p # 0 => i = j
  /\ p # 0 => \E i \in 1..Len(q) : SavesFor(q, i, p)

\* Without a session every configuration on its way is followed by the commit.
Covered(q, p, open) ==
  ~open => \A i \in 1..Len(q) : Saving(q, i) => p # 0 /\ \E j \in i..Len(q) : SavesFor(q, j, p)

\* A HomeKit step is right behind its commit, or that commit has been handled.
Behind(q, st, done) ==
  \A i \in 1..Len(q) : q[i].op = "apply" =>
    /\ q[i].id # 0
    /\ IF i > 1 THEN SavesFor(q, i - 1, q[i].id) ELSE st = "saved" => q[i].id \in done

Line(q, p, open, st, done) ==
  /\ q \in Seq(Intents)
  /\ OnePending(q, p) /\ Covered(q, p, open) /\ Behind(q, st, done)

-----------------------------------------------------------------------------
(* What the requests and the loop do to the line *)

LEMMA Appended ==
  ASSUME NEW q \in Seq(Intents), NEW e \in Intents
  PROVE  /\ Append(q, e) \in Seq(Intents)
         /\ Len(Append(q, e)) = Len(q) + 1 /\ Len(q) \in Nat
         /\ Append(q, e)[Len(q) + 1] = e
         /\ \A i \in 1..Len(q) : Append(q, e)[i] = q[i]
  OBVIOUS

LEMMA Shortened ==
  ASSUME NEW q \in Seq(Intents), q # <<>>
  PROVE  /\ Tail(q) \in Seq(Intents) /\ Head(q) = q[1]
         /\ Len(q) \in Nat \ {0} /\ Len(Tail(q)) = Len(q) - 1
         /\ \A i \in 1..Len(Tail(q)) : i + 1 \in 1..Len(q) /\ Tail(q)[i] = q[i + 1]
  OBVIOUS

LEMMA EmptyLine ==
  ASSUME NEW open, NEW st, NEW done
  PROVE  Line(<<>>, 0, open, st, done)
  BY DEF Line, OnePending, Covered, Behind

\* A reboot or the start of HomeKit
LEMMA QuietAppended ==
  ASSUME NEW q, NEW p, NEW open, NEW st, NEW done, Line(q, p, open, st, done),
         NEW e \in Intents, e.op \in {"reboot", "start"}
  PROVE  Line(Append(q, e), p, open, st, done)
<1>1. q \in Seq(Intents)
  BY DEF Line
<1> DEFINE r == Append(q, e)
<1>2. /\ r \in Seq(Intents) /\ Len(r) = Len(q) + 1 /\ Len(q) \in Nat
      /\ r[Len(q) + 1] = e /\ \A i \in 1..Len(q) : r[i] = q[i]
  BY <1>1, Appended
<1> HIDE DEF r
<1>3. OnePending(r, p)
  BY <1>2 DEF Line, OnePending, Saving, SavesFor
<1>4. Covered(r, p, open)
  BY <1>2 DEF Line, Covered, Saving, SavesFor
<1>5. Behind(r, st, done)
  BY <1>2 DEF Line, Behind, Saving, SavesFor
<1> QED BY <1>2, <1>3, <1>4, <1>5 DEF Line, r

\* An import opens a session.
LEMMA ImportAppended ==
  ASSUME NEW q, NEW p, NEW open, NEW st, NEW done, Line(q, p, open, st, done),
         NEW e \in Intents, e.op = "reload", e.id = 0
  PROVE  Line(Append(q, e), p, TRUE, st, done)
<1>1. q \in Seq(Intents)
  BY DEF Line
<1> DEFINE r == Append(q, e)
<1>2. /\ r \in Seq(Intents) /\ Len(r) = Len(q) + 1 /\ Len(q) \in Nat
      /\ r[Len(q) + 1] = e /\ \A i \in 1..Len(q) : r[i] = q[i]
  BY <1>1, Appended
<1> HIDE DEF r
<1>3. OnePending(r, p)
  BY <1>2 DEF Line, OnePending, Saving, SavesFor
<1>4. Covered(r, p, TRUE)
  BY DEF Covered
<1>5. Behind(r, st, done)
  BY <1>2 DEF Line, Behind, Saving, SavesFor
<1> QED BY <1>2, <1>3, <1>4, <1>5 DEF Line, r

\* A commit is taken only when none is pending.
LEMMA CommitAppended ==
  ASSUME NEW q, NEW open, NEW st, NEW done, Line(q, 0, open, st, done),
         NEW e \in Intents, e.op = "reload", e.id # 0
  PROVE  Line(Append(q, e), e.id, FALSE, "pending", done)
<1>1. q \in Seq(Intents)
  BY DEF Line
<1> DEFINE r == Append(q, e)
<1>2. /\ r \in Seq(Intents) /\ Len(r) = Len(q) + 1 /\ Len(q) \in Nat
      /\ r[Len(q) + 1] = e /\ \A i \in 1..Len(q) : r[i] = q[i]
  BY <1>1, Appended
<1> HIDE DEF r
<1>3. \A i \in 1..Len(q) : Saving(r, i) => r[i].id = 0
  BY <1>2 DEF Line, OnePending, Saving
<1>4. OnePending(r, e.id)
  BY <1>2, <1>3 DEF OnePending, Saving, SavesFor
<1>5. Covered(r, e.id, FALSE)
  BY <1>2 DEF Covered, SavesFor, Saving
<1>6. Behind(r, "pending", done)
  BY <1>2 DEF Line, Behind, Saving, SavesFor
<1> QED BY <1>2, <1>4, <1>5, <1>6 DEF Line, r

\* The HomeKit step of the commit that has just been appended
LEMMA ApplyAppended ==
  ASSUME NEW q, NEW p, NEW open, NEW st, NEW done, Line(q, p, open, st, done),
         NEW e \in Intents, e.op = "apply", e.id # 0,
         Len(q) > 0, SavesFor(q, Len(q), e.id)
  PROVE  Line(Append(q, e), p, open, st, done)
<1>1. q \in Seq(Intents)
  BY DEF Line
<1> DEFINE r == Append(q, e)
<1>2. /\ r \in Seq(Intents) /\ Len(r) = Len(q) + 1 /\ Len(q) \in Nat
      /\ r[Len(q) + 1] = e /\ \A i \in 1..Len(q) : r[i] = q[i]
  BY <1>1, Appended
<1> HIDE DEF r
<1>3. OnePending(r, p)
  BY <1>2 DEF Line, OnePending, Saving, SavesFor
<1>4. Covered(r, p, open)
  BY <1>2 DEF Line, Covered, Saving, SavesFor
<1>5. Behind(r, st, done)
  BY <1>2 DEF Line, Behind, Saving, SavesFor
<1> QED BY <1>2, <1>3, <1>4, <1>5 DEF Line, r

\* The loop handles an intent that saves nothing.
LEMMA QuietHandled ==
  ASSUME NEW q, NEW p, NEW open, NEW st, NEW done, Line(q, p, open, st, done),
         q # <<>>, Head(q).op # "reload"
  PROVE  Line(Tail(q), p, open, st, done)
<1>1. q \in Seq(Intents)
  BY DEF Line
<1> DEFINE r == Tail(q)
<1>2. /\ r \in Seq(Intents) /\ Len(q) \in Nat \ {0} /\ Len(r) = Len(q) - 1
      /\ \A i \in 1..Len(r) : i + 1 \in 1..Len(q) /\ r[i] = q[i + 1]
  BY <1>1, Shortened
<1>3. q[1].op # "reload"
  BY <1>1, Shortened
<1> HIDE DEF r
<1>4. \A i \in 1..Len(q) : Saving(q, i) => i - 1 \in 1..Len(r) /\ r[i - 1] = q[i]
  BY <1>2, <1>3 DEF Saving
<1>5. OnePending(r, p)
  <2>1. \A i \in 1..Len(r) : Saving(r, i) => r[i].id \in {0, p}
    BY <1>2 DEF Line, OnePending, Saving
  <2>2. \A i, j \in 1..Len(r) : SavesFor(r, i, p) /\ SavesFor(r, j, p) /\ p # 0 => i = j
    <3> TAKE i, j \in 1..Len(r)
    <3> HAVE SavesFor(r, i, p) /\ SavesFor(r, j, p) /\ p # 0
    <3>1. i + 1 \in 1..Len(q) /\ j + 1 \in 1..Len(q) /\ SavesFor(q, i + 1, p) /\ SavesFor(q, j + 1, p)
      BY <1>2 DEF SavesFor, Saving
    <3>2. i + 1 = j + 1
      BY <3>1 DEF Line, OnePending
    <3> QED BY <3>2, <1>2
  <2>3. p # 0 => \E i \in 1..Len(r) : SavesFor(r, i, p)
    BY <1>4 DEF Line, OnePending, SavesFor, Saving
  <2> QED BY <2>1, <2>2, <2>3 DEF OnePending
<1>6. Covered(r, p, open)
  <2> SUFFICES ASSUME ~open, NEW i \in 1..Len(r), Saving(r, i)
               PROVE  p # 0 /\ \E j \in i..Len(r) : SavesFor(r, j, p)
    BY DEF Covered
  <2>1. i + 1 \in 1..Len(q) /\ Saving(q, i + 1)
    BY <1>2 DEF Saving
  <2>2. p # 0 /\ \E j \in (i + 1)..Len(q) : SavesFor(q, j, p)
    BY <2>1 DEF Line, Covered
  <2>3. PICK j \in (i + 1)..Len(q) : SavesFor(q, j, p)
    BY <2>2
  <2>4. j - 1 \in i..Len(r) /\ SavesFor(r, j - 1, p)
    BY <1>2, <1>4, <2>3 DEF SavesFor, Saving
  <2> QED BY <2>2, <2>4
<1>7. Behind(r, st, done)
  <2> SUFFICES ASSUME NEW i \in 1..Len(r), r[i].op = "apply"
               PROVE  /\ r[i].id # 0
                      /\ IF i > 1 THEN SavesFor(r, i - 1, r[i].id)
                                  ELSE st = "saved" => r[i].id \in done
    BY DEF Behind
  <2>1. i + 1 \in 1..Len(q) /\ q[i + 1] = r[i] /\ i + 1 > 1
    BY <1>2
  <2>2. r[i].id # 0 /\ SavesFor(q, (i + 1) - 1, r[i].id)
    BY <2>1 DEF Line, Behind
  <2>3. SavesFor(q, i, r[i].id)
    BY <2>2
  <2> QED BY <1>2, <1>4, <2>2, <2>3, <1>3 DEF SavesFor, Saving
<1> QED BY <1>2, <1>5, <1>6, <1>7 DEF Line, r

\* The pending commit is handled: nothing of it is left, and no session was
\* closed after an import behind it.
LEMMA CommitHandled ==
  ASSUME NEW q, NEW p, NEW open, NEW st, NEW done, Line(q, p, open, st, done),
         q # <<>>, Head(q).op = "reload", Head(q).id = p, p # 0,
         NEW openAfter, open => openAfter, NEW after, NEW doneAfter,
         after = "saved" => p \in doneAfter
  PROVE  Line(Tail(q), 0, openAfter, after, doneAfter)
<1>1. q \in Seq(Intents)
  BY DEF Line
<1> DEFINE r == Tail(q)
<1>2. /\ r \in Seq(Intents) /\ Len(q) \in Nat \ {0} /\ Len(r) = Len(q) - 1
      /\ \A i \in 1..Len(r) : i + 1 \in 1..Len(q) /\ r[i] = q[i + 1]
  BY <1>1, Shortened
<1>3. 1 \in 1..Len(q) /\ SavesFor(q, 1, p)
  BY <1>1, <1>2, Shortened DEF SavesFor, Saving
<1> HIDE DEF r
<1>4. \A j \in 1..Len(q) : SavesFor(q, j, p) => j = 1
  BY <1>3 DEF Line, OnePending
<1>5. OnePending(r, 0)
  <2>1. ASSUME NEW i \in 1..Len(r), Saving(r, i)
        PROVE  r[i].id = 0
    <3>1. i + 1 \in 1..Len(q) /\ i + 1 # 1 /\ q[i + 1] = r[i] /\ Saving(q, i + 1)
      BY <2>1, <1>2 DEF Saving
    <3>2. ~SavesFor(q, i + 1, p)
      BY <3>1, <1>4
    <3> QED BY <3>1, <3>2 DEF Line, OnePending, SavesFor
  <2> QED BY <2>1 DEF OnePending
<1>6. Covered(r, 0, openAfter)
  <2> SUFFICES ASSUME ~openAfter, NEW i \in 1..Len(r), Saving(r, i)
               PROVE  FALSE
    BY DEF Covered
  <2>1. i + 1 \in 1..Len(q) /\ Saving(q, i + 1) /\ ~open
    BY <1>2 DEF Saving
  <2>2. PICK j \in (i + 1)..Len(q) : SavesFor(q, j, p)
    BY <2>1 DEF Line, Covered
  <2>3. j \in 1..Len(q) /\ j # 1
    BY <1>2, <2>1
  <2> QED BY <2>2, <2>3, <1>4
<1>7. Behind(r, after, doneAfter)
  <2> SUFFICES ASSUME NEW i \in 1..Len(r), r[i].op = "apply"
               PROVE  /\ r[i].id # 0
                      /\ IF i > 1 THEN SavesFor(r, i - 1, r[i].id)
                                  ELSE after = "saved" => r[i].id \in doneAfter
    BY DEF Behind
  <2>1. i + 1 \in 1..Len(q) /\ q[i + 1] = r[i] /\ i + 1 > 1
    BY <1>2
  <2>2. r[i].id # 0 /\ SavesFor(q, (i + 1) - 1, r[i].id)
    BY <2>1 DEF Line, Behind
  <2>3. SavesFor(q, i, r[i].id)
    BY <2>2
  <2>4. CASE i > 1
    <3>1. i - 1 \in 1..Len(r) /\ r[i - 1] = q[i]
      BY <1>2, <2>4
    <3> QED BY <2>2, <2>3, <2>4, <3>1 DEF SavesFor, Saving
  <2>5. CASE i = 1
    BY <2>2, <2>3, <2>5, <1>3 DEF SavesFor
  <2> QED BY <2>4, <2>5
<1> QED BY <1>2, <1>5, <1>6, <1>7 DEF Line, r

\* An import is handled: the commit behind it waits on.
LEMMA ImportHandled ==
  ASSUME NEW q, NEW p, NEW open, NEW st, NEW done, Line(q, p, open, st, done),
         q # <<>>, Head(q).op = "reload", ~(p # 0 /\ Head(q).id = p),
         NEW doneAfter, done \subseteq doneAfter
  PROVE  Line(Tail(q), p, open, st, doneAfter) /\ Head(q).id = 0
<1>1. q \in Seq(Intents)
  BY DEF Line
<1> DEFINE r == Tail(q)
<1>2. /\ r \in Seq(Intents) /\ Len(q) \in Nat \ {0} /\ Len(r) = Len(q) - 1
      /\ \A i \in 1..Len(r) : i + 1 \in 1..Len(q) /\ r[i] = q[i + 1]
  BY <1>1, Shortened
<1>3. 1 \in 1..Len(q) /\ Saving(q, 1) /\ q[1].id = 0 /\ Head(q).id = 0
  <2>1. 1 \in 1..Len(q) /\ Head(q) = q[1] /\ Saving(q, 1)
    BY <1>1, <1>2, Shortened DEF Saving
  <2>2. q[1].id \in {0, p}
    BY <2>1 DEF Line, OnePending
  <2> QED BY <2>1, <2>2
<1> HIDE DEF r
<1>4. \A i \in 1..Len(q) : i # 1 => i - 1 \in 1..Len(r) /\ r[i - 1] = q[i]
  BY <1>2
<1>5. OnePending(r, p)
  <2>1. \A i \in 1..Len(r) : Saving(r, i) => r[i].id \in {0, p}
    BY <1>2 DEF Line, OnePending, Saving
  <2>2. \A i, j \in 1..Len(r) : SavesFor(r, i, p) /\ SavesFor(r, j, p) /\ p # 0 => i = j
    <3> TAKE i, j \in 1..Len(r)
    <3> HAVE SavesFor(r, i, p) /\ SavesFor(r, j, p) /\ p # 0
    <3>1. i + 1 \in 1..Len(q) /\ j + 1 \in 1..Len(q) /\ SavesFor(q, i + 1, p) /\ SavesFor(q, j + 1, p)
      BY <1>2 DEF SavesFor, Saving
    <3>2. i + 1 = j + 1
      BY <3>1 DEF Line, OnePending
    <3> QED BY <3>2, <1>2
  <2>3. p # 0 => \E i \in 1..Len(r) : SavesFor(r, i, p)
    <3> HAVE p # 0
    <3>1. PICK i \in 1..Len(q) : SavesFor(q, i, p)
      BY DEF Line, OnePending
    <3>2. i # 1
      BY <1>3, <3>1 DEF SavesFor
    <3> QED BY <3>1, <3>2, <1>4 DEF SavesFor, Saving
  <2> QED BY <2>1, <2>2, <2>3 DEF OnePending
<1>6. Covered(r, p, open)
  <2> SUFFICES ASSUME ~open, NEW i \in 1..Len(r), Saving(r, i)
               PROVE  p # 0 /\ \E j \in i..Len(r) : SavesFor(r, j, p)
    BY DEF Covered
  <2>1. i + 1 \in 1..Len(q) /\ Saving(q, i + 1)
    BY <1>2 DEF Saving
  <2>2. p # 0 /\ \E j \in (i + 1)..Len(q) : SavesFor(q, j, p)
    BY <2>1 DEF Line, Covered
  <2>3. PICK j \in (i + 1)..Len(q) : SavesFor(q, j, p)
    BY <2>2
  <2>4. j - 1 \in i..Len(r) /\ SavesFor(r, j - 1, p)
    BY <1>2, <1>4, <2>3 DEF SavesFor, Saving
  <2> QED BY <2>2, <2>4
<1>7. Behind(r, st, doneAfter)
  <2> SUFFICES ASSUME NEW i \in 1..Len(r), r[i].op = "apply"
               PROVE  /\ r[i].id # 0
                      /\ IF i > 1 THEN SavesFor(r, i - 1, r[i].id)
                                  ELSE st = "saved" => r[i].id \in doneAfter
    BY DEF Behind
  <2>1. i + 1 \in 1..Len(q) /\ q[i + 1] = r[i] /\ i + 1 > 1
    BY <1>2
  <2>2. r[i].id # 0 /\ SavesFor(q, (i + 1) - 1, r[i].id)
    BY <2>1 DEF Line, Behind
  <2>3. SavesFor(q, i, r[i].id)
    BY <2>2
  <2>4. i # 1
    BY <1>3, <2>2, <2>3 DEF SavesFor
  <2> QED BY <1>2, <1>4, <2>2, <2>3, <2>4 DEF SavesFor, Saving
<1> QED BY <1>2, <1>3, <1>5, <1>6, <1>7 DEF Line, r

LEMMA Opening ==
  ASSUME NEW q, NEW p, NEW open, NEW st, NEW done, Line(q, p, open, st, done),
         NEW openAfter, open => openAfter
  PROVE  Line(q, p, openAfter, st, done)
  BY DEF Line, Covered
-----------------------------------------------------------------------------
(* The inductive invariant *)

Typed ==
  /\ flash \in Configs /\ persisted \in Configs
  /\ session \in [some : BOOLEAN, table : Tables, out : SUBSET Detectors]
  /\ panel \in Panels
  /\ requests \in 0..MaxRequests

StatusFits ==
  /\ pending # 0 => status = "pending"
  /\ status = "failed" => session.some

\* Nothing invalid is saved or on its way.
SoundLine ==
  /\ Valid(flash.table)
  /\ \A i \in 1..Len(queue) : Saving(queue, i) => Valid(queue[i].cfg.table)

InLine == Line(queue, pending, session.some, status, saved)

SetupInv ==
  /\ Typed /\ StatusFits /\ flash = persisted /\ SoundLine /\ InLine

LEMMA NoSessionTyped == NoSession \in [some : BOOLEAN, table : Tables, out : SUBSET Detectors]
  BY DEF NoSession, Tables, Marks

LEMMA ReopenedTyped ==
  ASSUME NEW cfg \in Configs
  PROVE  /\ Reopened(cfg) \in [some : BOOLEAN, table : Tables, out : SUBSET Detectors]
         /\ Reopened(cfg).some
  BY DEF Reopened, Configs

LEMMA OpenedTyped ==
  ASSUME Typed
  PROVE  /\ Opened \in [some : BOOLEAN, table : Tables, out : SUBSET Detectors]
         /\ Opened.some
  BY DEF Typed, Opened, Configs

LEMMA WorkingTyped ==
  ASSUME Typed
  PROVE  Working \in Configs
<1>1. Included(session.table, session.out) \in Tables
  BY DEF Typed, Included, Tables, Marks
<1> QED BY <1>1 DEF Typed, Working, Configs

LEMMA RequestTyped ==
  ASSUME Typed, Request
  PROVE  requests' \in 0..MaxRequests
  BY SetupAssumption DEF Typed, Request

LEMMA InitInv == Init => SetupInv
<1> SUFFICES ASSUME Init PROVE SetupInv
  OBVIOUS
<1>1. PICK cfg \in Configs : Valid(cfg.table) /\ flash = cfg /\ persisted = cfg
  BY DEF Init
<1>2. Typed
  BY <1>1, NoSessionTyped, SetupAssumption DEF Init, Typed
<1>3. InLine
  BY EmptyLine DEF Init, InLine
<1> QED BY <1>1, <1>2, <1>3 DEF Init, SetupInv, StatusFits, SoundLine

-----------------------------------------------------------------------------
(* Requests keep it *)

\* A request that changes only the draft, and closes no session
LEMMA DraftKeeps ==
  ASSUME SetupInv, Typed', UNCHANGED <<flash, persisted, commit, queue, saved>>,
         session.some => session'.some
  PROVE  SetupInv'
<1>1. InLine'
  BY Opening DEF SetupInv, InLine, commit
<1> QED BY <1>1 DEF SetupInv, StatusFits, SoundLine, commit

LEMMA EditKeeps ==
  ASSUME SetupInv, NEW S \in SUBSET Detectors, NEW mark \in Marks, Edit(S, mark)
  PROVE  SetupInv'
<1>1. session' \in [some : BOOLEAN, table : Tables, out : SUBSET Detectors] /\ session'.some
  BY OpenedTyped DEF SetupInv, Edit, Tables
<1>2. Typed'
  BY <1>1, RequestTyped DEF SetupInv, Typed, Edit
<1> QED BY <1>1, <1>2, DraftKeeps DEF Edit

LEMMA ExcludeKeeps ==
  ASSUME SetupInv, NEW S \in SUBSET Detectors, NEW out \in BOOLEAN, Exclude(S, out)
  PROVE  SetupInv'
<1>1. session' \in [some : BOOLEAN, table : Tables, out : SUBSET Detectors] /\ session'.some
  BY OpenedTyped DEF SetupInv, Exclude
<1>2. Typed'
  BY <1>1, RequestTyped DEF SetupInv, Typed, Exclude
<1> QED BY <1>1, <1>2, DraftKeeps DEF Exclude

LEMMA SelectKeeps ==
  ASSUME SetupInv, NEW p \in Panels, SelectPanel(p)
  PROVE  SetupInv'
<1>1. Typed'
  BY RequestTyped DEF SetupInv, Typed, SelectPanel
<1> QED BY <1>1, DraftKeeps DEF SelectPanel

LEMMA SeedKeeps ==
  ASSUME SetupInv, NEW S \in SUBSET Detectors, NEW G \in SUBSET S, NEW p \in Panels, Seed(S, G, p)
  PROVE  SetupInv'
<1>1. session' \in [some : BOOLEAN, table : Tables, out : SUBSET Detectors] /\ session'.some
  BY DEF Seed, Tables, Marks
<1>2. Typed'
  BY <1>1, RequestTyped DEF SetupInv, Typed, Seed
<1> QED BY <1>1, <1>2, DraftKeeps DEF Seed

\* The configuration a commit puts into the line
LEMMA CommitTyped ==
  ASSUME Typed, Request, Accepts
  PROVE  /\ Reload(Working, requests + 1) \in Intents /\ Reload(Working, requests + 1).op = "reload"
         /\ Reload(Working, requests + 1).id = requests + 1
         /\ Reload(Working, requests + 1).cfg = Working
         /\ Apply(requests + 1) \in Intents /\ Apply(requests + 1).op = "apply"
         /\ Apply(requests + 1).id = requests + 1
         /\ requests + 1 # 0 /\ pending = 0 /\ Valid(Working.table)
         /\ requests' \in 0..MaxRequests
<1>1. requests + 1 \in Commits /\ requests + 1 # 0 /\ requests' \in 0..MaxRequests
  BY SetupAssumption DEF Typed, Request, Commits
<1> QED BY <1>1, WorkingTyped DEF Accepts, Reload, Apply, Intents, Reloads

LEMMA CommitKeeps ==
  ASSUME SetupInv, Commit
  PROVE  SetupInv'
<1> DEFINE e == Reload(Working, requests + 1)
<1>1. /\ e \in Intents /\ e.op = "reload" /\ e.id = requests + 1 /\ e.id # 0 /\ e.cfg = Working
      /\ pending = 0 /\ Valid(Working.table) /\ requests' \in 0..MaxRequests
  BY CommitTyped DEF SetupInv, Commit
<1>2. /\ queue' = Append(queue, e) /\ pending' = e.id /\ status' = "pending" /\ session' = NoSession
      /\ UNCHANGED <<flash, persisted, panel, saved>>
  BY <1>1 DEF Commit, Take
<1>3. queue \in Seq(Intents)
  BY DEF SetupInv, InLine, Line
<1> HIDE DEF e
<1>4. InLine'
  <2>1. Line(Append(queue, e), e.id, FALSE, "pending", saved)
    BY <1>1, CommitAppended DEF SetupInv, InLine
  <2> QED BY <1>2, <2>1 DEF InLine, NoSession
<1>5. SoundLine'
  BY <1>1, <1>2, <1>3, Appended DEF SetupInv, SoundLine, Saving
<1>6. Typed'
  BY <1>1, <1>2, NoSessionTyped DEF SetupInv, Typed
<1>7. StatusFits'
  BY <1>2 DEF StatusFits
<1> QED BY <1>2, <1>4, <1>5, <1>6, <1>7 DEF SetupInv

LEMMA HomekitApplyKeeps ==
  ASSUME SetupInv, HomekitApply
  PROVE  SetupInv'
<1> DEFINE e == Reload(Working, requests + 1)
           a == Apply(requests + 1)
           q == Append(queue, e)
<1>1. /\ e \in Intents /\ e.op = "reload" /\ e.id = requests + 1 /\ e.id # 0 /\ e.cfg = Working
      /\ a \in Intents /\ a.op = "apply" /\ a.id = e.id
      /\ pending = 0 /\ Valid(Working.table) /\ requests' \in 0..MaxRequests
  BY CommitTyped DEF SetupInv, HomekitApply
<1>2. queue \in Seq(Intents)
  BY DEF SetupInv, InLine, Line
<1>3. /\ queue' = queue \o <<e, a>> /\ pending' = e.id /\ status' = "pending" /\ session' = NoSession
      /\ UNCHANGED <<flash, persisted, panel, saved>>
  BY <1>1 DEF HomekitApply, Take
<1> HIDE DEF e, a
<1>4. queue' = Append(q, a)
  BY <1>1, <1>2, <1>3
<1>5. /\ q \in Seq(Intents) /\ Len(q) = Len(queue) + 1 /\ Len(queue) \in Nat /\ q[Len(q)] = e
      /\ \A i \in 1..Len(queue) : q[i] = queue[i]
  BY <1>1, <1>2, Appended
<1>6. Line(q, e.id, FALSE, "pending", saved)
  BY <1>1, CommitAppended DEF SetupInv, InLine
<1> HIDE DEF q
<1>7. InLine'
  <2>1. Len(q) > 0 /\ SavesFor(q, Len(q), a.id)
    BY <1>1, <1>5 DEF SavesFor, Saving
  <2>2. Line(Append(q, a), e.id, FALSE, "pending", saved)
    BY <1>1, <1>6, <2>1, ApplyAppended
  <2> QED BY <1>3, <1>4, <2>2 DEF InLine, NoSession
<1>8. SoundLine'
  <2>1. \A i \in 1..Len(q) : Saving(q, i) => Valid(q[i].cfg.table)
    BY <1>1, <1>5 DEF SetupInv, SoundLine, Saving
  <2> QED BY <1>1, <1>3, <1>4, <1>5, <2>1, Appended DEF SetupInv, SoundLine, Saving
<1>9. Typed'
  BY <1>1, <1>3, NoSessionTyped DEF SetupInv, Typed
<1>10. StatusFits'
  BY <1>3 DEF StatusFits
<1> QED BY <1>3, <1>7, <1>8, <1>9, <1>10 DEF SetupInv

\* A request that leaves only a quiet intent behind
LEMMA QuietKeeps ==
  ASSUME SetupInv, Request, NEW e \in {Start, Reboot}, queue' = Append(queue, e),
         UNCHANGED <<flash, persisted, draft, commit, saved>>
  PROVE  SetupInv'
<1>1. e \in Intents /\ e.op \in {"reboot", "start"}
  BY DEF Start, Reboot, Intents
<1>2. queue \in Seq(Intents)
  BY DEF SetupInv, InLine, Line
<1>3. InLine'
  BY <1>1, QuietAppended DEF SetupInv, InLine, draft, commit
<1>4. SoundLine'
  BY <1>1, <1>2, Appended DEF SetupInv, SoundLine, Saving
<1>5. Typed'
  BY RequestTyped DEF SetupInv, Typed, draft
<1> QED BY <1>3, <1>4, <1>5 DEF SetupInv, StatusFits, draft, commit

LEMMA ImportKeeps ==
  ASSUME SetupInv, NEW cfg \in Configs, Import(cfg)
  PROVE  SetupInv'
<1> DEFINE e == Reload(cfg, 0)
<1>1. e \in Intents /\ e.op = "reload" /\ e.id = 0 /\ e.cfg = cfg /\ Valid(cfg.table)
  BY DEF Reload, Intents, Reloads, Import
<1>2. queue \in Seq(Intents)
  BY DEF SetupInv, InLine, Line
<1>3. /\ queue' = Append(queue, e) /\ session' = Reopened(cfg) /\ panel' = cfg.panel
      /\ UNCHANGED <<flash, persisted, pending, status, saved>>
  BY DEF Import, ShowImport, commit
<1>4. session'.some = TRUE
  BY <1>3 DEF Reopened
<1> HIDE DEF e
<1>5. InLine'
  BY <1>1, <1>3, <1>4, ImportAppended DEF SetupInv, InLine
<1>6. SoundLine'
  BY <1>1, <1>2, <1>3, Appended DEF SetupInv, SoundLine, Saving
<1>7. Typed'
  BY <1>3, ReopenedTyped, RequestTyped DEF SetupInv, Typed, Import, Configs
<1> QED BY <1>3, <1>4, <1>5, <1>6, <1>7 DEF SetupInv, StatusFits
-----------------------------------------------------------------------------
(* The loop, the HAP thread and a restart keep it *)

\* What the loop takes from the line is an intent, with what it says.
LEMMA HeadTyped ==
  ASSUME SetupInv, queue # <<>>
  PROVE  /\ Head(queue) \in Intents
         /\ Head(queue).op = "reload" => Head(queue).cfg \in Configs /\ Valid(Head(queue).cfg.table)
<1>1. queue \in Seq(Intents)
  BY DEF SetupInv, InLine, Line
<1>2. Head(queue) = queue[1] /\ 1 \in 1..Len(queue) /\ queue[1] \in Intents
  BY <1>1, Shortened
<1>3. queue[1].op = "reload" => queue[1].cfg \in Configs
  BY <1>2 DEF Intents, Reloads
<1> QED BY <1>2, <1>3 DEF SetupInv, SoundLine, Saving

LEMMA TailSound ==
  ASSUME SetupInv, queue # <<>>, queue' = Tail(queue), Valid(flash'.table)
  PROVE  SoundLine'
<1>1. queue \in Seq(Intents)
  BY DEF SetupInv, InLine, Line
<1>2. \A i \in 1..Len(Tail(queue)) : i + 1 \in 1..Len(queue) /\ Tail(queue)[i] = queue[i + 1]
  BY <1>1, Shortened
<1> QED BY <1>2 DEF SetupInv, SoundLine, Saving

LEMMA SavesKeeps ==
  ASSUME SetupInv, Saves
  PROVE  SetupInv'
<1> DEFINE e == Head(queue)
<1>1. /\ queue # <<>> /\ e.op = "reload" /\ queue' = Tail(queue)
      /\ flash' = e.cfg /\ persisted' = e.cfg /\ saved' = saved \union ({e.id} \ {0})
      /\ UNCHANGED <<session, panel, requests>>
  BY DEF Saves, Handles, draft
<1>2. e.cfg \in Configs /\ Valid(e.cfg.table)
  BY <1>1, HeadTyped
<1>3. IF pending # 0 /\ e.id = pending
        THEN pending' = 0 /\ status' = "saved" ELSE pending' = pending /\ status' = status
  BY DEF Saves, Settles, commit
<1> HIDE DEF e
<1>4. SoundLine'
  BY <1>1, <1>2, TailSound
<1>5. Typed'
  BY <1>1, <1>2 DEF SetupInv, Typed
<1>6. StatusFits'
  BY <1>1, <1>3 DEF SetupInv, StatusFits
<1>7. InLine'
  <2>1. Line(queue, pending, session.some, status, saved)
    BY DEF SetupInv, InLine
  <2>2. CASE pending # 0 /\ e.id = pending
    <3>1. pending \in saved'
      BY <1>1, <2>2
    <3>2. Line(Tail(queue), 0, session.some, "saved", saved')
      <4>1. Head(queue).op = "reload" /\ Head(queue).id = pending /\ pending # 0
        BY <1>1, <2>2 DEF e
      <4>2. ASSUME NEW after, after = "saved"
            PROVE  Line(Tail(queue), 0, session.some, after, saved')
        BY <1>1, <2>1, <3>1, <4>1, CommitHandled
      <4> QED BY <4>2
    <3> QED BY <1>1, <1>3, <2>2, <3>2 DEF InLine
  <2>3. CASE ~(pending # 0 /\ e.id = pending)
    <3>1. saved \subseteq saved'
      BY <1>1
    <3>2. Line(Tail(queue), pending, session.some, status, saved')
      BY <1>1, <2>1, <2>3, <3>1, ImportHandled DEF e
    <3> QED BY <1>1, <1>3, <2>3, <3>2 DEF InLine
  <2> QED BY <2>2, <2>3
<1> QED BY <1>1, <1>4, <1>5, <1>6, <1>7 DEF SetupInv

LEMMA SaveFailsKeeps ==
  ASSUME SetupInv, SaveFails
  PROVE  SetupInv'
<1> DEFINE e == Head(queue)
<1>1. /\ queue # <<>> /\ e.op = "reload" /\ queue' = Tail(queue)
      /\ UNCHANGED <<flash, persisted, saved, requests>>
  BY DEF SaveFails, Handles
<1>2. e.cfg \in Configs
  BY <1>1, HeadTyped
<1>3. SoundLine'
  BY <1>1, TailSound DEF SetupInv, SoundLine
<1>4. Line(queue, pending, session.some, status, saved)
  BY DEF SetupInv, InLine
<1>5. CASE pending # 0 /\ e.id = pending
  <2>1. pending' = 0 /\ status' = "failed" /\ session' = Reopened(e.cfg) /\ panel' = e.cfg.panel
    BY <1>5 DEF SaveFails, Settles, PutBack
  <2>2. session'.some
    BY <1>2, <2>1, ReopenedTyped
  <2>3. Typed'
    BY <1>1, <1>2, <2>1, ReopenedTyped DEF SetupInv, Typed, Configs
  <2>4. InLine'
    <3>1. Line(Tail(queue), 0, session'.some, "failed", saved)
      BY <1>1, <1>4, <1>5, <2>2, CommitHandled DEF e
    <3> QED BY <1>1, <2>1, <3>1 DEF InLine
  <2> QED BY <1>1, <1>3, <2>1, <2>2, <2>3, <2>4 DEF SetupInv, StatusFits
<1>6. CASE ~(pending # 0 /\ e.id = pending)
  <2>1. UNCHANGED <<pending, status, session, panel>>
    BY <1>6 DEF SaveFails, Settles, commit, draft
  <2>2. InLine'
    <3>1. Line(Tail(queue), pending, session.some, status, saved)
      BY <1>1, <1>4, <1>6, ImportHandled DEF e
    <3> QED BY <1>1, <2>1, <3>1 DEF InLine
  <2> QED BY <1>1, <1>3, <2>1, <2>2 DEF SetupInv, StatusFits, Typed
<1> QED BY <1>5, <1>6

\* The loop handles a HomeKit intent.
LEMMA HandledKeeps ==
  ASSUME SetupInv, queue # <<>>, Head(queue).op # "reload", queue' = Tail(queue),
         UNCHANGED <<flash, persisted, draft, commit, saved, requests>>
  PROVE  SetupInv'
<1>1. SoundLine'
  BY TailSound DEF SetupInv, SoundLine
<1>2. InLine'
  BY QuietHandled DEF SetupInv, InLine, draft, commit
<1> QED BY <1>1, <1>2 DEF SetupInv, StatusFits, Typed, draft, commit

LEMMA BootKeeps ==
  ASSUME SetupInv, NEW cfg \in Configs, Valid(cfg.table), Boot(cfg), requests' \in 0..MaxRequests
  PROVE  SetupInv'
<1>1. /\ flash' = cfg /\ persisted' = cfg /\ panel' = DefaultPanel /\ session' = NoSession
      /\ pending' = 0 /\ status' = "idle" /\ queue' = <<>>
  BY DEF Boot
<1>2. Typed'
  BY <1>1, NoSessionTyped, SetupAssumption DEF Typed
<1>3. InLine'
  BY <1>1, EmptyLine DEF InLine
<1> QED BY <1>1, <1>2, <1>3 DEF SetupInv, StatusFits, SoundLine

LEMMA PowerFailsKeeps ==
  ASSUME SetupInv, PowerFails
  PROVE  SetupInv'
<1>1. requests' \in 0..MaxRequests
  BY RequestTyped DEF SetupInv, PowerFails
<1>2. CASE Boot(flash)
  BY <1>1, <1>2, BootKeeps DEF SetupInv, Typed, SoundLine
<1>3. CASE queue # <<>> /\ Head(queue).op = "reload" /\ Boot(Head(queue).cfg)
  BY <1>1, <1>3, HeadTyped, BootKeeps
<1> QED BY <1>2, <1>3 DEF PowerFails

LEMMA NextKeeps == SetupInv /\ [Next]_vars => SetupInv'
<1> SUFFICES ASSUME SetupInv, [Next]_vars PROVE SetupInv'
  OBVIOUS
<1>1. CASE EditDetectors
  BY <1>1, EditKeeps, ExcludeKeeps DEF EditDetectors
<1>2. CASE \E p \in Panels : SelectPanel(p)
  BY <1>2, SelectKeeps
<1>3. CASE Commit
  BY <1>3, CommitKeeps
<1>4. CASE HomekitApply
  BY <1>4, HomekitApplyKeeps
<1>5. CASE TurnOnHomekit
  BY <1>5, QuietKeeps DEF TurnOnHomekit
<1>6. CASE RequestReboot
  BY <1>6, QuietKeeps DEF RequestReboot
<1>7. CASE \E cfg \in Configs : Import(cfg)
  BY <1>7, ImportKeeps
<1>8. CASE Saves
  BY <1>8, SavesKeeps
<1>9. CASE SaveFails
  BY <1>9, SaveFailsKeeps
<1>10. CASE StartHomekit
  BY <1>10, HandledKeeps DEF StartHomekit, Handles
<1>11. CASE ApplyHomekit
  BY <1>11, HandledKeeps DEF ApplyHomekit, Handles
<1>12. CASE Reboots
  BY <1>12, BootKeeps DEF Reboots, SetupInv, Typed, SoundLine
<1>13. CASE \E S \in SUBSET Detectors, p \in Panels : \E G \in SUBSET S : Seed(S, G, p)
  BY <1>13, SeedKeeps
<1>14. CASE Reconcile
  BY <1>14 DEF Reconcile, SetupInv, Typed, StatusFits, SoundLine, InLine, draft, commit
<1>15. CASE PowerFails
  BY <1>15, PowerFailsKeeps
<1>16. CASE UNCHANGED vars
  BY <1>16 DEF vars, draft, commit, SetupInv, Typed, StatusFits, SoundLine, InLine
<1> QED
  BY <1>1, <1>2, <1>3, <1>4, <1>5, <1>6, <1>7, <1>8, <1>9, <1>10, <1>11, <1>12, <1>13, <1>14,
     <1>15, <1>16 DEF Next, Handler, Loop

LEMMA AlwaysInv == Spec => []SetupInv
  BY InitInv, NextKeeps, PTL DEF Spec
-----------------------------------------------------------------------------
(* Theorems *)

LEMMA InvKeepsSelection == SetupInv => SelectionSurvives
<1> SUFFICES ASSUME SetupInv, pending # 0 PROVE Queued(pending)
  BY DEF SelectionSurvives, SetupInv, StatusFits
<1> QED BY DEF SetupInv, InLine, Line, OnePending, SavesFor, Saving, Queued

\* A commit takes the selection out of the session; until it is written it is
\* queued, and when saving fails it is in a session again (take_commit_config,
\* finish_commit).
THEOREM SelectionKept == Spec => []SelectionSurvives
  BY AlwaysInv, InvKeepsSelection, PTL

LEMMA InvIsValid == SetupInv => SavedIsValid
  BY DEF SetupInv, SoundLine, SavedIsValid

\* What reaches the flash has passed the validation, however many edits, scans
\* and imports lie between the validation and the write.
THEOREM FlashIsValid == Spec => []SavedIsValid
  BY AlwaysInv, InvIsValid, PTL

\* Without a session and a commit nothing at all is on its way to the flash.
LEMMA NothingUnderway ==
  ASSUME SetupInv, pending = 0, ~session.some
  PROVE  flash.table = Working.table /\ \A id \in Commits \union {0} : ~Queued(id)
<1>1. flash.table = Working.table
  BY DEF SetupInv, Working
<1>2. \A i \in 1..Len(queue) : ~Saving(queue, i)
  BY DEF SetupInv, InLine, Line, Covered
<1> QED BY <1>1, <1>2 DEF Queued, Saving

\* Only RequestReboot puts a reboot into the line.
LEMMA WhoReboots ==
  ASSUME SetupInv, [Next]_vars, queue' = Append(queue, Reboot), requests' # requests
  PROVE  RequestReboot
<1>1. queue \in Seq(Intents) /\ Reboot \in Intents
  BY DEF SetupInv, InLine, Line, Reboot, Intents
<1>2. /\ queue' \in Seq(Intents) /\ Len(queue) \in Nat /\ Len(queue') = Len(queue) + 1
      /\ queue'[Len(queue) + 1] = Reboot
  BY <1>1, Appended
<1>3. queue' # queue
  BY <1>2
<1>4. ASSUME queue # <<>>, queue' = Tail(queue) PROVE FALSE
  BY <1>1, <1>2, <1>4, Shortened
<1>5. queue' # <<>>
  BY <1>2
<1>6. ASSUME NEW e \in Intents, queue' = Append(queue, e) PROVE e = Reboot
  BY <1>1, <1>2, <1>6, Appended
<1>7. ~Commit
  <2>1. ASSUME Commit PROVE FALSE
    <3>1. Reload(Working, requests + 1) \in Intents /\ Reload(Working, requests + 1).op = "reload"
      BY <2>1, CommitTyped DEF Commit, SetupInv
    <3>2. Reload(Working, requests + 1) = Reboot
      BY <2>1, <3>1, <1>6 DEF Commit
    <3> QED BY <3>1, <3>2 DEF Reboot
  <2> QED BY <2>1
<1>8. ~HomekitApply
  <2>1. ASSUME HomekitApply PROVE FALSE
    <3>1. /\ Reload(Working, requests + 1) \in Intents /\ Apply(requests + 1) \in Intents
      BY <2>1, CommitTyped DEF HomekitApply, SetupInv
    <3>2. queue' = queue \o <<Reload(Working, requests + 1), Apply(requests + 1)>>
      BY <2>1 DEF HomekitApply
    <3> QED BY <1>1, <1>2, <3>1, <3>2
  <2> QED BY <2>1
<1>9. ~TurnOnHomekit
  <2>1. Start \in Intents /\ Start # Reboot
    BY DEF Start, Reboot, Intents
  <2> QED BY <2>1, <1>6 DEF TurnOnHomekit
<1>10. ASSUME NEW cfg \in Configs PROVE ~Import(cfg)
  <2>1. Reload(cfg, 0) \in Intents /\ Reload(cfg, 0).op = "reload"
    BY DEF Reload, Intents, Reloads
  <2>2. Reload(cfg, 0) # Reboot
    BY <2>1 DEF Reboot
  <2> QED BY <2>1, <2>2, <1>6 DEF Import
<1>11. ~(Saves \/ SaveFails \/ StartHomekit \/ ApplyHomekit)
  BY <1>4 DEF Saves, SaveFails, StartHomekit, ApplyHomekit, Handles
<1>12. ~(Reboots \/ PowerFails)
  BY <1>5 DEF Reboots, PowerFails, Boot
<1>13. ~(EditDetectors \/ Reconcile \/ UNCHANGED vars)
  BY <1>3 DEF EditDetectors, Edit, Exclude, Reconcile, vars
<1>14. ~(\E p \in Panels : SelectPanel(p))
  BY <1>3 DEF SelectPanel
<1>15. ~(\E S \in SUBSET Detectors, p \in Panels : \E G \in SUBSET S : Seed(S, G, p))
  BY <1>3 DEF Seed
<1> QED
  BY <1>7, <1>8, <1>9, <1>10, <1>11, <1>12, <1>13, <1>14, <1>15 DEF Next, Handler, Loop

\* A reboot is granted only when the detectors shown are the saved ones and
\* nothing queued can change them (post_reboot).
THEOREM RebootAllowed == Spec => RebootIsSafe
<1>1. SetupInv /\ [Next]_vars => [GrantedWhenSaved]_vars
  <2> SUFFICES ASSUME SetupInv, [Next]_vars, queue' = Append(queue, Reboot), requests' # requests
               PROVE  flash.table = Working.table /\ \A id \in Commits \union {0} : ~Queued(id)
    BY DEF GrantedWhenSaved
  <2>1. RequestReboot
    BY WhoReboots
  <2> QED BY <2>1, NothingUnderway DEF RequestReboot
<1> QED BY <1>1, AlwaysInv, PTL DEF Spec, RebootIsSafe

\* status turns to "saved" only in the step that writes the configuration the
\* pending commit had put into the line (finish_commit).
THEOREM CommitReported == Spec => SavedMeansWritten
<1>1. [Next]_vars => [SettledByItsWrite]_vars
  <2> SUFFICES ASSUME [Next]_vars, status = "pending", status' = "saved"
               PROVE  Head(queue).id = pending /\ flash' = Head(queue).cfg
    BY DEF SettledByItsWrite
  <2>1. Saves
    BY DEF Next, Handler, Loop, EditDetectors, Edit, Exclude, SelectPanel, Commit, HomekitApply, Take,
           TurnOnHomekit, RequestReboot, Import, SaveFails, StartHomekit, ApplyHomekit, Reboots, Boot,
           Seed, Reconcile, PowerFails, vars, draft, commit
  <2>2. status' # status
    OBVIOUS
  <2> QED BY <2>1, <2>2 DEF Saves, Settles, commit
<1> QED BY <1>1, PTL DEF Spec, SavedMeansWritten

\* HomeKit is told to follow a commit only when that commit has been written,
\* although its step waits in the line and reads a status that any commit sets
\* (Intent::ApplyHomekit).
THEOREM HomekitFollows == Spec => ApplyFollowsSave
<1>1. SetupInv /\ [Next]_vars => [ReconciledAfterSave]_vars
  <2> SUFFICES ASSUME SetupInv, [Next]_vars, ~reconcile, reconcile'
               PROVE  Head(queue).id \in saved
    BY DEF ReconciledAfterSave
  <2>1. ApplyHomekit
    BY DEF Next, Handler, Loop, EditDetectors, Edit, Exclude, SelectPanel, Commit, HomekitApply,
           TurnOnHomekit, RequestReboot, Import, Saves, SaveFails, StartHomekit, HapStarts, Reboots,
           Boot, Seed, Reconcile, PowerFails, vars, hap
  <2>2. queue # <<>> /\ Head(queue).op = "apply" /\ status = "saved"
    BY <2>1 DEF ApplyHomekit, Handles, hap
  <2>3. queue \in Seq(Intents)
    BY DEF SetupInv, InLine, Line
  <2>4. Head(queue) = queue[1] /\ 1 \in 1..Len(queue)
    BY <2>2, <2>3, Shortened
  <2> QED BY <2>2, <2>4 DEF SetupInv, InLine, Line, Behind
<1> QED BY <1>1, AlwaysInv, PTL DEF Spec, ApplyFollowsSave

-----------------------------------------------------------------------------
(* Types, and the accessories of HomeKit *)

\* Among the numbers of a finite set there is a largest.
LEMMA Last ==
  ASSUME NEW T \in SUBSET Detectors, T # {}
  PROVE  \E last \in T : \A d \in T : d <= last
<1> DEFINE upTo(d) == {e \in T : e <= d}
           left(d) == Cardinality(T \ upTo(d))
           rest    == {left(d) : d \in T}
<1>0. \A d \in T : d \in Nat
  BY SetupAssumption
<1>1. \A d \in T : IsFiniteSet(T \ upTo(d)) /\ left(d) \in Nat
  BY SetupAssumption, FS_Subset, FS_CardinalityType
<1>2. PICK n \in rest : \A m \in rest : ~(<<m, n>> \in OpToRel(<, Nat))
  <2>1. rest \subseteq Nat /\ rest # {}
    <3> HIDE DEF left
    <3> QED BY <1>1
  <2> HIDE DEF rest
  <2> QED BY <2>1, NatLessThanWellFounded, WFMin
<1>3. PICK last \in T : n = left(last)
  OBVIOUS
<1>4. ASSUME NEW d \in T, ~(d <= last)
      PROVE  FALSE
  <2>1. T \ upTo(d) \in SUBSET (T \ upTo(last)) /\ d \in T \ upTo(last) /\ d \notin T \ upTo(d)
    <3>1. \A e \in T : e <= last => e <= d
      BY <1>0, <1>4
    <3>2. d <= d
      BY <1>0
    <3> QED BY <1>4, <3>1, <3>2
  <2>2. left(d) < left(last)
    <3> DEFINE A == T \ upTo(d)
               B == T \ upTo(last)
    <3>1. IsFiniteSet(B) /\ A \in SUBSET B /\ A # B
      BY <1>1, <2>1
    <3> HIDE DEF A, B
    <3>2. Cardinality(A) < Cardinality(B)
      BY <3>1, FS_Subset, FS_CardinalityType
    <3> QED BY <3>2 DEF A, B
  <2>3. left(d) \in rest /\ left(d) \in Nat /\ left(last) \in Nat
    BY <1>1
  <2>4. <<left(d), n>> \in OpToRel(<, Nat)
    <3> HIDE DEF left
    <3> QED BY <1>3, <2>2, <2>3 DEF OpToRel
  <2> QED BY <1>2, <2>3, <2>4
<1> QED BY <1>4

\* HomeKit keeps what it has and takes new detectors only while there is room.
LEMMA AddedFits ==
  ASSUME NEW kept \in SUBSET Detectors, NEW want \in SUBSET Detectors,
         Cardinality(kept) <= MaxAccessories
  PROVE  Added(kept, want) \in SUBSET Detectors /\ Cardinality(Added(kept, want)) <= MaxAccessories
<1> DEFINE new   == want \ kept
           room  == MaxAccessories - Cardinality(kept)
           upTo(d) == {e \in new : e <= d}
           taken == {d \in new : Cardinality(upTo(d)) <= room}
<1>1. Added(kept, want) = kept \union taken
  BY DEF Added
<1>2. /\ IsFiniteSet(kept) /\ Cardinality(kept) \in Nat /\ MaxAccessories \in Nat
      /\ room \in Nat /\ Cardinality(kept) + room = MaxAccessories
  <2>1. IsFiniteSet(kept) /\ Cardinality(kept) \in Nat
    BY SetupAssumption, FS_Subset, FS_CardinalityType
  <2> QED BY <2>1, SetupAssumption
<1>3. new \in SUBSET Detectors /\ taken \in SUBSET new /\ kept \cap taken = {}
  OBVIOUS
<1>4. IsFiniteSet(taken) /\ Cardinality(taken) <= room /\ Cardinality(taken) \in Nat
  <2>1. CASE taken = {}
    <3> HIDE DEF taken, room
    <3> QED BY <1>2, <2>1, FS_EmptySet
  <2>2. CASE taken # {}
    <3>1. PICK last \in taken : \A d \in taken : d <= last
      <4>1. taken \in SUBSET Detectors
        BY <1>3
      <4> HIDE DEF taken
      <4> QED BY <2>2, <4>1, Last
    <3>2. taken \in SUBSET upTo(last) /\ Cardinality(upTo(last)) <= room
      BY <3>1
    <3>3. IsFiniteSet(upTo(last))
      <4>1. upTo(last) \in SUBSET Detectors
        BY <1>3
      <4> HIDE DEF upTo
      <4> QED BY <4>1, SetupAssumption, FS_Subset
    <3> HIDE DEF taken, upTo, room
    <3>4. IsFiniteSet(taken) /\ Cardinality(taken) <= Cardinality(upTo(last))
      BY <3>2, <3>3, FS_Subset
    <3>5. Cardinality(taken) \in Nat /\ Cardinality(upTo(last)) \in Nat
      BY <3>3, <3>4, FS_CardinalityType
    <3> QED BY <1>2, <3>2, <3>4, <3>5
  <2> QED BY <2>1, <2>2
<1> HIDE DEF taken, room
<1>5. Cardinality(kept \union taken) = Cardinality(kept) + Cardinality(taken) - Cardinality(kept \cap taken)
  BY <1>2, <1>4, FS_Union
<1>6. Cardinality(kept \cap taken) = 0
  BY <1>3, FS_EmptySet
<1> QED BY <1>1, <1>2, <1>3, <1>4, <1>5, <1>6

\* The rest of what TypeOK says
HapFits ==
  /\ reconcile \in BOOLEAN /\ started \in BOOLEAN
  /\ accessories \in SUBSET Detectors /\ Cardinality(accessories) <= MaxAccessories

Counted ==
  /\ pending \in Commits \union {0} /\ status \in Statuses
  /\ saved \subseteq Commits

Rest == HapFits /\ Counted

LEMMA NoneFits == {} \in SUBSET Detectors /\ Cardinality({}) <= MaxAccessories
  BY FS_EmptySet, SetupAssumption

LEMMA ShownTyped == \A table : Shown(table) \in SUBSET Detectors
  BY DEF Shown

LEMMA HapStartsFits ==
  ASSUME HapFits, HapStarts
  PROVE  started' \in BOOLEAN /\ accessories' \in SUBSET Detectors
         /\ Cardinality(accessories') <= MaxAccessories
  BY NoneFits, ShownTyped, AddedFits DEF HapFits, HapStarts

LEMMA BootRest ==
  ASSUME Rest, NEW cfg \in Configs, Boot(cfg)
  PROVE  Rest'
<1>1. accessories' \in SUBSET Detectors /\ Cardinality(accessories') <= MaxAccessories
  BY NoneFits, ShownTyped, AddedFits DEF Boot
<1> QED BY <1>1 DEF Boot, Rest, HapFits, Counted, Statuses

LEMMA NextRest == SetupInv /\ Rest /\ [Next]_vars => Rest'
<1> SUFFICES ASSUME SetupInv, Rest, [Next]_vars PROVE Rest'
  OBVIOUS
<1>1. ASSUME UNCHANGED <<commit, hap, saved>> PROVE Rest'
  BY <1>1 DEF Rest, HapFits, Counted, commit, hap
<1>2. CASE EditDetectors \/ TurnOnHomekit \/ RequestReboot
  BY <1>1, <1>2 DEF EditDetectors, Edit, Exclude, TurnOnHomekit, RequestReboot
<1>3. ASSUME NEW p, SelectPanel(p) PROVE Rest'
  BY <1>1, <1>3 DEF SelectPanel
<1>4. ASSUME NEW cfg, Import(cfg) PROVE Rest'
  BY <1>1, <1>4 DEF Import
<1>5. ASSUME NEW S, NEW G, NEW p, Seed(S, G, p) PROVE Rest'
  BY <1>1, <1>5 DEF Seed
<1>6. CASE Commit \/ HomekitApply
  <2>1. requests + 1 \in Commits
    BY <1>6, SetupAssumption DEF SetupInv, Typed, Commit, HomekitApply, Request, Commits
  <2> QED BY <1>6, <2>1 DEF Commit, HomekitApply, Take, Rest, HapFits, Counted, Statuses, hap
<1>7. CASE Saves
  <2>1. Head(queue).id \in Commits \union {0}
    BY <1>7, HeadTyped DEF Saves, Handles, Intents, Reloads
  <2> QED BY <1>7, <2>1 DEF Saves, Rest, HapFits, Counted, Statuses, hap, commit
<1>8. CASE SaveFails
  BY <1>8 DEF SaveFails, Rest, HapFits, Counted, Statuses, hap, commit
<1>9. CASE StartHomekit \/ ApplyHomekit
  BY <1>9, HapStartsFits DEF StartHomekit, ApplyHomekit, Rest, HapFits, Counted, hap, commit
<1>10. CASE Reboots
  BY <1>10, BootRest DEF Reboots, SetupInv, Typed
<1>11. CASE PowerFails
  <2>1. queue # <<>> /\ Head(queue).op = "reload" => Head(queue).cfg \in Configs
    BY HeadTyped DEF SetupInv
  <2> QED BY <1>11, <2>1, BootRest DEF PowerFails, SetupInv, Typed
<1>12. CASE Reconcile
  <2> DEFINE want == Shown(Working.table)
  <2>1. accessories \intersect want \in SUBSET Detectors /\ want \in SUBSET Detectors
        /\ Cardinality(accessories \intersect want) <= MaxAccessories
    <3>1. want \in SUBSET Detectors /\ IsFiniteSet(accessories)
      BY ShownTyped, FS_Subset, SetupAssumption DEF Rest, HapFits
    <3> HIDE DEF want
    <3>2. /\ Cardinality(accessories \intersect want) <= Cardinality(accessories)
          /\ Cardinality(accessories \intersect want) \in Nat /\ Cardinality(accessories) \in Nat
      BY <3>1, FS_Subset, FS_CardinalityType
    <3> QED BY <3>1, <3>2, SetupAssumption DEF Rest, HapFits
  <2>2. accessories' \in {Added(accessories \intersect want, want), accessories}
    BY <1>12 DEF Reconcile
  <2> HIDE DEF want
  <2>3. accessories' \in SUBSET Detectors /\ Cardinality(accessories') <= MaxAccessories
    BY <2>1, <2>2, AddedFits DEF Rest, HapFits
  <2> QED BY <1>12, <2>3 DEF Reconcile, Rest, HapFits, Counted, commit
<1>13. CASE UNCHANGED vars
  BY <1>1, <1>13 DEF vars
<1> QED BY <1>2, <1>3, <1>4, <1>5, <1>6, <1>7, <1>8, <1>9, <1>10, <1>11, <1>12, <1>13
        DEF Next, Handler, Loop

\* The setup keeps its types, and HomeKit never bridges more detectors than the
\* accessory has services for, whatever is marked (homekit.rs, start and the
\* reconciliation).
THEOREM TypeCorrect == Spec => []TypeOK
<1>1. Init => Rest
  BY NoneFits DEF Init, Rest, HapFits, Counted, Statuses
<1>2. SetupInv /\ Rest => TypeOK
  BY DEF SetupInv, Typed, StatusFits, InLine, Line, Intents, Reloads, Rest, HapFits, Counted, TypeOK
<1> QED BY AlwaysInv, NextRest, <1>1, <1>2, PTL DEF Spec
=============================================================================
