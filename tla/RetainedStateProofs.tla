------------------------- MODULE RetainedStateProofs -------------------------
(***************************************************************************)
(* Theorems about RetainedState, for any detection areas and sensors, any  *)
(* budget of a pass and any number of dropped publications: what the       *)
(* broker retains is what the core knows, or the sink still owes it.       *)
(*                                                                         *)
(* A message is owed as long as the setup batch has its place in the view  *)
(* before it, or a whole view is due.  The places move while a batch is    *)
(* under way, so the invariant speaks of them and not of the messages.     *)
(***************************************************************************)
EXTENDS RetainedState, FiniteSetTheorems, TLAPS

Values == {"unseen", "ON", "OFF"}

Typed ==
  /\ cursor \in Nat
  /\ resub \in {"idle", "flagged", "wiped"}
  /\ bypassed \in [ToSet(Zones) -> Values]
  /\ sensor \in [ToSet(Sensors) -> Values]

\* A hiplex panel has no bypass readback.
NoZones == hiplex => \A z \in ToSet(Zones) : bypassed[z] = "unseen"

-----------------------------------------------------------------------------
(* Places in the view *)

ShownUpTo(table, i) == {j \in 1..i : table[Zones[j]] # "unseen"}

LEMMA Listed ==
  /\ Len(Zones) \in Nat /\ \A i \in 1..Len(Zones) : Zones[i] \in ToSet(Zones)
  /\ Len(Sensors) \in Nat /\ \A i \in 1..Len(Sensors) : Sensors[i] \in ToSet(Sensors)
  BY RetainedAssumption

LEMMA CountFits ==
  ASSUME NEW table, NEW i \in Nat
  PROVE  /\ IsFiniteSet(ShownUpTo(table, i)) /\ Cardinality(ShownUpTo(table, i)) \in Nat
         /\ \A j \in 1..i : table[Zones[j]] # "unseen" => Cardinality(ShownUpTo(table, i)) >= 1
<1>1. IsFiniteSet(1..i) /\ ShownUpTo(table, i) \in SUBSET (1..i)
  BY FS_Interval DEF ShownUpTo
<1>2. IsFiniteSet(ShownUpTo(table, i)) /\ Cardinality(ShownUpTo(table, i)) \in Nat
  BY <1>1, FS_Subset, FS_CardinalityType
<1>3. ASSUME NEW j \in 1..i, table[Zones[j]] # "unseen" PROVE Cardinality(ShownUpTo(table, i)) >= 1
  <2>1. ShownUpTo(table, i) # {}
    BY <1>3 DEF ShownUpTo
  <2>2. Cardinality(ShownUpTo(table, i)) # 0
    BY <1>2, <2>1, FS_EmptySet
  <2> QED BY <1>2, <2>2
<1> QED BY <1>2, <1>3

\* More areas shown, or more places looked at, make a count no smaller.
LEMMA CountGrows ==
  ASSUME NEW table, NEW after, NEW i \in Nat, NEW k \in Nat, i <= k,
         \A j \in 1..i : table[Zones[j]] # "unseen" => after[Zones[j]] # "unseen"
  PROVE  Cardinality(ShownUpTo(table, i)) <= Cardinality(ShownUpTo(after, k))
<1>1. ShownUpTo(table, i) \in SUBSET ShownUpTo(after, k)
  BY DEF ShownUpTo
<1> QED BY <1>1, CountFits, FS_Subset

LEMMA Places ==
  /\ ViewLength \in Nat /\ ViewLength >= 2 /\ ReadyCount \in {0, 1}
  /\ ready # "unseen" => ViewLength >= 3
  /\ \A i \in 1..Len(Zones) :
       bypassed[Zones[i]] # "unseen" => ZonePlace(i) \in 3..ViewLength
  /\ \A i \in 1..Len(Sensors) :
       SensorPlace(i) \in 4..ViewLength /\ SensorPlace(i) - 1 \in 3..ViewLength
<1>1. \A i \in 1..Len(Zones) : i \in Nat /\ i <= Len(Zones)
  BY Listed
<1>2. /\ ZoneCount(Len(Zones)) \in Nat
      /\ \A i \in 1..Len(Zones) : /\ ZoneCount(i) \in Nat
                                  /\ ZoneCount(i) <= ZoneCount(Len(Zones))
                                  /\ bypassed[Zones[i]] # "unseen" => ZoneCount(i) >= 1
  <2>1. ZoneCount(Len(Zones)) \in Nat
    BY Listed, CountFits DEF ZoneCount, ShownUpTo
  <2> SUFFICES ASSUME NEW i \in 1..Len(Zones)
               PROVE  /\ ZoneCount(i) \in Nat /\ ZoneCount(i) <= ZoneCount(Len(Zones))
                      /\ bypassed[Zones[i]] # "unseen" => ZoneCount(i) >= 1
    BY <2>1
  <2>2. i \in 1..i
    BY <1>1
  <2>3. Cardinality(ShownUpTo(bypassed, i)) <= Cardinality(ShownUpTo(bypassed, Len(Zones)))
    BY <1>1, Listed, CountGrows
  <2> QED BY <1>1, <2>2, <2>3, CountFits DEF ZoneCount, ShownUpTo
<1>3. ReadyCount \in {0, 1} /\ (ready # "unseen" => ReadyCount = 1)
  BY DEF ReadyCount
<1>4. Len(Sensors) \in Nat
  BY Listed
<1> DEFINE r == ReadyCount
           all == ZoneCount(Len(Zones))
           n == Len(Sensors)
<1> HIDE DEF r, all, n
<1>5. r \in {0, 1} /\ all \in Nat /\ n \in Nat /\ (ready # "unseen" => r = 1)
  BY <1>2, <1>3, <1>4 DEF r, all, n
<1>6. ViewLength = 2 + r + all + 2 * n
  BY DEF ViewLength, SensorPlace, r, all, n
<1>7. ASSUME NEW i \in 1..Len(Zones), bypassed[Zones[i]] # "unseen"
      PROVE  ZonePlace(i) \in 3..ViewLength
  <2>1. ZoneCount(i) \in Nat /\ ZoneCount(i) <= all /\ ZoneCount(i) >= 1
    BY <1>2, <1>7 DEF all
  <2>2. ZonePlace(i) = 2 + r + ZoneCount(i)
    BY DEF ZonePlace, r
  <2> QED BY <1>5, <1>6, <2>1, <2>2
<1>8. ASSUME NEW i \in 1..n
      PROVE  SensorPlace(i) \in 4..ViewLength /\ SensorPlace(i) - 1 \in 3..ViewLength
  <2>1. SensorPlace(i) = 2 + r + all + 2 * i
    BY DEF SensorPlace, r, all
  <2> QED BY <1>5, <1>6, <2>1
<1>9. ViewLength \in Nat /\ ViewLength >= 2 /\ (r = 1 => ViewLength >= 3)
  BY <1>5, <1>6
<1> QED BY <1>5, <1>7, <1>8, <1>9 DEF r, n

-----------------------------------------------------------------------------
(* What a publication does to the topic under observation *)

LEMMA Told ==
  ASSUME NEW N, NEW v, \A m \in N : m.topic = watched => m.value = v
  PROVE  /\ Stored(N) = v \/ (Stored(N) = retained /\ \A m \in N : m.topic # watched)
         /\ (\E m \in N : m.topic = watched) => Stored(N) = v
  BY DEF Stored

LEMMA Untold ==
  ASSUME NEW N, \A m \in N : m.topic # watched
  PROVE  Stored(N) = retained
  BY DEF Stored

LinkValue     == IF online /\ heard THEN "online" ELSE "offline"
ReachValue(s) == IF sensor[s] = "unseen" THEN "offline" ELSE "online"
StateValue(s) == IF sensor[s] = "unseen" THEN "unknown" ELSE sensor[s]

\* What the view says of a topic.
Says(topic, value) ==
  /\ topic = <<"availability", "">> => value = LinkValue
  /\ topic = <<"state", "">> => value = armState
  /\ topic = <<"ready", "">> => value = ready
  /\ \A z : topic = <<"bypassed", z>> => value = bypassed[z]
  /\ \A s : topic = <<"reachable", s>> => value = ReachValue(s)
  /\ \A s : topic = <<"sensor", s>> => value = StateValue(s)

\* A message of the view is one of these.
LEMMA ViewMembers ==
  ASSUME NEW m \in View
  PROVE  \/ m = At(1, "availability", "", LinkValue)
         \/ m = At(2, "state", "", armState)
         \/ m = At(3, "ready", "", ready)
         \/ \E i \in 1..Len(Zones) : m = At(ZonePlace(i), "bypassed", Zones[i], bypassed[Zones[i]])
         \/ \E i \in 1..Len(Sensors) :
              m = At(SensorPlace(i) - 1, "reachable", Sensors[i], ReachValue(Sensors[i]))
         \/ \E i \in 1..Len(Sensors) :
              m = At(SensorPlace(i), "sensor", Sensors[i], StateValue(Sensors[i]))
  BY DEF View, ReadyView, LinkValue, ReachValue, StateValue

LEMMA ViewSays ==
  ASSUME NEW m \in View
  PROVE  Says(m.topic, m.value)
<1>2. /\ Says(<<"availability", "">>, LinkValue) /\ Says(<<"state", "">>, armState)
      /\ Says(<<"ready", "">>, ready)
  BY DEF Says
<1>3. \A x : /\ Says(<<"bypassed", x>>, bypassed[x]) /\ Says(<<"reachable", x>>, ReachValue(x))
             /\ Says(<<"sensor", x>>, StateValue(x))
  BY DEF Says
<1>4. CASE m = At(1, "availability", "", LinkValue)
  <2>1. m.topic = <<"availability", "">> /\ m.value = LinkValue
    BY <1>4 DEF At
  <2> QED BY <1>2, <2>1, Zenon
<1>5. CASE m = At(2, "state", "", armState)
  <2>1. m.topic = <<"state", "">> /\ m.value = armState
    BY <1>5 DEF At
  <2> QED BY <1>2, <2>1, Zenon
<1>6. CASE m = At(3, "ready", "", ready)
  <2>1. m.topic = <<"ready", "">> /\ m.value = ready
    BY <1>6 DEF At
  <2> QED BY <1>2, <2>1, Zenon
<1>7. ASSUME NEW p, NEW x, m = At(p, "bypassed", x, bypassed[x]) PROVE Says(m.topic, m.value)
  <2>1. m.topic = <<"bypassed", x>> /\ m.value = bypassed[x]
    BY <1>7 DEF At
  <2> QED BY <1>3, <2>1, Zenon
<1>8. ASSUME NEW p, NEW x, m = At(p, "reachable", x, ReachValue(x)) PROVE Says(m.topic, m.value)
  <2>1. m.topic = <<"reachable", x>> /\ m.value = ReachValue(x)
    BY <1>8 DEF At
  <2> QED BY <1>3, <2>1, Zenon
<1>9. ASSUME NEW p, NEW x, m = At(p, "sensor", x, StateValue(x)) PROVE Says(m.topic, m.value)
  <2>1. m.topic = <<"sensor", x>> /\ m.value = StateValue(x)
    BY <1>9 DEF At
  <2> QED BY <1>3, <2>1, Zenon
<1> QED BY <1>4, <1>5, <1>6, <1>7, <1>8, <1>9, ViewMembers

Has(place, topic) == \E m \in View : m.place = place /\ m.topic = topic

LEMMA ViewHas ==
  /\ Has(1, <<"availability", "">>) /\ Has(2, <<"state", "">>)
  /\ ready # "unseen" => Has(3, <<"ready", "">>)
  /\ \A i \in 1..Len(Zones) :
       bypassed[Zones[i]] # "unseen" => Has(ZonePlace(i), <<"bypassed", Zones[i]>>)
  /\ \A i \in 1..Len(Sensors) :
       /\ Has(SensorPlace(i) - 1, <<"reachable", Sensors[i]>>)
       /\ Has(SensorPlace(i), <<"sensor", Sensors[i]>>)
<1>1. \A p, t, n, v : At(p, t, n, v) \in View => Has(p, <<t, n>>)
  <2>1. \A p, t, n, v : At(p, t, n, v).place = p /\ At(p, t, n, v).topic = <<t, n>>
    BY DEF At
  <2> QED BY <2>1 DEF Has
<1>2. At(1, "availability", "", LinkValue) \in View
  BY DEF View, LinkValue
<1>3. At(2, "state", "", armState) \in View
  BY DEF View
<1>4. ready # "unseen" => At(3, "ready", "", ready) \in View
  BY DEF View, ReadyView
<1>5. \A i \in 1..Len(Zones) : bypassed[Zones[i]] # "unseen" =>
        At(ZonePlace(i), "bypassed", Zones[i], bypassed[Zones[i]]) \in View
  BY DEF View
<1>6. \A i \in 1..Len(Sensors) :
        /\ At(SensorPlace(i) - 1, "reachable", Sensors[i], ReachValue(Sensors[i])) \in View
        /\ At(SensorPlace(i), "sensor", Sensors[i], StateValue(Sensors[i])) \in View
  BY DEF View, ReachValue, StateValue
<1> QED BY <1>1, <1>2, <1>3, <1>4, <1>5, <1>6

-----------------------------------------------------------------------------
(* The inductive invariant *)

Owes(again, up, phase, more, at, place) ==
  again \/ ~up \/ phase # "idle" \/ (more /\ at < place)

\* The sink still owes the broker the message at this place of the view.
Owed(place) == Owes(retry, connected, resub, pending, cursor, place)

LinkOwed == Shows("availability", "", "online") => online \/ retry \/ (pending /\ cursor = 0)

StateOwed ==
  watched = <<"state", "">> =>
    retained = armState \/ (armState = "unknown" /\ retained \notin ArmStates) \/ Owed(2)

ReadyOwed ==
  watched = <<"ready", "">> /\ ready # "unseen" => retained = ready \/ Owed(3)

ReachOwed(i) ==
  watched = <<"reachable", Sensors[i]>> =>
    (retained = "online" <=> sensor[Sensors[i]] # "unseen") \/ Owed(SensorPlace(i) - 1)

ValueOwed(i) ==
  watched = <<"sensor", Sensors[i]>> /\ sensor[Sensors[i]] # "unseen" =>
    retained = sensor[Sensors[i]] \/ Owed(SensorPlace(i))

SensorsOwed == ~skipped => \A i \in 1..Len(Sensors) : ReachOwed(i) /\ ValueOwed(i)

ZonesOwed ==
  \A i \in 1..Len(Zones) :
    watched = <<"bypassed", Zones[i]>> /\ bypassed[Zones[i]] = "ON" =>
      retained = "ON" \/ Owed(ZonePlace(i))

ViewOwed == StateOwed /\ ReadyOwed /\ SensorsOwed /\ ZonesOwed

RetainedInv == Typed /\ NoZones /\ LinkOwed /\ ViewOwed

-----------------------------------------------------------------------------
(* Steps after which the whole view is owed *)

LEMMA PlacesNext ==
  /\ \A i \in 1..Len(Zones) : ZonePlace(i)' \in Nat /\ ZonePlace(i)' >= 2
  /\ \A i \in 1..Len(Sensors) : SensorPlace(i)' \in Nat /\ SensorPlace(i)' >= 4
<1>1. \A i \in 1..Len(Zones) : Cardinality(ShownUpTo(bypassed', i)) \in Nat
  BY CountFits
<1>2. Len(Zones) \in Nat /\ Cardinality(ShownUpTo(bypassed', Len(Zones))) \in Nat
  BY CountFits, Listed
<1>3. ReadyCount' \in {0, 1}
  BY DEF ReadyCount
<1>4. \A i : ZoneCount(i)' = Cardinality(ShownUpTo(bypassed', i))
  BY DEF ZoneCount, ShownUpTo
<1>5. ASSUME NEW i \in 1..Len(Zones) PROVE ZonePlace(i)' \in Nat /\ ZonePlace(i)' >= 2
  <2>1. ZonePlace(i)' = 2 + ReadyCount' + ZoneCount(i)'
    BY DEF ZonePlace
  <2> QED BY <1>1, <1>3, <1>4, <2>1
<1>6. ASSUME NEW i \in 1..Len(Sensors) PROVE SensorPlace(i)' \in Nat /\ SensorPlace(i)' >= 4
  <2>1. SensorPlace(i)' = 2 + ReadyCount' + ZoneCount(Len(Zones))' + 2 * i
    BY DEF SensorPlace
  <2>2. ZoneCount(Len(Zones))' \in Nat
    BY <1>2, <1>4
  <2> QED BY <1>3, <2>1, <2>2
<1> QED BY <1>5, <1>6

LEMMA OwedAnyway ==
  ASSUME retry' \/ ~connected' \/ resub' # "idle"
  PROVE  ViewOwed'
  BY DEF ViewOwed, StateOwed, ReadyOwed, SensorsOwed, ReachOwed, ValueOwed, ZonesOwed, Owed, Owes

LEMMA OwedAnew ==
  ASSUME pending' = TRUE, cursor' = 0
  PROVE  ViewOwed' /\ LinkOwed'
<1>1. 0 < 2 /\ 0 < 3
  OBVIOUS
<1>2. \A i \in 1..Len(Zones) : 0 < ZonePlace(i)'
  BY PlacesNext
<1>3. \A i \in 1..Len(Sensors) : 0 < SensorPlace(i)' - 1 /\ 0 < SensorPlace(i)'
  BY PlacesNext
<1>4. LinkOwed'
  BY DEF LinkOwed
<1>5. StateOwed' /\ ReadyOwed'
  BY <1>1 DEF StateOwed, ReadyOwed, Owed, Owes
<1>6. ZonesOwed'
  BY <1>2 DEF ZonesOwed, Owed, Owes
<1>7. SensorsOwed'
  BY <1>3 DEF SensorsOwed, ReachOwed, ValueOwed, Owed, Owes
<1> QED BY <1>4, <1>5, <1>6, <1>7 DEF ViewOwed

LEMMA NothingSeen ==
  /\ [z \in ToSet(Zones) |-> "unseen"] \in [ToSet(Zones) -> Values]
  /\ [s \in ToSet(Sensors) |-> "unseen"] \in [ToSet(Sensors) -> Values]
  BY DEF Values

LEMMA InitRetained == Init => RetainedInv
<1> SUFFICES ASSUME Init PROVE RetainedInv
  OBVIOUS
<1>1. Typed /\ NoZones
  BY NothingSeen DEF Init, Typed, NoZones
<1>2. LinkOwed
  BY DEF Init, LinkOwed, Shows
<1>3. ~connected
  BY DEF Init
<1>4. ViewOwed
  BY <1>3 DEF ViewOwed, StateOwed, ReadyOwed, SensorsOwed, ReachOwed, ValueOwed, ZonesOwed, Owed, Owes
<1> QED BY <1>1, <1>2, <1>4 DEF RetainedInv

LEMMA LinkSteps ==
  ASSUME RetainedInv, Connected \/ Disconnected \/ RetryDue
  PROVE  RetainedInv'
<1>1. Typed' /\ NoZones'
  <2>1. UNCHANGED <<hiplex, bypassed, sensor>>
    BY DEF Connected, Disconnected, RetryDue, core
  <2>2. cursor' \in Nat
    <3>1. cursor' = cursor \/ cursor' = 0
      BY DEF Connected, Disconnected, RetryDue, batch
    <3> QED BY <3>1 DEF RetainedInv, Typed
  <2>3. resub' \in {"idle", "flagged", "wiped"}
    BY DEF RetainedInv, Typed, Connected, Disconnected, RetryDue
  <2> QED BY <2>1, <2>2, <2>3 DEF RetainedInv, Typed, NoZones
<1>2. CASE Connected
  <2>1. LinkOwed'
    BY <1>2 DEF Connected, RetainedInv, LinkOwed, Shows, core, batch
  <2>2. resub' # "idle"
    BY <1>2 DEF Connected
  <2> QED BY <1>1, <2>1, <2>2, OwedAnyway DEF RetainedInv
<1>3. CASE Disconnected
  <2>1. ~connected' /\ watched' = watched
    BY <1>3 DEF Disconnected
  <2>2. watched = <<"availability", "">> => retained' = "offline"
    <3>1. Msg("availability", "", "offline").topic = <<"availability", "">>
          /\ Msg("availability", "", "offline").value = "offline"
      BY DEF Msg
    <3> QED BY <1>3, <3>1, Told DEF Disconnected
  <2>3. LinkOwed'
    BY <2>1, <2>2 DEF LinkOwed, Shows
  <2> QED BY <1>1, <2>1, <2>3, OwedAnyway DEF RetainedInv
<1>4. CASE RetryDue
  <2>1. pending' = TRUE /\ cursor' = 0
    BY <1>4 DEF RetryDue
  <2> QED BY <1>1, <2>1, OwedAnew DEF RetainedInv
<1> QED BY <1>2, <1>3, <1>4

LEMMA FreshSteps ==
  ASSUME RetainedInv, ReloadConfig \/ Reboot
  PROVE  RetainedInv'
<1>1. Typed'
  <2>1. /\ bypassed' = [z \in ToSet(Zones) |-> "unseen"]
        /\ sensor' = [s \in ToSet(Sensors) |-> "unseen"]
    BY DEF ReloadConfig, Reboot, Forget
  <2>2. cursor' \in Nat
    <3>1. cursor' = cursor \/ cursor' = 0
      BY DEF ReloadConfig, Reboot, batch
    <3> QED BY <3>1 DEF RetainedInv, Typed
  <2>3. resub' \in {"idle", "flagged", "wiped"}
    BY DEF RetainedInv, Typed, ReloadConfig, Reboot
  <2> QED BY <2>1, <2>2, <2>3, NothingSeen DEF Typed
<1>2. NoZones' /\ online' = TRUE
  BY DEF NoZones, ReloadConfig, Reboot, Forget
<1>3. LinkOwed'
  BY <1>2 DEF LinkOwed
<1>4. ~connected' \/ (pending' = TRUE /\ cursor' = 0)
  <2>1. CASE ReloadConfig
    BY <2>1 DEF ReloadConfig
  <2>2. CASE Reboot
    BY <2>2 DEF Reboot
  <2> QED BY <2>1, <2>2
<1>5. ViewOwed'
  BY <1>4, OwedAnyway, OwedAnew
<1> QED BY <1>1, <1>2, <1>3, <1>5 DEF RetainedInv

-----------------------------------------------------------------------------
(* A pass of the setup batch *)

LEMMA ServeFrame ==
  ASSUME Serve
  PROVE  /\ UNCHANGED <<hiplex, watched, online, heard, armState, ready, bypassed, sensor, connected>>
         /\ resub' = IF resub = "flagged" THEN "wiped" ELSE "idle"
         /\ skipped' = (skipped /\ resub # "wiped")
         /\ \/ /\ pending \/ resub = "wiped"
               /\ connected
               /\ SetupPass(IF resub = "wiped" THEN 0 ELSE cursor)
            \/ /\ ~((pending \/ resub = "wiped") /\ connected)
               /\ pending' = (pending \/ resub = "wiped")
               /\ cursor' = IF resub = "wiped" THEN 0 ELSE cursor
               /\ UNCHANGED <<retained, retry>>
<1>1. UNCHANGED <<hiplex, watched, online, heard, armState, ready, bypassed, sensor, connected>>
  BY DEF Serve, core
<1>2. /\ resub' = IF resub = "flagged" THEN "wiped" ELSE "idle"
      /\ skipped' = (skipped /\ resub # "wiped")
  BY DEF Serve
<1> QED BY <1>1, <1>2 DEF Serve, Start

\* The part of the view from place from + 1 to place upTo has gone out.
SentUpTo(from, upTo) ==
  /\ retained' = Stored({m \in View : from < m.place /\ m.place <= upTo})
  /\ cursor' = IF upTo > from THEN upTo ELSE from
  /\ pending' = (cursor' < ViewLength)
  /\ retry' = retry

LEMMA PassSends ==
  ASSUME NEW from \in Nat, SetupPass(from)
  PROVE  \/ retry' /\ cursor' \in Nat
         \/ \E upTo \in Nat : /\ upTo > from \/ upTo = ViewLength
                              /\ from = 0 => upTo >= 1
                              /\ SentUpTo(from, upTo)
<1> DEFINE last == IF from + SETUP_BUDGET < ViewLength THEN from + SETUP_BUDGET ELSE ViewLength
<1>1. ViewLength \in Nat /\ ViewLength >= 2 /\ SETUP_BUDGET \in Nat \ {0}
  BY Places, RetainedAssumption
<1>2. last \in Nat /\ (last > from \/ last = ViewLength) /\ (from = 0 => last >= 1)
  BY <1>1
<1>3. ASSUME NEW upTo \in from..(last - 1), from < last,
             cursor' = IF upTo > from THEN upTo ELSE from
      PROVE  cursor' \in Nat
  BY <1>2, <1>3
<1>4. CASE retry' = TRUE /\ from < last /\ \E upTo \in from..(last - 1) :
             cursor' = IF upTo > from THEN upTo ELSE from
  BY <1>3, <1>4
<1>5. CASE SentUpTo(from, last)
  BY <1>2, <1>5
<1> HIDE DEF last
<1>6. \/ SentUpTo(from, last)
      \/ retry' = TRUE /\ from < last /\ \E upTo \in from..(last - 1) :
             cursor' = IF upTo > from THEN upTo ELSE from
  BY DEF SetupPass, SentUpTo, last
<1> QED BY <1>4, <1>5, <1>6

\* After a pass of the loop a message is owed, or its value is at the broker, or
\* it was not owed before and nothing has happened to its topic.
LEMMA ServeOwes ==
  ASSUME Typed, Serve, NEW place \in 1..ViewLength, Has(place, watched),
         NEW v, \A m \in View : m.topic = watched => m.value = v
  PROVE  \/ Owes(retry', connected', resub', pending', cursor', place)
         \/ retained' = v
         \/ retained' = retained /\ (~skipped' => ~skipped)
              /\ ~Owes(retry, connected, resub, pending, cursor, place)
<1> DEFINE from == IF resub = "wiped" THEN 0 ELSE cursor
<1>1. from \in Nat /\ place \in Nat /\ place >= 1 /\ ViewLength \in Nat
  BY Places DEF Typed
<1>2. CASE ~connected \/ resub = "flagged"
  BY <1>2, ServeFrame DEF Owes
<1>3. CASE connected /\ ~(pending \/ resub = "wiped") /\ resub # "flagged"
  <2>1. resub = "idle" /\ ~pending /\ UNCHANGED <<retained, retry>> /\ (~skipped' => ~skipped)
    BY <1>3, ServeFrame DEF Typed
  <2> QED BY <1>3, <2>1 DEF Owes
<1>4. CASE connected /\ (pending \/ resub = "wiped") /\ resub # "flagged"
  <2>1. SetupPass(from)
    BY <1>4, ServeFrame
  <2>2. CASE retry'
    BY <2>2 DEF Owes
  <2>3. ASSUME NEW upTo \in Nat, upTo > from \/ upTo = ViewLength, SentUpTo(from, upTo)
        PROVE  \/ Owes(retry', connected', resub', pending', cursor', place)
               \/ retained' = v
               \/ retained' = retained /\ (~skipped' => ~skipped)
                    /\ ~Owes(retry, connected, resub, pending, cursor, place)
    <3> DEFINE W == {m \in View : from < m.place /\ m.place <= upTo}
    <3>1. retained' = Stored(W) /\ retry' = retry
      BY <2>3 DEF SentUpTo
    <3>2. \A m \in W : m.topic = watched => m.value = v
      OBVIOUS
    <3>3. \/ Stored(W) = v
          \/ Stored(W) = retained /\ ~(from < place /\ place <= upTo)
      <4>1. PICK m \in View : m.place = place /\ m.topic = watched
        BY DEF Has
      <4>2. from < place /\ place <= upTo => m \in W
        BY <4>1
      <4> HIDE DEF W
      <4> QED BY <3>2, <4>1, <4>2, Told
    <3> HIDE DEF W
    <3>4. CASE place > upTo
      <4>1. cursor' < place
        BY <1>1, <2>3, <3>4 DEF SentUpTo
      <4>2. cursor' < ViewLength
        BY <1>1, <2>3, <3>4 DEF SentUpTo
      <4>3. pending'
        BY <4>2, <2>3 DEF SentUpTo
      <4> QED BY <4>1, <4>3 DEF Owes
    <3>5. CASE place <= from
      <4>1. resub # "wiped" /\ from = cursor
        BY <1>1, <3>5
      <4>2. resub = "idle" /\ (~skipped' => ~skipped) /\ ~(cursor < place)
        <5>1. resub = "idle"
          BY <1>4, <4>1 DEF Typed
        <5>2. ~skipped' => ~skipped
          BY <5>1, ServeFrame
        <5>3. place <= cursor /\ cursor \in Nat
          BY <3>5, <4>1 DEF Typed
        <5>4. ~(cursor < place)
          BY <1>1, <5>3
        <5> QED BY <5>1, <5>2, <5>4
      <4>3. CASE retry
        BY <3>1, <4>3 DEF Owes
      <4>4. CASE ~retry
        BY <1>4, <3>1, <3>3, <4>2, <4>4 DEF Owes
      <4> QED BY <4>3, <4>4
    <3>6. CASE from < place /\ place <= upTo
      BY <3>1, <3>3, <3>6
    <3> QED BY <1>1, <2>3, <3>4, <3>5, <3>6
  <2> QED BY <1>1, <2>1, <2>2, <2>3, PassSends
<1> QED BY <1>2, <1>3, <1>4

LEMMA ServeLink ==
  ASSUME Typed, LinkOwed, Serve
  PROVE  LinkOwed'
<1> DEFINE from == IF resub = "wiped" THEN 0 ELSE cursor
<1>0. \A n \in Nat : n >= 1 => 0 < 1 /\ 1 <= n
  OBVIOUS
<1> SUFFICES ASSUME watched = <<"availability", "">>, retained' = "online", ~online, ~retry'
             PROVE  pending' /\ cursor' = 0
  BY ServeFrame DEF LinkOwed, Shows
<1>1. from \in Nat
  BY DEF Typed
<1>2. CASE (pending \/ resub = "wiped") /\ connected /\ SetupPass(from)
  <2>1. PICK upTo \in Nat : (upTo > from \/ upTo = ViewLength) /\ (from = 0 => upTo >= 1) /\ SentUpTo(from, upTo)
    BY <1>1, <1>2, PassSends
  <2> DEFINE W == {m \in View : from < m.place /\ m.place <= upTo}
  <2>2. retained' = Stored(W) /\ retry' = retry
    BY <2>1 DEF SentUpTo
  <2>3. \A m \in W : m.topic = watched => m.value = "offline"
    BY ViewSays DEF Says, LinkValue
  <2>4. PICK m \in View : m.place = 1 /\ m.topic = watched
    BY ViewHas DEF Has
  <2>5. from < 1 /\ 1 <= upTo => m \in W
    BY <2>4
  <2> HIDE DEF W
  <2>6. Stored(W) = retained /\ ~(from < 1 /\ 1 <= upTo)
    BY <2>2, <2>3, <2>4, <2>5, Told
  <2>7. ~(from = 0)
    <3>1. ASSUME from = 0 PROVE FALSE
      <4>1. upTo \in Nat /\ upTo >= 1 /\ ~(0 < 1 /\ 1 <= upTo)
        BY <2>1, <2>6, <3>1
      <4> QED BY <1>0, <4>1, Zenon
    <3> QED BY <3>1
  <2>8. cursor # 0 /\ retained = "online"
    BY <2>2, <2>6, <2>7
  <2>9. ~retry
    BY <2>2
  <2> QED BY <2>8, <2>9 DEF LinkOwed, Shows
<1>3. CASE pending' = (pending \/ resub = "wiped") /\ cursor' = from /\ UNCHANGED <<retained, retry>>
  BY <1>3 DEF LinkOwed, Shows
<1> QED BY <1>2, <1>3, ServeFrame

LEMMA ServeStep ==
  ASSUME RetainedInv, Serve
  PROVE  RetainedInv'
<1> USE DEF RetainedInv
<1>1. /\ UNCHANGED <<hiplex, watched, armState, ready, bypassed, sensor>>
      /\ ~skipped' => ~skipped \/ resub = "wiped"
  BY ServeFrame
<1>2. Typed' /\ NoZones'
  <2>1. resub' \in {"idle", "flagged", "wiped"}
    BY ServeFrame
  <2>2. cursor' \in Nat
    <3>1. (IF resub = "wiped" THEN 0 ELSE cursor) \in Nat
      BY DEF Typed
    <3>2. ASSUME NEW from \in Nat, NEW upTo \in Nat, SentUpTo(from, upTo) PROVE cursor' \in Nat
      BY <3>2 DEF SentUpTo
    <3> QED BY <3>1, <3>2, ServeFrame, PassSends
  <2> QED BY <1>1, <2>1, <2>2 DEF Typed, NoZones
<1>3. StateOwed'
  <2>1. 2 \in 1..ViewLength
    BY Places
  <2>2. watched = <<"state", "">> => \A m \in View : m.topic = watched => m.value = armState
    BY ViewSays DEF Says
  <2>3. watched = <<"state", "">> => Has(2, watched)
    BY ViewHas
  <2> QED BY <1>1, <2>1, <2>2, <2>3, ServeOwes DEF ViewOwed, StateOwed, Owed
<1>4. ReadyOwed'
  <2>1. ready # "unseen" => 3 \in 1..ViewLength
    BY Places
  <2> SUFFICES ASSUME watched = <<"ready", "">>, ready # "unseen"
               PROVE  retained' = ready \/ Owes(retry', connected', resub', pending', cursor', 3)
    BY <1>1 DEF ReadyOwed, Owed
  <2>2. \A m \in View : m.topic = watched => m.value = ready
    BY ViewSays DEF Says
  <2>3. Has(3, watched)
    BY ViewHas
  <2> QED BY <2>1, <2>2, <2>3, ServeOwes DEF ViewOwed, ReadyOwed, Owed
<1>5. ZonesOwed'
  <2> SUFFICES ASSUME NEW i \in 1..Len(Zones), watched = <<"bypassed", Zones[i]>>, bypassed[Zones[i]] = "ON"
               PROVE  retained' = "ON" \/ Owes(retry', connected', resub', pending', cursor', ZonePlace(i))
    BY <1>1 DEF ZonesOwed, Owed, ZonePlace, ZoneCount, ReadyCount
  <2>1. ZonePlace(i) \in 1..ViewLength /\ Has(ZonePlace(i), watched)
    <3>1. bypassed[Zones[i]] # "unseen"
      OBVIOUS
    <3>2. ZonePlace(i) \in 3..ViewLength /\ ViewLength \in Nat
      BY <3>1, Places
    <3>3. Has(ZonePlace(i), watched)
      BY <3>1, ViewHas
    <3> QED BY <3>2, <3>3
  <2>2. \A m \in View : m.topic = watched => m.value = "ON"
    BY ViewSays DEF Says
  <2> QED BY <2>1, <2>2, ServeOwes DEF ViewOwed, ZonesOwed, Owed
<1>6. SensorsOwed'
  <2> SUFFICES ASSUME ~skipped', NEW i \in 1..Len(Sensors) PROVE ReachOwed(i)' /\ ValueOwed(i)'
    BY DEF SensorsOwed
  <2>1. SensorPlace(i)' = SensorPlace(i)
    BY <1>1 DEF SensorPlace, ZoneCount, ReadyCount
  <2>2. SensorPlace(i) \in 1..ViewLength /\ SensorPlace(i) - 1 \in 1..ViewLength
    BY Places
  <2>3. CASE watched = <<"reachable", Sensors[i]>>
    <3>1. \A m \in View : m.topic = watched => m.value = ReachValue(Sensors[i])
      BY <2>3, ViewSays DEF Says
    <3>2. Has(SensorPlace(i) - 1, watched)
      BY <2>3, ViewHas
    <3>3. \/ Owes(retry', connected', resub', pending', cursor', SensorPlace(i) - 1)
          \/ retained' = ReachValue(Sensors[i])
          \/ retained' = retained /\ (~skipped' => ~skipped)
               /\ ~Owes(retry, connected, resub, pending, cursor, SensorPlace(i) - 1)
      BY <2>2, <3>1, <3>2, ServeOwes
    <3>4. ReachOwed(i)'
      BY <1>1, <2>1, <2>3, <3>3 DEF ReachOwed, Owed, ReachValue, ViewOwed, SensorsOwed
    <3> QED BY <1>1, <2>3, <3>4 DEF ValueOwed
  <2>4. CASE watched = <<"sensor", Sensors[i]>>
    <3>1. \A m \in View : m.topic = watched => m.value = StateValue(Sensors[i])
      BY <2>4, ViewSays DEF Says
    <3>2. Has(SensorPlace(i), watched)
      BY <2>4, ViewHas
    <3>3. \/ Owes(retry', connected', resub', pending', cursor', SensorPlace(i))
          \/ retained' = StateValue(Sensors[i])
          \/ retained' = retained /\ (~skipped' => ~skipped)
               /\ ~Owes(retry, connected, resub, pending, cursor, SensorPlace(i))
      BY <2>2, <3>1, <3>2, ServeOwes
    <3>4. ValueOwed(i)'
      BY <1>1, <2>1, <2>4, <3>3 DEF ValueOwed, Owed, StateValue, ViewOwed, SensorsOwed
    <3> QED BY <1>1, <2>4, <3>4 DEF ReachOwed
  <2>5. CASE watched # <<"reachable", Sensors[i]>> /\ watched # <<"sensor", Sensors[i]>>
    BY <1>1, <2>5 DEF ReachOwed, ValueOwed
  <2> QED BY <2>3, <2>4, <2>5
<1> QED BY <1>2, <1>3, <1>4, <1>5, <1>6, ServeLink DEF ViewOwed

-----------------------------------------------------------------------------
(* The end of a read *)

Announced == IF Announces THEN {Msg("availability", "", "online")} ELSE {}

LEMMA MsgSays ==
  \A topic, name, value :
    Msg(topic, name, value).topic = <<topic, name>> /\ Msg(topic, name, value).value = value
  BY DEF Msg

LEMMA Chosen ==
  ASSUME NEW N
  PROVE  \/ Stored(N) = retained /\ \A m \in N : m.topic # watched
         \/ \E m \in N : m.topic = watched /\ Stored(N) = m.value
<1>1. CASE \E m \in N : m.topic = watched
  <2>1. /\ (CHOOSE m \in N : m.topic = watched) \in N
        /\ (CHOOSE m \in N : m.topic = watched).topic = watched
    BY <1>1, Zenon
  <2> QED BY <1>1, <2>1 DEF Stored
<1>2. CASE ~\E m \in N : m.topic = watched
  BY <1>2 DEF Stored
<1> QED BY <1>1, <1>2

LEMMA ReadFrame ==
  ASSUME NEW M, EndRead(M)
  PROVE  /\ UNCHANGED <<hiplex, watched, connected, resub, pending, cursor>>
         /\ retry' \/ (retry' = retry /\ retained' = Stored(M \cup Announced))
<1>1. UNCHANGED <<hiplex, watched, connected, resub, pending, cursor>>
  BY DEF EndRead, batch
<1>2. retry' \/ (retry' = retry /\ retained' = Stored(M \cup Announced))
  BY DEF EndRead, Publish, Announced
<1> QED BY <1>1, <1>2

\* For any topic but the availability only the messages of the handler count.
LEMMA ReadTells ==
  ASSUME NEW M, EndRead(M), watched # <<"availability", "">>
  PROVE  \/ retry'
         \/ retry' = retry /\ retained' = retained /\ \A m \in M : m.topic # watched
         \/ retry' = retry /\ \E m \in M : m.topic = watched /\ retained' = m.value
<1>1. \A m \in Announced : m.topic # watched
  BY MsgSays DEF Announced
<1> QED BY <1>1, ReadFrame, Chosen

LEMMA LinkRead ==
  ASSUME LinkOwed, NEW M, EndRead(M),
         \A m \in M : m.topic = <<"availability", "">> /\ m.value = "online" => online',
         online /\ ~online' => \E m \in M : m.topic = <<"availability", "">>
  PROVE  LinkOwed'
<1> SUFFICES ASSUME watched = <<"availability", "">>, retained' = "online", ~online', ~retry'
             PROVE  pending' /\ cursor' = 0
  BY ReadFrame DEF LinkOwed, Shows
<1>1. retry' = retry /\ retained' = Stored(M \cup Announced)
  BY ReadFrame
<1>2. Announced = {}
  BY DEF Announced, Announces
<1>3. ~\E m \in M : m.topic = watched /\ retained' = m.value
  OBVIOUS
<1>4. retained' = retained /\ \A m \in M : m.topic # watched
  BY <1>1, <1>2, <1>3, Chosen
<1>5. ~online /\ ~retry /\ retained = "online"
  BY <1>1, <1>4
<1>6. pending /\ cursor = 0
  BY <1>5 DEF LinkOwed, Shows
<1> QED BY <1>6, ReadFrame

LEMMA StillOwed ==
  ASSUME Typed, NEW M, EndRead(M), NEW p \in Nat, NEW q \in Nat, pending => p <= q,
         Owes(retry, connected, resub, pending, cursor, p), retry' \/ retry' = retry
  PROVE  Owes(retry', connected', resub', pending', cursor', q)
<1>1. pending /\ cursor < p => cursor < q
  BY DEF Typed
<1>2. UNCHANGED <<connected, resub, pending, cursor>>
  BY ReadFrame
<1> QED BY <1>1, <1>2 DEF Owes

LEMMA TopicTold ==
  ASSUME NEW M, EndRead(M), watched # <<"availability", "">>, NEW v,
         \A m \in M : m.topic = watched => m.value = v, \E m \in M : m.topic = watched
  PROVE  retry' \/ retained' = v
  BY ReadTells

\* The places of the view only grow as more of it gets a value.
LEMMA PlacesGrow ==
  ASSUME ready # "unseen" => ready' # "unseen",
         \A z \in ToSet(Zones) : bypassed[z] # "unseen" => bypassed'[z] # "unseen"
  PROVE  /\ \A i \in 1..Len(Zones) : bypassed[Zones[i]] # "unseen" =>
              ZonePlace(i) \in Nat /\ ZonePlace(i)' \in Nat /\ ZonePlace(i) <= ZonePlace(i)'
         /\ \A i \in 1..Len(Sensors) :
              /\ SensorPlace(i) \in Nat /\ SensorPlace(i)' \in Nat
              /\ SensorPlace(i) - 1 \in Nat /\ SensorPlace(i)' - 1 \in Nat
              /\ SensorPlace(i) <= SensorPlace(i)' /\ SensorPlace(i) - 1 <= SensorPlace(i)' - 1
<1>1. \A i \in 0..Len(Zones) : ZoneCount(i) \in Nat /\ ZoneCount(i)' \in Nat /\ ZoneCount(i) <= ZoneCount(i)'
  <2> SUFFICES ASSUME NEW i \in 0..Len(Zones)
               PROVE  ZoneCount(i) \in Nat /\ ZoneCount(i)' \in Nat /\ ZoneCount(i) <= ZoneCount(i)'
    OBVIOUS
  <2>1. i \in Nat /\ i <= i /\ \A j \in 1..i : Zones[j] \in ToSet(Zones)
    BY Listed
  <2>2. Cardinality(ShownUpTo(bypassed, i)) <= Cardinality(ShownUpTo(bypassed', i))
    BY <2>1, CountGrows
  <2>3. /\ ZoneCount(i) = Cardinality(ShownUpTo(bypassed, i))
        /\ ZoneCount(i)' = Cardinality(ShownUpTo(bypassed', i))
    BY DEF ZoneCount, ShownUpTo
  <2> QED BY <2>1, <2>2, <2>3, CountFits
<1>2. ReadyCount \in {0, 1} /\ ReadyCount' \in {0, 1} /\ ReadyCount <= ReadyCount'
  BY DEF ReadyCount
<1>3. ASSUME NEW i \in 1..Len(Zones)
      PROVE  ZonePlace(i) \in Nat /\ ZonePlace(i)' \in Nat /\ ZonePlace(i) <= ZonePlace(i)'
  <2>1. ZonePlace(i) = 2 + ReadyCount + ZoneCount(i) /\ ZonePlace(i)' = 2 + ReadyCount' + ZoneCount(i)'
    BY DEF ZonePlace
  <2>2. i \in 0..Len(Zones)
    BY Listed
  <2> QED BY <1>1, <1>2, <2>1, <2>2
<1>4. ASSUME NEW i \in 1..Len(Sensors)
      PROVE  /\ SensorPlace(i) \in Nat /\ SensorPlace(i)' \in Nat
             /\ SensorPlace(i) - 1 \in Nat /\ SensorPlace(i)' - 1 \in Nat
             /\ SensorPlace(i) <= SensorPlace(i)' /\ SensorPlace(i) - 1 <= SensorPlace(i)' - 1
  <2> DEFINE a == ZoneCount(Len(Zones))
             b == ZoneCount(Len(Zones))'
  <2>1. /\ SensorPlace(i) = 2 + ReadyCount + a + 2 * i
        /\ SensorPlace(i)' = 2 + ReadyCount' + b + 2 * i
    BY DEF SensorPlace
  <2>2. a \in Nat /\ b \in Nat /\ a <= b
    BY <1>1, Listed
  <2>3. i \in Nat /\ i >= 1
    BY Listed
  <2> HIDE DEF a, b
  <2>4. ASSUME NEW r \in {0, 1}, NEW s \in {0, 1}, r <= s, NEW p, NEW q,
               p = 2 + r + a + 2 * i, q = 2 + s + b + 2 * i
        PROVE  p \in Nat /\ q \in Nat /\ p - 1 \in Nat /\ q - 1 \in Nat /\ p <= q /\ p - 1 <= q - 1
    BY <2>2, <2>3, <2>4
  <2> QED BY <1>2, <2>1, <2>4, Zenon
<1> QED BY <1>3, <1>4

\* A topic the handler says nothing of keeps what it is owed.
LEMMA ReachKept ==
  ASSUME Typed, NEW M, EndRead(M), NEW i \in 1..Len(Sensors), ReachOwed(i),
         sensor'[Sensors[i]] # "unseen" <=> sensor[Sensors[i]] # "unseen",
         SensorPlace(i) - 1 \in Nat, SensorPlace(i)' - 1 \in Nat,
         pending => SensorPlace(i) - 1 <= SensorPlace(i)' - 1,
         \A m \in M : m.topic # <<"reachable", Sensors[i]>>
  PROVE  ReachOwed(i)'
<1>1. watched' = watched
  BY ReadFrame
<1>2. CASE watched = <<"reachable", Sensors[i]>>
  <2>1. retry' \/ (retry' = retry /\ retained' = retained)
    BY <1>2, ReadTells
  <2>2. Owes(retry, connected, resub, pending, cursor, SensorPlace(i) - 1) =>
          Owes(retry', connected', resub', pending', cursor', SensorPlace(i)' - 1)
    BY <2>1, StillOwed
  <2>3. retry' => Owes(retry', connected', resub', pending', cursor', SensorPlace(i)' - 1)
    BY DEF Owes
  <2> QED BY <1>1, <1>2, <2>1, <2>2, <2>3 DEF ReachOwed, Owed
<1>3. CASE watched # <<"reachable", Sensors[i]>>
  BY <1>1, <1>3 DEF ReachOwed
<1> QED BY <1>2, <1>3

LEMMA ValueKept ==
  ASSUME Typed, NEW M, EndRead(M), NEW i \in 1..Len(Sensors), ValueOwed(i),
         sensor'[Sensors[i]] = sensor[Sensors[i]],
         SensorPlace(i) \in Nat, SensorPlace(i)' \in Nat,
         pending => SensorPlace(i) <= SensorPlace(i)',
         \A m \in M : m.topic # <<"sensor", Sensors[i]>>
  PROVE  ValueOwed(i)'
<1>1. watched' = watched
  BY ReadFrame
<1>2. CASE watched = <<"sensor", Sensors[i]>>
  <2>1. retry' \/ (retry' = retry /\ retained' = retained)
    BY <1>2, ReadTells
  <2>2. Owes(retry, connected, resub, pending, cursor, SensorPlace(i)) =>
          Owes(retry', connected', resub', pending', cursor', SensorPlace(i)')
    BY <2>1, StillOwed
  <2>3. retry' => Owes(retry', connected', resub', pending', cursor', SensorPlace(i)')
    BY DEF Owes
  <2> QED BY <1>1, <1>2, <2>1, <2>2, <2>3 DEF ValueOwed, Owed
<1>3. CASE watched # <<"sensor", Sensors[i]>>
  BY <1>1, <1>3 DEF ValueOwed
<1> QED BY <1>2, <1>3

LEMMA SensorsKept ==
  ASSUME Typed, SensorsOwed, NEW M, EndRead(M), sensor' = sensor, skipped' = skipped,
         ready # "unseen" => ready' # "unseen",
         \A z \in ToSet(Zones) : bypassed[z] # "unseen" => bypassed'[z] # "unseen",
         \A m \in M : \A s : m.topic # <<"reachable", s>> /\ m.topic # <<"sensor", s>>
  PROVE  SensorsOwed'
<1> SUFFICES ASSUME ~skipped', NEW i \in 1..Len(Sensors) PROVE ReachOwed(i)' /\ ValueOwed(i)'
  BY DEF SensorsOwed
<1>1. ReachOwed(i) /\ ValueOwed(i)
  BY DEF SensorsOwed
<1>2. /\ SensorPlace(i) \in Nat /\ SensorPlace(i)' \in Nat
      /\ SensorPlace(i) - 1 \in Nat /\ SensorPlace(i)' - 1 \in Nat
      /\ SensorPlace(i) <= SensorPlace(i)' /\ SensorPlace(i) - 1 <= SensorPlace(i)' - 1
  BY PlacesGrow
<1> QED BY <1>1, <1>2, ReachKept, ValueKept

LEMMA ZoneKept ==
  ASSUME Typed, ZonesOwed, NEW M, EndRead(M), NEW i \in 1..Len(Zones),
         watched = <<"bypassed", Zones[i]>>, bypassed[Zones[i]] = "ON",
         ready # "unseen" => ready' # "unseen",
         \A z \in ToSet(Zones) : bypassed[z] # "unseen" => bypassed'[z] # "unseen",
         \A m \in M : m.topic # watched
  PROVE  retained' = "ON" \/ Owes(retry', connected', resub', pending', cursor', ZonePlace(i)')
<1>1. retry' \/ (retry' = retry /\ retained' = retained)
  BY ReadTells
<1>2. bypassed[Zones[i]] # "unseen"
  OBVIOUS
<1>3. ZonePlace(i) \in Nat /\ ZonePlace(i)' \in Nat /\ ZonePlace(i) <= ZonePlace(i)'
  BY <1>2, PlacesGrow
<1>4. Owes(retry, connected, resub, pending, cursor, ZonePlace(i)) =>
        Owes(retry', connected', resub', pending', cursor', ZonePlace(i)')
  BY <1>1, <1>3, StillOwed
<1>5. retry' => Owes(retry', connected', resub', pending', cursor', ZonePlace(i)')
  BY DEF Owes
<1> QED BY <1>1, <1>4, <1>5 DEF ZonesOwed, Owed

LEMMA ZonesKept ==
  ASSUME Typed, ZonesOwed, NEW M, EndRead(M), bypassed' = bypassed,
         ready # "unseen" => ready' # "unseen",
         \A m \in M : \A z : m.topic # <<"bypassed", z>>
  PROVE  ZonesOwed'
<1>1. watched' = watched
  BY ReadFrame
<1> SUFFICES ASSUME NEW i \in 1..Len(Zones), watched = <<"bypassed", Zones[i]>>,
                    bypassed[Zones[i]] = "ON"
             PROVE  retained' = "ON" \/ Owes(retry', connected', resub', pending', cursor', ZonePlace(i)')
  BY <1>1 DEF ZonesOwed, Owed
<1> QED BY ZoneKept

LEMMA StateKept ==
  ASSUME Typed, StateOwed, NEW M, EndRead(M), armState' = armState,
         \A m \in M : m.topic # <<"state", "">>
  PROVE  StateOwed'
<1>1. watched' = watched
  BY ReadFrame
<1> SUFFICES ASSUME watched = <<"state", "">>
             PROVE  \/ retained' = armState \/ (armState = "unknown" /\ retained' \notin ArmStates)
                    \/ Owes(retry', connected', resub', pending', cursor', 2)
  BY <1>1 DEF StateOwed, Owed
<1>2. retry' \/ (retry' = retry /\ retained' = retained)
  BY ReadTells
<1>3. Owes(retry, connected, resub, pending, cursor, 2) => Owes(retry', connected', resub', pending', cursor', 2)
  BY <1>2, ReadFrame DEF Owes
<1>4. retry' => Owes(retry', connected', resub', pending', cursor', 2)
  BY DEF Owes
<1> QED BY <1>2, <1>3, <1>4 DEF StateOwed, Owed

LEMMA ReadyKept ==
  ASSUME Typed, ReadyOwed, NEW M, EndRead(M), ready' = ready \/ ready' = "unseen",
         \A m \in M : m.topic # <<"ready", "">>
  PROVE  ReadyOwed'
<1>1. watched' = watched
  BY ReadFrame
<1> SUFFICES ASSUME watched = <<"ready", "">>, ready' # "unseen"
             PROVE  retained' = ready \/ Owes(retry', connected', resub', pending', cursor', 3)
  BY <1>1 DEF ReadyOwed, Owed
<1>2. retry' \/ (retry' = retry /\ retained' = retained)
  BY ReadTells
<1>3. Owes(retry, connected, resub, pending, cursor, 3) => Owes(retry', connected', resub', pending', cursor', 3)
  BY <1>2, ReadFrame DEF Owes
<1>4. retry' => Owes(retry', connected', resub', pending', cursor', 3)
  BY DEF Owes
<1> QED BY <1>2, <1>3, <1>4 DEF ReadyOwed, Owed

-----------------------------------------------------------------------------
(* The reads, one by one *)

Kind(topic) == topic[1]
Name(topic) == topic[2]

\* What a topic is, said of the topic: the provers know too little of pairs.
LEMMA Kinds ==
  /\ \A t : t = <<"availability", "">> => Kind(t) = "availability"
  /\ \A t : t = <<"state", "">> => Kind(t) = "state"
  /\ \A t : t = <<"ready", "">> => Kind(t) = "ready"
  /\ \A t, x : t = <<"bypassed", x>> => Kind(t) = "bypassed" /\ Name(t) = x
  /\ \A t, x : t = <<"reachable", x>> => Kind(t) = "reachable" /\ Name(t) = x
  /\ \A t, x : t = <<"sensor", x>> => Kind(t) = "sensor" /\ Name(t) = x
<1>1. \A t, a, b : t = <<a, b>> => Kind(t) = a /\ Name(t) = b
  BY DEF Kind, Name
<1> QED BY <1>1, Zenon

LEMMA MsgKind ==
  \A topic, name, value :
    /\ Kind(Msg(topic, name, value).topic) = topic /\ Name(Msg(topic, name, value).topic) = name
    /\ Msg(topic, name, value).value = value
  BY DEF Msg, Kind, Name

LEMMA Alive ==
  ASSUME NoteAlive
  PROVE  /\ online => online'
         /\ \A m \in AliveMsgs : Kind(m.topic) = "availability" /\ online'
<1>1. \A m \in AliveMsgs : Kind(m.topic) = "availability" /\ Recovers
  <2>1. Kind(Msg("availability", "", "online").topic) = "availability"
    BY MsgKind, Zenon
  <2> QED BY <2>1 DEF AliveMsgs
<1> QED BY <1>1 DEF NoteAlive

LEMMA AliveLink ==
  ASSUME LinkOwed, NoteAlive, NEW M, EndRead(AliveMsgs \cup M),
         \A m \in M : Kind(m.topic) # "availability"
  PROVE  LinkOwed'
<1>1. \A m \in AliveMsgs : online'
  BY Alive
<1>2. \A m \in M : m.topic # <<"availability", "">>
  BY Kinds, Zenon
<1>3. \A m \in AliveMsgs \cup M : m.topic = <<"availability", "">> /\ m.value = "online" => online'
  BY <1>1, <1>2
<1>4. online => online'
  BY Alive
<1> QED BY <1>3, <1>4, LinkRead

LEMMA ReadTyped ==
  ASSUME Typed, NEW M, EndRead(M), bypassed' \in [ToSet(Zones) -> Values],
         sensor' \in [ToSet(Sensors) -> Values]
  PROVE  Typed'
  BY ReadFrame DEF Typed

\* A read that tells of the line, or of a fault, alone.
LEMMA QuietRead ==
  ASSUME RetainedInv, NEW M, EndRead(M), LinkOwed',
         UNCHANGED <<armState, ready, bypassed, sensor, skipped>>,
         \A m \in M : Kind(m.topic) \in {"availability", "diag"}
  PROVE  RetainedInv'
<1> USE DEF RetainedInv, ViewOwed
<1>1. Typed' /\ NoZones'
  BY ReadTyped, ReadFrame DEF Typed, NoZones
<1>2. /\ \A m \in M : m.topic # <<"state", "">>
      /\ \A m \in M : m.topic # <<"ready", "">>
      /\ \A m \in M : \A z : m.topic # <<"bypassed", z>>
      /\ \A m \in M : \A s : m.topic # <<"reachable", s>> /\ m.topic # <<"sensor", s>>
  BY Kinds, Zenon
<1>3. armState' = armState /\ ready' = ready /\ bypassed' = bypassed /\ sensor' = sensor /\ skipped' = skipped
  OBVIOUS
<1>4. StateOwed' /\ ReadyOwed'
  BY <1>2, <1>3, StateKept, ReadyKept
<1>5. SensorsOwed'
  BY <1>2, <1>3, SensorsKept
<1>6. ZonesOwed'
  BY <1>2, <1>3, ZonesKept
<1> QED BY <1>1, <1>4, <1>5, <1>6

LEMMA QuietReads ==
  ASSUME RetainedInv, Poll \/ Partial \/ \E fault : Spontaneous(fault)
  PROVE  RetainedInv'
<1>1. CASE Poll
  <2>1. EndRead(AliveMsgs) /\ NoteAlive
        /\ UNCHANGED <<armState, ready, bypassed, sensor, skipped>>
    BY <1>1 DEF Poll
  <2>2. LinkOwed'
    BY <2>1, Alive, LinkRead DEF RetainedInv
  <2> QED BY <2>1, <2>2, Alive, QuietRead
<1>2. CASE Partial
  <2>1. EndRead({}) /\ online' = online /\ UNCHANGED <<armState, ready, bypassed, sensor, skipped>>
    BY <1>2 DEF Partial, core
  <2>2. LinkOwed'
    BY <2>1, LinkRead DEF RetainedInv
  <2> QED BY <2>1, <2>2, QuietRead
<1>3. ASSUME NEW fault, Spontaneous(fault) PROVE RetainedInv'
  <2> DEFINE M == {Msg("diag", "", fault)}
  <2>1. EndRead(AliveMsgs \cup M) /\ NoteAlive
        /\ UNCHANGED <<armState, ready, bypassed, sensor, skipped>>
    BY <1>3 DEF Spontaneous
  <2>2. \A m \in M : Kind(m.topic) = "diag"
    BY MsgKind
  <2> HIDE DEF M
  <2>3. LinkOwed'
    BY <2>1, <2>2, AliveLink DEF RetainedInv
  <2>4. \A m \in AliveMsgs \cup M : Kind(m.topic) \in {"availability", "diag"}
    BY <2>1, <2>2, Alive
  <2> QED BY <2>1, <2>3, <2>4, QuietRead
<1> QED BY <1>1, <1>2, <1>3

\* What a telegram may show: of some of the items, that they are on or off.
Reading(items) == UNION {[part -> Switching] : part \in SUBSET items}

LEMMA ReadingShows ==
  ASSUME NEW items, NEW table \in [items -> Values], NEW seen \in Reading(items)
  PROVE  /\ \A x \in DOMAIN seen : x \in items /\ seen[x] \in Switching
         /\ Covered(table, seen) \in [items -> Values]
         /\ \A x \in items : Covered(table, seen)[x] = IF x \in DOMAIN seen THEN seen[x] ELSE table[x]
         /\ \A x \in items : table[x] # "unseen" => Covered(table, seen)[x] # "unseen"
<1>1. PICK part \in SUBSET items : seen \in [part -> Switching]
  BY DEF Reading
<1>2. \A x \in DOMAIN seen : x \in items /\ seen[x] \in {"ON", "OFF"}
  BY <1>1 DEF Switching
<1>3. DOMAIN table = items
  OBVIOUS
<1>4. Covered(table, seen) = [x \in items |-> IF x \in DOMAIN seen THEN seen[x] ELSE table[x]]
  BY <1>3 DEF Covered
<1> QED BY <1>2, <1>4 DEF Values, Switching

LEMMA InputsStep ==
  ASSUME RetainedInv, NEW seen \in Reading(ToSet(Sensors)), Inputs(seen)
  PROVE  RetainedInv'
<1> USE DEF RetainedInv, ViewOwed
<1> DEFINE M == AliveMsgs \cup SensorMsgs(seen)
<1>1. /\ NoteAlive /\ EndRead(M) /\ sensor' = Covered(sensor, seen)
      /\ UNCHANGED <<armState, ready, bypassed, skipped>>
  BY DEF Inputs
<1>2. /\ \A x \in DOMAIN seen : x \in ToSet(Sensors) /\ seen[x] \in {"ON", "OFF"}
      /\ sensor' \in [ToSet(Sensors) -> Values]
      /\ \A x \in ToSet(Sensors) : sensor'[x] = IF x \in DOMAIN seen THEN seen[x] ELSE sensor[x]
  BY <1>1, ReadingShows DEF Typed, Switching
<1>3. \A m \in SensorMsgs(seen) :
        \/ \E s \in DOMAIN seen : sensor[s] = "unseen" /\ m = Msg("reachable", s, "online")
        \/ \E s \in DOMAIN seen : sensor[s] # seen[s] /\ m = Msg("sensor", s, seen[s])
  BY DEF SensorMsgs
<1>4. \A m \in SensorMsgs(seen) :
        \/ Kind(m.topic) = "reachable" /\ m.value = "online"
             /\ Name(m.topic) \in DOMAIN seen /\ sensor[Name(m.topic)] = "unseen"
        \/ Kind(m.topic) = "sensor" /\ m.value = seen[Name(m.topic)]
             /\ Name(m.topic) \in DOMAIN seen /\ sensor[Name(m.topic)] # seen[Name(m.topic)]
  BY <1>3, MsgKind
<1>5. /\ \A s \in DOMAIN seen : sensor[s] = "unseen" => \E m \in M : m.topic = <<"reachable", s>>
      /\ \A s \in DOMAIN seen : sensor[s] # seen[s] => \E m \in M : m.topic = <<"sensor", s>>
  <2>1. /\ \A s \in DOMAIN seen : sensor[s] = "unseen" => Msg("reachable", s, "online") \in M
        /\ \A s \in DOMAIN seen : sensor[s] # seen[s] => Msg("sensor", s, seen[s]) \in M
    BY DEF SensorMsgs
  <2> HIDE DEF M
  <2> QED BY <2>1, MsgSays
<1>6. \A m \in SensorMsgs(seen) : Kind(m.topic) # "availability"
  BY <1>4
<1>7. LinkOwed'
  BY <1>1, <1>6, AliveLink
<1>8. /\ \A m \in M : Kind(m.topic) \in {"availability", "reachable", "sensor"}
      /\ \A m \in M : Kind(m.topic) = "reachable" =>
           m.value = "online" /\ Name(m.topic) \in DOMAIN seen /\ sensor[Name(m.topic)] = "unseen"
      /\ \A m \in M : Kind(m.topic) = "sensor" =>
           /\ m.value = seen[Name(m.topic)]
           /\ Name(m.topic) \in DOMAIN seen /\ sensor[Name(m.topic)] # seen[Name(m.topic)]
  BY <1>1, <1>4, Alive
<1> HIDE DEF M
<1>9. Typed' /\ NoZones'
  BY <1>1, <1>2, ReadTyped, ReadFrame DEF Typed, NoZones
<1>10. StateOwed' /\ ReadyOwed'
  <2>1. \A m \in M : m.topic # <<"state", "">> /\ m.topic # <<"ready", "">>
    BY <1>8, Kinds, Zenon
  <2> QED BY <1>1, <2>1, StateKept, ReadyKept
<1>11. ZonesOwed'
  <2>1. \A m \in M : \A z : m.topic # <<"bypassed", z>>
    BY <1>8, Kinds, Zenon
  <2> QED BY <1>1, <2>1, ZonesKept
<1>12. SensorsOwed'
  <2> SUFFICES ASSUME ~skipped', NEW i \in 1..Len(Sensors) PROVE ReachOwed(i)' /\ ValueOwed(i)'
    BY DEF SensorsOwed
  <2>1. Sensors[i] \in ToSet(Sensors)
    BY Listed
  <2>2. ReachOwed(i) /\ ValueOwed(i)
    BY <1>1 DEF SensorsOwed
  <2>3. /\ SensorPlace(i) \in Nat /\ SensorPlace(i)' \in Nat
        /\ SensorPlace(i) - 1 \in Nat /\ SensorPlace(i)' - 1 \in Nat
        /\ SensorPlace(i) <= SensorPlace(i)' /\ SensorPlace(i) - 1 <= SensorPlace(i)' - 1
    BY <1>1, PlacesGrow
  <2>4. watched' = watched
    BY <1>1, ReadFrame
  <2>5. ReachOwed(i)'
    <3>1. CASE Sensors[i] \in DOMAIN seen /\ sensor[Sensors[i]] = "unseen" /\ watched = <<"reachable", Sensors[i]>>
      <4>1. retry' \/ retained' = "online"
        <5>1. \A m \in M : m.topic = watched => m.value = "online"
          <6>1. Kind(watched) = "reachable" /\ Name(watched) = Sensors[i]
            BY <3>1, Kinds, Zenon
          <6>2. \A m \in M : Kind(m.topic) = "reachable" /\ Name(m.topic) = Sensors[i] => m.value = "online"
            BY <1>8
          <6> QED BY <6>1, <6>2, Zenon
        <5>2. \E m \in M : m.topic = watched
          BY <1>5, <3>1
        <5>3. watched # <<"availability", "">>
          BY <3>1, Kinds, Zenon
        <5> QED BY <1>1, <5>1, <5>2, <5>3, TopicTold
      <4>2. sensor'[Sensors[i]] # "unseen"
        BY <1>2, <2>1, <3>1
      <4> QED BY <4>1, <4>2 DEF ReachOwed, Owed, Owes
    <3>2. CASE ~(Sensors[i] \in DOMAIN seen /\ sensor[Sensors[i]] = "unseen")
      <4>1. sensor'[Sensors[i]] # "unseen" <=> sensor[Sensors[i]] # "unseen"
        BY <1>2, <2>1, <3>2
      <4>2. \A m \in M : m.topic # <<"reachable", Sensors[i]>>
        <5>1. \A m \in M : ~(Kind(m.topic) = "reachable" /\ Name(m.topic) = Sensors[i])
          BY <1>8, <3>2
        <5> QED BY <5>1, Kinds, Zenon
      <4> QED BY <1>1, <2>2, <2>3, <4>1, <4>2, ReachKept
    <3> QED BY <2>4, <3>1, <3>2 DEF ReachOwed
  <2>6. ValueOwed(i)'
    <3>1. CASE Sensors[i] \in DOMAIN seen /\ sensor[Sensors[i]] # seen[Sensors[i]] /\ watched = <<"sensor", Sensors[i]>>
      <4>1. retry' \/ retained' = seen[Sensors[i]]
        <5>1. \A m \in M : m.topic = watched => m.value = seen[Sensors[i]]
          <6>1. Kind(watched) = "sensor" /\ Name(watched) = Sensors[i]
            BY <3>1, Kinds, Zenon
          <6>2. \A m \in M : Kind(m.topic) = "sensor" /\ Name(m.topic) = Sensors[i] => m.value = seen[Sensors[i]]
            BY <1>8
          <6> QED BY <6>1, <6>2, Zenon
        <5>2. \E m \in M : m.topic = watched
          BY <1>5, <3>1
        <5>3. watched # <<"availability", "">>
          BY <3>1, Kinds, Zenon
        <5> QED BY <1>1, <5>1, <5>2, <5>3, TopicTold
      <4>2. sensor'[Sensors[i]] = seen[Sensors[i]]
        BY <1>2, <2>1, <3>1
      <4> QED BY <4>1, <4>2 DEF ValueOwed, Owed, Owes
    <3>2. CASE ~(Sensors[i] \in DOMAIN seen /\ sensor[Sensors[i]] # seen[Sensors[i]])
      <4>1. sensor'[Sensors[i]] = sensor[Sensors[i]]
        BY <1>2, <2>1, <3>2
      <4>2. \A m \in M : m.topic # <<"sensor", Sensors[i]>>
        <5>1. \A m \in M : ~(Kind(m.topic) = "sensor" /\ Name(m.topic) = Sensors[i])
          BY <1>8, <3>2
        <5> QED BY <5>1, Kinds, Zenon
      <4> QED BY <1>1, <2>2, <2>3, <4>1, <4>2, ValueKept
    <3> QED BY <2>4, <3>1, <3>2 DEF ValueOwed
  <2> QED BY <2>5, <2>6
<1> QED BY <1>7, <1>9, <1>10, <1>11, <1>12

\* A topic the handler tells of shows what it was told.
LEMMA KindTold ==
  ASSUME NEW M, EndRead(M), NEW kind, NEW name, watched = <<kind, name>>, kind # "availability",
         NEW v, \A m \in M : Kind(m.topic) = kind /\ Name(m.topic) = name => m.value = v,
         \E m \in M : m.topic = <<kind, name>>
  PROVE  retry' \/ retained' = v
<1>1. \A t, a, b : t = <<a, b>> => Kind(t) = a /\ Name(t) = b
  BY DEF Kind, Name
<1>2. Kind(watched) = kind /\ Name(watched) = name
  BY <1>1, Zenon
<1>3. \A m \in M : m.topic = watched => m.value = v
  BY <1>2, Zenon
<1>4. watched # <<"availability", "">>
  BY <1>2, Kinds, Zenon
<1>5. \E m \in M : m.topic = watched
  OBVIOUS
<1> QED BY <1>3, <1>4, <1>5, TopicTold

LEMMA OutputsStep ==
  ASSUME RetainedInv, NEW mode, NEW rdy \in {"yes", "no"}, NEW seen \in Reading(ToSet(Zones)),
         Outputs(mode, rdy, seen)
  PROVE  RetainedInv'
<1> USE DEF RetainedInv, ViewOwed
<1> DEFINE N == AreaMsgs(mode, rdy) \cup ZoneMsgs(seen)
           M == AliveMsgs \cup N
<1>1. /\ NoteAlive /\ EndRead(M) /\ bypassed' = Covered(bypassed, seen)
      /\ armState' = Derived(mode) /\ ready' = rdy /\ sensor' = sensor /\ skipped' = skipped
      /\ hiplex => DOMAIN seen = {}
  <2>1. M = AliveMsgs \cup AreaMsgs(mode, rdy) \cup ZoneMsgs(seen)
    OBVIOUS
  <2> HIDE DEF M
  <2> QED BY <2>1 DEF Outputs, AreaStatus
<1>2. /\ \A x \in DOMAIN seen : x \in ToSet(Zones) /\ seen[x] \in {"ON", "OFF"}
      /\ bypassed' \in [ToSet(Zones) -> Values]
      /\ \A x \in ToSet(Zones) : bypassed'[x] = IF x \in DOMAIN seen THEN seen[x] ELSE bypassed[x]
      /\ \A x \in ToSet(Zones) : bypassed[x] # "unseen" => bypassed'[x] # "unseen"
  BY <1>1, ReadingShows DEF Typed, Switching
<1>3. \A m \in N : \/ m = Msg("state", "", Derived(mode))
                   \/ m = Msg("ready", "", rdy) /\ rdy # ready
                   \/ \E z \in DOMAIN seen : m = Msg("bypassed", z, seen[z]) /\ bypassed[z] # seen[z]
  <2>1. \A m \in AreaMsgs(mode, rdy) : m = Msg("state", "", Derived(mode)) \/ (m = Msg("ready", "", rdy) /\ rdy # ready)
    BY DEF AreaMsgs, ReadyMsgs
  <2>2. \A m \in ZoneMsgs(seen) : \E z \in DOMAIN seen : m = Msg("bypassed", z, seen[z]) /\ bypassed[z] # seen[z]
    BY DEF ZoneMsgs
  <2> QED BY <2>1, <2>2
<1>4. /\ \A m \in M : Kind(m.topic) \in {"availability", "state", "ready", "bypassed"}
      /\ \A m \in M : Kind(m.topic) = "state" => m.value = armState'
      /\ \A m \in M : Kind(m.topic) = "ready" => m.value = ready' /\ ready' # ready
      /\ \A m \in M : Kind(m.topic) = "bypassed" =>
           /\ Name(m.topic) \in DOMAIN seen /\ m.value = seen[Name(m.topic)]
           /\ bypassed[Name(m.topic)] # seen[Name(m.topic)]
  <2>1. /\ Kind(Msg("state", "", Derived(mode)).topic) = "state"
        /\ Msg("state", "", Derived(mode)).value = Derived(mode)
        /\ Kind(Msg("ready", "", rdy).topic) = "ready" /\ Msg("ready", "", rdy).value = rdy
        /\ \A z : /\ Kind(Msg("bypassed", z, seen[z]).topic) = "bypassed"
                  /\ Name(Msg("bypassed", z, seen[z]).topic) = z
                  /\ Msg("bypassed", z, seen[z]).value = seen[z]
    BY MsgKind, Zenon
  <2>2. \A m \in N :
          \/ Kind(m.topic) = "state" /\ m.value = armState'
          \/ Kind(m.topic) = "ready" /\ m.value = ready' /\ ready' # ready
          \/ /\ Kind(m.topic) = "bypassed"
             /\ Name(m.topic) \in DOMAIN seen /\ m.value = seen[Name(m.topic)]
             /\ bypassed[Name(m.topic)] # seen[Name(m.topic)]
    BY <1>1, <1>3, <2>1
  <2> HIDE DEF N
  <2>3. \A m \in AliveMsgs : Kind(m.topic) = "availability"
    BY <1>1, Alive
  <2> QED BY <2>2, <2>3
<1>5. /\ armState' # armState => \E m \in M : m.topic = <<"state", "">>
      /\ ready' # ready => \E m \in M : m.topic = <<"ready", "">>
      /\ \A z \in DOMAIN seen : seen[z] = "ON" /\ bypassed[z] # "ON" => \E m \in M : m.topic = <<"bypassed", z>>
  <2>1. /\ armState' # armState => Msg("state", "", Derived(mode)) \in M
        /\ ready' # ready => Msg("ready", "", rdy) \in M
        /\ \A z \in DOMAIN seen : seen[z] = "ON" /\ bypassed[z] # "ON" => Msg("bypassed", z, seen[z]) \in M
    BY <1>1 DEF AreaMsgs, ReadyMsgs, ZoneMsgs
  <2> HIDE DEF M
  <2> QED BY <2>1, MsgSays, Zenon
<1>6. LinkOwed'
  <2>1. \A m \in N : Kind(m.topic) # "availability"
    <3>1. /\ Kind(Msg("state", "", Derived(mode)).topic) = "state" /\ Kind(Msg("ready", "", rdy).topic) = "ready"
          /\ \A z : Kind(Msg("bypassed", z, seen[z]).topic) = "bypassed"
      BY MsgKind, Zenon
    <3> HIDE DEF N
    <3> QED BY <1>3, <3>1
  <2> HIDE DEF N
  <2> QED BY <1>1, <2>1, AliveLink
<1> HIDE DEF N, M
<1>7. Typed' /\ NoZones'
  <2>1. Typed'
    BY <1>1, <1>2, ReadTyped DEF Typed
  <2>2. hiplex' = hiplex
    BY <1>1, ReadFrame
  <2> QED BY <1>1, <1>2, <2>1, <2>2 DEF NoZones
<1>8. watched' = watched
  BY <1>1, ReadFrame
<1>9. StateOwed'
  <2>1. CASE \A m \in M : m.topic # <<"state", "">>
    BY <1>1, <1>5, <2>1, StateKept
  <2>2. CASE watched = <<"state", "">> /\ \E m \in M : m.topic = <<"state", "">>
    <3>1. retry' \/ retained' = armState'
      <4>1. \A m \in M : Kind(m.topic) = "state" /\ Name(m.topic) = "" => m.value = armState'
        BY <1>4
      <4> QED BY <1>1, <2>2, <4>1, KindTold
    <3> QED BY <3>1 DEF StateOwed, Owed, Owes
  <2>3. CASE watched # <<"state", "">>
    BY <1>8, <2>3 DEF StateOwed
  <2> QED BY <2>1, <2>2, <2>3
<1>10. ReadyOwed'
  <2>1. CASE \A m \in M : m.topic # <<"ready", "">>
    BY <1>1, <1>5, <2>1, ReadyKept
  <2>2. CASE watched = <<"ready", "">> /\ \E m \in M : m.topic = <<"ready", "">>
    <3>1. retry' \/ retained' = ready'
      <4>1. \A m \in M : Kind(m.topic) = "ready" /\ Name(m.topic) = "" => m.value = ready'
        BY <1>4
      <4> QED BY <1>1, <2>2, <4>1, KindTold
    <3> QED BY <3>1 DEF ReadyOwed, Owed, Owes
  <2>3. CASE watched # <<"ready", "">>
    BY <1>8, <2>3 DEF ReadyOwed
  <2> QED BY <2>1, <2>2, <2>3
<1>11. SensorsOwed'
  <2>1. \A m \in M : \A s : m.topic # <<"reachable", s>> /\ m.topic # <<"sensor", s>>
    BY <1>4, Kinds, Zenon
  <2>2. ready' # "unseen"
    BY <1>1
  <2> QED BY <1>1, <1>2, <2>1, <2>2, SensorsKept
<1>12. ZonesOwed'
  <2> SUFFICES ASSUME NEW i \in 1..Len(Zones), watched = <<"bypassed", Zones[i]>>,
                      bypassed'[Zones[i]] = "ON"
               PROVE  retained' = "ON" \/ Owes(retry', connected', resub', pending', cursor', ZonePlace(i)')
    BY <1>8 DEF ZonesOwed, Owed
  <2>1. Zones[i] \in ToSet(Zones)
    BY Listed
  <2>2. CASE Zones[i] \in DOMAIN seen /\ seen[Zones[i]] = "ON" /\ bypassed[Zones[i]] # "ON"
    <3>1. retry' \/ retained' = "ON"
      <4>1. \A m \in M : Kind(m.topic) = "bypassed" /\ Name(m.topic) = Zones[i] => m.value = "ON"
        BY <1>4, <2>2
      <4>2. \E m \in M : m.topic = <<"bypassed", Zones[i]>>
        BY <1>5, <2>2
      <4> QED BY <1>1, <4>1, <4>2, KindTold
    <3> QED BY <3>1 DEF Owes
  <2>3. CASE ~(Zones[i] \in DOMAIN seen /\ seen[Zones[i]] = "ON" /\ bypassed[Zones[i]] # "ON")
    <3>1. bypassed[Zones[i]] = "ON" /\ (Zones[i] \in DOMAIN seen => seen[Zones[i]] = "ON")
      BY <1>2, <2>1, <2>3
    <3>2. \A m \in M : m.topic # watched
      <4>1. \A m \in M : ~(Kind(m.topic) = "bypassed" /\ Name(m.topic) = Zones[i])
        BY <1>4, <3>1
      <4>2. Kind(watched) = "bypassed" /\ Name(watched) = Zones[i]
        BY Kinds, Zenon
      <4> QED BY <4>1, <4>2, Zenon
    <3>3. ready' # "unseen"
      BY <1>1
    <3> QED BY <1>1, <1>2, <3>1, <3>2, <3>3, ZoneKept
  <2> QED BY <2>2, <2>3
<1> QED BY <1>6, <1>7, <1>9, <1>10, <1>11, <1>12

\* A view that is no shorter holds the sensors no earlier.
LEMMA NoShorter ==
  ASSUME NEW i \in 1..Len(Sensors)
  PROVE  /\ SensorPlace(i) \in Nat /\ SensorPlace(i)' \in Nat
         /\ SensorPlace(i) - 1 \in Nat /\ SensorPlace(i)' - 1 \in Nat
         /\ ~(ViewLength' < ViewLength) =>
              SensorPlace(i) <= SensorPlace(i)' /\ SensorPlace(i) - 1 <= SensorPlace(i)' - 1
<1>1. SensorPlace(i)' \in Nat /\ SensorPlace(i)' >= 4
  BY PlacesNext
<1>2. SensorPlace(i) \in 4..ViewLength /\ ViewLength \in Nat
  BY Places
<1>3. SensorPlace(i) \in Nat /\ SensorPlace(i)' - 1 \in Nat /\ SensorPlace(i) - 1 \in Nat
  BY <1>1, <1>2
<1>4. i \in Nat /\ Len(Sensors) \in Nat
  BY Listed
<1> DEFINE a == 2 + ReadyCount + ZoneCount(Len(Zones))
           b == 2 + ReadyCount' + ZoneCount(Len(Zones))'
<1>5. /\ SensorPlace(i) = a + 2 * i /\ ViewLength = a + 2 * Len(Sensors)
      /\ SensorPlace(i)' = b + 2 * i /\ ViewLength' = b + 2 * Len(Sensors)
  BY DEF SensorPlace, ViewLength
<1>6. a \in Nat /\ b \in Nat
  <2>1. ReadyCount \in {0, 1} /\ ReadyCount' \in {0, 1}
    BY DEF ReadyCount
  <2>2. ZoneCount(Len(Zones)) \in Nat
    BY Listed, CountFits DEF ZoneCount, ShownUpTo
  <2>3. Cardinality(ShownUpTo(bypassed', Len(Zones))) \in Nat
    BY Listed, CountFits
  <2>4. ZoneCount(Len(Zones))' \in Nat
    BY <2>3 DEF ZoneCount, ShownUpTo
  <2> QED BY <2>1, <2>2, <2>4
<1> HIDE DEF a, b
<1>7. ~(ViewLength' < ViewLength) => SensorPlace(i) <= SensorPlace(i)' /\ SensorPlace(i) - 1 <= SensorPlace(i)' - 1
  <2>1. ASSUME NEW n \in Nat, NEW p, NEW q, NEW u, NEW w, ~(w < u),
               p = a + 2 * i, u = a + 2 * n, q = b + 2 * i, w = b + 2 * n
        PROVE  p <= q /\ p - 1 <= q - 1
    BY <1>4, <1>6, <2>1
  <2> QED BY <1>4, <1>5, <2>1, Zenon
<1> QED BY <1>1, <1>3, <1>7

LEMMA TickStep ==
  ASSUME RetainedInv, NEW late \in SUBSET Seen(sensor), NEW areaLost \in BOOLEAN,
         NEW stale \in BOOLEAN, Tick(late, areaLost, stale)
  PROVE  RetainedInv'
<1> USE DEF RetainedInv, ViewOwed
<1> DEFINE L == {Msg("reachable", s, "offline") : s \in late}
           R == IF stale THEN {Msg("availability", "", "offline"), Msg("state", "", "unavailable")}
                ELSE IF areaLost THEN {Msg("state", "", "unknown")} ELSE {}
           M == L \cup R
<1>1. /\ areaLost => hiplex
      /\ online' = (online /\ ~stale)
      /\ skipped' = (skipped \/ (pending /\ ViewLength' < ViewLength))
  BY DEF Tick
<1>2. EndRead(M)
  BY DEF Tick
<1>3. \A s \in ToSet(Sensors) : s \in late \/ sensor[s] = "unseen" \/ ~stale
  BY DEF Tick, Seen, Typed
<1>4. /\ sensor' \in [ToSet(Sensors) -> Values]
      /\ \A s \in ToSet(Sensors) : sensor'[s] = IF s \in late THEN "unseen" ELSE sensor[s]
  <2>1. CASE stale
    <3>1. sensor' = [s \in ToSet(Sensors) |-> "unseen"]
      BY <2>1 DEF Tick, Forget
    <3> QED BY <1>3, <2>1, <3>1 DEF Values
  <2>2. CASE ~stale
    <3>1. sensor' = [s \in ToSet(Sensors) |-> IF s \in late THEN "unseen" ELSE sensor[s]]
      BY <2>2 DEF Tick, Typed
    <3> QED BY <3>1 DEF Values, Typed
  <2> QED BY <2>1, <2>2
<1>5. /\ stale => /\ armState' = "unknown" /\ ready' = "unseen"
                  /\ bypassed' = [z \in ToSet(Zones) |-> "unseen"]
      /\ ~stale => /\ armState' = IF areaLost THEN "unknown" ELSE armState
                   /\ ready' = IF areaLost THEN "unseen" ELSE ready
                   /\ bypassed' = bypassed
  BY DEF Tick, Forget
<1>6. /\ \A m \in M : Kind(m.topic) \in {"reachable", "availability", "state"}
      /\ \A m \in M : Kind(m.topic) = "reachable" => m.value = "offline" /\ Name(m.topic) \in late
      /\ \A m \in M : Kind(m.topic) = "availability" => m.value = "offline"
      /\ \A m \in M : Kind(m.topic) = "state" =>
           \/ stale /\ m.value = "unavailable"
           \/ ~stale /\ areaLost /\ m.value = "unknown"
  <2>1. \A m \in L : Kind(m.topic) = "reachable" /\ m.value = "offline" /\ Name(m.topic) \in late
    BY MsgKind
  <2>2. /\ Kind(Msg("availability", "", "offline").topic) = "availability"
        /\ Msg("availability", "", "offline").value = "offline"
        /\ Kind(Msg("state", "", "unavailable").topic) = "state"
        /\ Msg("state", "", "unavailable").value = "unavailable"
        /\ Kind(Msg("state", "", "unknown").topic) = "state"
        /\ Msg("state", "", "unknown").value = "unknown"
    BY MsgKind, Zenon
  <2>3. \A m \in R : \/ Kind(m.topic) = "availability" /\ m.value = "offline"
                     \/ Kind(m.topic) = "state" /\ stale /\ m.value = "unavailable"
                     \/ Kind(m.topic) = "state" /\ ~stale /\ areaLost /\ m.value = "unknown"
    BY <2>2
  <2> HIDE DEF L, R
  <2> QED BY <2>1, <2>3
<1>7. /\ \A s \in late : \E m \in M : m.topic = <<"reachable", s>>
      /\ stale => \E m \in M : m.topic = <<"availability", "">>
      /\ stale \/ areaLost => \E m \in M : m.topic = <<"state", "">>
  <2>1. /\ \A s \in late : Msg("reachable", s, "offline") \in M
        /\ stale => Msg("availability", "", "offline") \in M /\ Msg("state", "", "unavailable") \in M
        /\ ~stale /\ areaLost => Msg("state", "", "unknown") \in M
    OBVIOUS
  <2> HIDE DEF M
  <2> QED BY <2>1, MsgSays, Zenon
<1> HIDE DEF L, R, M
<1>8. LinkOwed'
  <2>1. \A m \in M : m.topic = <<"availability", "">> => m.value = "offline"
    BY <1>6, Kinds, Zenon
  <2>2. \A m \in M : m.topic = <<"availability", "">> /\ m.value = "online" => online'
    BY <2>1
  <2>3. online /\ ~online' => stale
    BY <1>1
  <2> QED BY <1>2, <1>7, <2>2, <2>3, LinkRead
<1>9. Typed' /\ NoZones'
  <2>1. bypassed' \in [ToSet(Zones) -> Values]
    BY <1>5, NothingSeen DEF Typed
  <2>2. Typed'
    BY <1>2, <1>4, <2>1, ReadTyped
  <2>3. hiplex' = hiplex
    BY <1>2, ReadFrame
  <2> QED BY <1>5, <2>2, <2>3 DEF NoZones
<1>10. watched' = watched
  BY <1>2, ReadFrame
<1>11. StateOwed'
  <2>1. CASE ~stale /\ ~areaLost
    <3>1. \A m \in M : Kind(m.topic) # "state"
      BY <1>6, <2>1
    <3>2. \A m \in M : m.topic # <<"state", "">>
      BY <3>1, Kinds, Zenon
    <3>3. armState' = armState
      BY <1>5, <2>1
    <3> QED BY <1>2, <3>2, <3>3, StateKept
  <2>2. CASE (stale \/ areaLost) /\ watched = <<"state", "">>
    <3>1. armState' = "unknown"
      BY <1>5, <2>2
    <3>2. \E m \in M : m.topic = <<"state", "">>
      BY <1>7, <2>2
    <3>3. PICK v : v = IF stale THEN "unavailable" ELSE "unknown"
      OBVIOUS
    <3>4. \A m \in M : Kind(m.topic) = "state" /\ Name(m.topic) = "" => m.value = v
      BY <1>6, <3>3
    <3>5. retry' \/ retained' = v
      BY <1>2, <2>2, <3>2, <3>4, KindTold
    <3>6. retry' \/ retained' \notin ArmStates
      BY <3>3, <3>5 DEF ArmStates
    <3> QED BY <3>1, <3>6 DEF StateOwed, Owed, Owes
  <2>3. CASE watched # <<"state", "">>
    BY <1>10, <2>3 DEF StateOwed
  <2> QED BY <2>1, <2>2, <2>3
<1>12. ReadyOwed'
  <2>1. \A m \in M : m.topic # <<"ready", "">>
    BY <1>6, Kinds, Zenon
  <2>2. ready' = ready \/ ready' = "unseen"
    BY <1>5
  <2> QED BY <1>2, <2>1, <2>2, ReadyKept
<1>13. ZonesOwed'
  <2>1. CASE stale \/ areaLost
    <3>1. \A z \in ToSet(Zones) : bypassed'[z] = "unseen"
      BY <1>1, <1>5, <2>1 DEF NoZones
    <3>2. \A i \in 1..Len(Zones) : bypassed'[Zones[i]] # "ON"
      BY <3>1, Listed
    <3> QED BY <3>2 DEF ZonesOwed
  <2>2. CASE ~stale /\ ~areaLost
    <3>1. \A m \in M : \A z : m.topic # <<"bypassed", z>>
      BY <1>6, Kinds, Zenon
    <3>2. bypassed' = bypassed /\ ready' = ready
      BY <1>5, <2>2
    <3> QED BY <1>2, <3>1, <3>2, ZonesKept
  <2> QED BY <2>1, <2>2
<1>14. SensorsOwed'
  <2> SUFFICES ASSUME ~skipped', NEW i \in 1..Len(Sensors) PROVE ReachOwed(i)' /\ ValueOwed(i)'
    BY DEF SensorsOwed
  <2>1. Sensors[i] \in ToSet(Sensors)
    BY Listed
  <2>2. ReachOwed(i) /\ ValueOwed(i)
    BY <1>1 DEF SensorsOwed
  <2>3. /\ SensorPlace(i) \in Nat /\ SensorPlace(i)' \in Nat
        /\ SensorPlace(i) - 1 \in Nat /\ SensorPlace(i)' - 1 \in Nat
        /\ pending => SensorPlace(i) <= SensorPlace(i)' /\ SensorPlace(i) - 1 <= SensorPlace(i)' - 1
    <3>1. pending => ~(ViewLength' < ViewLength)
      BY <1>1
    <3> QED BY <3>1, NoShorter, Zenon
  <2>4. ReachOwed(i)'
    <3>1. CASE Sensors[i] \in late /\ watched = <<"reachable", Sensors[i]>>
      <4>1. retry' \/ retained' = "offline"
        <5>1. \A m \in M : Kind(m.topic) = "reachable" /\ Name(m.topic) = Sensors[i] => m.value = "offline"
          BY <1>6
        <5>2. \E m \in M : m.topic = <<"reachable", Sensors[i]>>
          BY <1>7, <3>1
        <5> QED BY <1>2, <3>1, <5>1, <5>2, KindTold
      <4>2. sensor'[Sensors[i]] = "unseen"
        BY <1>4, <2>1, <3>1
      <4> QED BY <4>1, <4>2 DEF ReachOwed, Owed, Owes
    <3>2. CASE Sensors[i] \notin late
      <4>1. sensor'[Sensors[i]] = sensor[Sensors[i]]
        BY <1>4, <2>1, <3>2
      <4>2. \A m \in M : m.topic # <<"reachable", Sensors[i]>>
        <5>1. \A m \in M : ~(Kind(m.topic) = "reachable" /\ Name(m.topic) = Sensors[i])
          BY <1>6, <3>2
        <5> QED BY <5>1, Kinds, Zenon
      <4> QED BY <1>2, <2>2, <2>3, <4>1, <4>2, ReachKept
    <3> QED BY <1>10, <3>1, <3>2 DEF ReachOwed
  <2>5. ValueOwed(i)'
    <3>1. CASE sensor'[Sensors[i]] = "unseen"
      BY <3>1 DEF ValueOwed
    <3>2. CASE sensor'[Sensors[i]] # "unseen"
      <4>1. sensor'[Sensors[i]] = sensor[Sensors[i]]
        BY <1>4, <2>1, <3>2
      <4>2. \A m \in M : m.topic # <<"sensor", Sensors[i]>>
        BY <1>6, Kinds, Zenon
      <4> QED BY <1>2, <2>2, <2>3, <4>1, <4>2, ValueKept
    <3> QED BY <3>1, <3>2
  <2> QED BY <2>4, <2>5
<1> QED BY <1>8, <1>9, <1>11, <1>12, <1>13, <1>14

LEMMA ReadStep ==
  ASSUME RetainedInv, Read
  PROVE  RetainedInv'
<1>1. ASSUME NEW seen \in Readings("sensor", ToSet(Sensors)), Inputs(seen) PROVE RetainedInv'
  <2>1. seen \in Reading(ToSet(Sensors))
    BY DEF Readings, Reading
  <2> QED BY <1>1, <2>1, InputsStep
<1>2. ASSUME NEW mode, NEW rdy \in Observed("ready", "", {"yes", "no"}, "yes"),
             NEW seen \in Readings("bypassed", ToSet(Zones)), Outputs(mode, rdy, seen)
      PROVE  RetainedInv'
  <2>1. seen \in Reading(ToSet(Zones))
    BY DEF Readings, Reading
  <2>2. rdy \in {"yes", "no"}
    BY DEF Observed
  <2> QED BY <1>2, <2>1, <2>2, OutputsStep
<1>3. Poll \/ Partial \/ (\E fault : Spontaneous(fault)) => RetainedInv'
  BY QuietReads
<1>4. ASSUME NEW late \in SUBSET Seen(sensor), NEW areaLost \in BOOLEAN, NEW stale \in BOOLEAN,
             Tick(late, areaLost, stale)
      PROVE  RetainedInv'
  BY <1>4, TickStep
<1> QED BY <1>1, <1>2, <1>3, <1>4 DEF Read

LEMMA StepKeeps == RetainedInv /\ [Next]_vars => RetainedInv'
<1> SUFFICES ASSUME RetainedInv, [Next]_vars PROVE RetainedInv'
  OBVIOUS
<1>1. CASE UNCHANGED vars
  <2>1. UNCHANGED <<hiplex, watched, online, armState, ready, bypassed, sensor, connected, resub,
                    pending, cursor, retry, retained, skipped>>
    BY <1>1 DEF vars, core, sink, batch
  <2>2. Typed' /\ NoZones' /\ LinkOwed'
    BY <2>1 DEF RetainedInv, Typed, NoZones, LinkOwed, Shows
  <2>3. /\ \A place : Owed(place)' = Owed(place)
        /\ \A i : ZonePlace(i)' = ZonePlace(i) /\ SensorPlace(i)' = SensorPlace(i)
    BY <2>1 DEF Owed, Owes, ZonePlace, SensorPlace, ZoneCount, ReadyCount
  <2>4. StateOwed' /\ ReadyOwed'
    BY <2>1 DEF RetainedInv, ViewOwed, StateOwed, ReadyOwed, Owed, Owes
  <2>5. ZonesOwed'
    BY <2>1, <2>3 DEF RetainedInv, ViewOwed, ZonesOwed, Owed, Owes
  <2>6. SensorsOwed'
    BY <2>1, <2>3 DEF RetainedInv, ViewOwed, SensorsOwed, ReachOwed, ValueOwed, Owed, Owes
  <2> QED BY <2>2, <2>4, <2>5, <2>6 DEF RetainedInv, ViewOwed
<1>2. CASE Next
  BY <1>2, LinkSteps, FreshSteps, ServeStep, ReadStep DEF Next
<1> QED BY <1>1, <1>2

LEMMA Retained == Spec => []RetainedInv
  BY InitRetained, StepKeeps, PTL DEF Spec

-----------------------------------------------------------------------------
(* What the broker retains *)

\* A settled sink owes nothing.
LEMMA SettledOwesNothing ==
  ASSUME Typed, Settled, NEW place PROVE ~Owed(place)
  BY DEF Settled, Owed, Owes

\* Whatever is lost, refused or replayed, the broker says the bridge is online
\* only while the core takes the line for alive or the sink has yet to tell:
\* note_alive, go_unavailable, publish_raw, request_setup and the last will.
THEOREM OnlineNeverStale == Spec => []OnlineIsTrue
<1>1. RetainedInv => OnlineIsTrue
  BY DEF RetainedInv, LinkOwed, OnlineIsTrue
<1> QED BY <1>1, Retained, PTL

\* Once the sink has nothing left to say the broker shows the arm state the core
\* has, and none while the core has none (derive_arm_state, go_unavailable, republish_for_each).
THEOREM ArmStateNeverStale == Spec => []StateIsCurrent
<1>1. RetainedInv => StateIsCurrent
  BY SettledOwesNothing DEF RetainedInv, ViewOwed, StateOwed, StateIsCurrent
<1> QED BY <1>1, Retained, PTL

\* The readiness at the broker is the one the gate before arming consults
\* (update_readiness, go_unavailable, and the paced PublishBatch).
THEOREM ReadinessNeverStale == Spec => []ReadinessIsCurrent
<1>1. RetainedInv => ReadinessIsCurrent
  BY SettledOwesNothing DEF RetainedInv, ViewOwed, ReadyOwed, ReadinessIsCurrent
<1> QED BY <1>1, Retained, PTL

\* Unless the view shrank under a running batch, a settled sink has told of each
\* sensor whether it is reachable, and its value (apply_block_status, PublishBatch).
THEOREM SensorsNeverStale == Spec => []SensorsAreCurrent
<1>1. RetainedInv => SensorsAreCurrent
  <2> SUFFICES ASSUME RetainedInv, Settled, ~skipped, NEW s \in DOMAIN sensor
               PROVE  /\ watched = <<"reachable", s>> => (retained = "online" <=> sensor[s] # "unseen")
                      /\ watched = <<"sensor", s>> /\ sensor[s] # "unseen" => retained = sensor[s]
    BY DEF SensorsAreCurrent
  <2>1. PICK i \in 1..Len(Sensors) : s = Sensors[i]
    BY DEF RetainedInv, Typed, ToSet
  <2>2. ReachOwed(i) /\ ValueOwed(i)
    BY DEF RetainedInv, ViewOwed, SensorsOwed
  <2>3. \A place : ~Owed(place)
    BY SettledOwesNothing DEF RetainedInv
  <2> QED BY <2>1, <2>2, <2>3 DEF ReachOwed, ValueOwed
<1> QED BY <1>1, Retained, PTL

\* A detection area the panel has bypassed is never hidden by a settled broker
\* (update_mb_bypassed, republish_for_each).
THEOREM BypassNeverLost == Spec => []BypassNeverHidden
<1>1. RetainedInv => BypassNeverHidden
  <2> SUFFICES ASSUME RetainedInv, Settled, NEW z \in DOMAIN bypassed,
                      watched = <<"bypassed", z>>, bypassed[z] = "ON"
               PROVE  retained = "ON"
    BY DEF BypassNeverHidden
  <2>1. PICK i \in 1..Len(Zones) : z = Zones[i]
    BY DEF RetainedInv, Typed, ToSet
  <2>2. ~Owed(ZonePlace(i))
    BY SettledOwesNothing DEF RetainedInv
  <2> QED BY <2>1, <2>2 DEF RetainedInv, ViewOwed, ZonesOwed
<1> QED BY <1>1, Retained, PTL
=============================================================================
