-------------------------- MODULE HaDeletionsProofs --------------------------
(***************************************************************************)
(* Theorems about HaDeletions, for every set of entities and               *)
(* configurations, any size of the journal and of the outbox, and any      *)
(* number of commits, errors, lost connections and restarts: the types,    *)
(* that no entity that is to be removed is ever forgotten, and that in the *)
(* end exactly the configured ones are shown.                              *)
(*                                                                         *)
(* The journal may only lose its first entry once the broker has           *)
(* acknowledged the clear that removes it; the argument follows that clear *)
(* (AckMeansGone) from the outbox over the broker and the pump to the      *)
(* loop.                                                                   *)
(***************************************************************************)
EXTENDS HaDeletions, FiniteSetTheorems, SequenceTheorems, TLAPS

\* What is stored in flash fits back into memory.
FlashFits == nvs \in Seq(Entities) /\ Len(nvs) <= LIMIT /\ IsInjective(nvs)

Typed == TypeOK /\ FlashFits

-----------------------------------------------------------------------------
(* Sequences and sets *)

LEMMA Listed ==
  ASSUME NEW S, IsFiniteSet(S)
  PROVE  /\ SetToSeq(S) \in Seq(S) /\ Len(SetToSeq(S)) = Cardinality(S)
         /\ ToSet(SetToSeq(S)) = S /\ IsInjective(SetToSeq(S))
<1> DEFINE n == Cardinality(S)
<1>1. n \in Nat /\ ExistsBijection(1..n, S)
  BY FS_CardinalityType
<1>2. \E f \in [1..n -> S] : IsInjective(f)
  BY <1>1 DEF ExistsBijection, Bijection, Injection
<1>3. SetToSeq(S) \in [1..n -> S] /\ IsInjective(SetToSeq(S))
  BY <1>2 DEF SetToSeq
<1>4. IsFiniteSet(1..n) /\ Cardinality(1..n) = n
  BY <1>1, FS_Interval
<1>5. SetToSeq(S) \in Injection(1..n, S)
  BY <1>3 DEF Injection
<1>6. SetToSeq(S) \in Surjection(1..n, S)
  BY <1>4, <1>5, FS_Injection
<1>7. ToSet(SetToSeq(S)) = S
  BY <1>6 DEF Surjection, ToSet
<1>8. SetToSeq(S) \in Seq(S) /\ Len(SetToSeq(S)) = n
  BY <1>1, <1>3
<1> QED BY <1>3, <1>7, <1>8

LEMMA Prefixed ==
  ASSUME NEW S, NEW s \in Seq(S), NEW t \in Seq(S), NEW n \in Nat, Len(s) <= n,
         IsInjective(s), IsInjective(t), ToSet(s) \cap ToSet(t) = {},
         NEW p, p = s \o t \/ (p = SubSeq(s \o t, 1, n) /\ n <= Len(s) + Len(t))
  PROVE  /\ p \in Seq(S) /\ IsInjective(p)
         /\ Len(s) <= Len(p) /\ \A i \in 1..Len(s) : p[i] = s[i]
         /\ ToSet(s) \subseteq ToSet(p)
         /\ s # <<>> => p # <<>> /\ Head(p) = Head(s)
<1> DEFINE all == s \o t
<1>1. /\ all \in Seq(S) /\ Len(all) = Len(s) + Len(t) /\ Len(s) \in Nat /\ Len(t) \in Nat
      /\ \A i \in 1..Len(all) : all[i] = IF i <= Len(s) THEN s[i] ELSE t[i - Len(s)]
  BY ConcatProperties, LenProperties
<1> HIDE DEF all
<1>2. /\ p \in Seq(S) /\ Len(p) \in Nat /\ Len(p) <= Len(all) /\ Len(s) <= Len(p)
      /\ \A i \in 1..Len(p) : p[i] = all[i]
  <2>1. CASE p = all
    BY <1>1, <2>1
  <2>2. CASE p # all
    <3>1. p = SubSeq(all, 1, n) /\ n <= Len(all)
      BY <1>1, <2>2 DEF all
    <3>2. \A i \in 1..n : all[i] \in S
      BY <1>1, <3>1
    <3>3. /\ p \in Seq(S) /\ Len(p) = IF 1 <= n THEN n - 1 + 1 ELSE 0
          /\ \A i \in 1..(n - 1 + 1) : p[i] = all[1 + i - 1]
      BY <3>1, <3>2, SubSeqProperties
    <3> QED BY <1>1, <2>2, <3>1, <3>3
  <2> QED BY <2>1, <2>2
<1>3. \A i \in 1..Len(p) : p[i] = IF i <= Len(s) THEN s[i] ELSE t[i - Len(s)]
  BY <1>1, <1>2
<1>4. IsInjective(p)
  <2> SUFFICES ASSUME NEW i \in 1..Len(p), NEW j \in 1..Len(p), p[i] = p[j] PROVE i = j
    BY <1>2 DEF IsInjective
  <2>1. DOMAIN s = 1..Len(s) /\ DOMAIN t = 1..Len(t)
    OBVIOUS
  <2>2. \A k \in 1..Len(s) : s[k] \in ToSet(s)
    BY <2>1 DEF ToSet
  <2>3. \A k \in 1..Len(t) : t[k] \in ToSet(t)
    BY <2>1 DEF ToSet
  <2>4. \A k \in 1..Len(p) : k <= Len(s) => k \in 1..Len(s) /\ p[k] = s[k]
    BY <1>1, <1>3
  <2>5. \A k \in 1..Len(p) : ~(k <= Len(s)) => k - Len(s) \in 1..Len(t) /\ p[k] = t[k - Len(s)]
    BY <1>1, <1>2, <1>3
  <2>6. CASE i <= Len(s) /\ j <= Len(s)
    BY <2>1, <2>4, <2>6 DEF IsInjective
  <2>7. CASE ~(i <= Len(s)) /\ ~(j <= Len(s))
    <3>1. i - Len(s) = j - Len(s)
      BY <2>1, <2>5, <2>7 DEF IsInjective
    <3> QED BY <1>1, <1>2, <3>1
  <2>8. CASE i <= Len(s) /\ ~(j <= Len(s))
    BY <2>2, <2>3, <2>4, <2>5, <2>8
  <2>9. CASE ~(i <= Len(s)) /\ j <= Len(s)
    BY <2>2, <2>3, <2>4, <2>5, <2>9
  <2> QED BY <2>6, <2>7, <2>8, <2>9
<1>5. \A i \in 1..Len(s) : i \in 1..Len(p) /\ p[i] = s[i]
  BY <1>1, <1>2, <1>3
<1>6. ToSet(s) \subseteq ToSet(p)
  <2>1. DOMAIN s = 1..Len(s) /\ DOMAIN p = 1..Len(p)
    BY <1>2
  <2> QED BY <1>5, <2>1 DEF ToSet
<1>7. s # <<>> => p # <<>> /\ Head(p) = Head(s)
  BY <1>1, <1>2, <1>5, EmptySeq
<1> QED BY <1>1, <1>2, <1>4, <1>5, <1>6, <1>7 DEF all

LEMMA TailFacts ==
  ASSUME NEW S, NEW s \in Seq(S), s # <<>>
  PROVE  /\ Tail(s) \in Seq(S) /\ Len(s) \in Nat /\ Len(Tail(s)) = Len(s) - 1
         /\ Head(s) = s[1] /\ 1 \in 1..Len(s) /\ s[1] \in S
         /\ \A i \in 1..Len(Tail(s)) : i + 1 \in 1..Len(s) /\ Tail(s)[i] = s[i + 1]
         /\ ToSet(Tail(s)) \subseteq ToSet(s) /\ ToSet(s) \subseteq ToSet(Tail(s)) \union {Head(s)}
         /\ IsInjective(s) => IsInjective(Tail(s))
<1>1. /\ Tail(s) \in Seq(S) /\ Len(s) \in Nat \ {0} /\ Len(Tail(s)) = Len(s) - 1
      /\ Head(s) = s[1] /\ DOMAIN s = 1..Len(s) /\ DOMAIN Tail(s) = 1..Len(Tail(s))
      /\ \A i \in 1..Len(Tail(s)) : Tail(s)[i] = s[i + 1]
  OBVIOUS
<1>2. \A i \in 1..Len(Tail(s)) : i + 1 \in 1..Len(s) /\ Tail(s)[i] = s[i + 1]
  BY <1>1
<1>3. \A i \in 1..Len(s) : i # 1 => i - 1 \in 1..Len(Tail(s)) /\ Tail(s)[i - 1] = s[i]
  <2> SUFFICES ASSUME NEW i \in 1..Len(s), i # 1
               PROVE i - 1 \in 1..Len(Tail(s)) /\ Tail(s)[i - 1] = s[i]
    OBVIOUS
  <2>1. i - 1 \in 1..Len(Tail(s)) /\ (i - 1) + 1 = i
    BY <1>1
  <2>2. Tail(s)[i - 1] = s[(i - 1) + 1]
    BY <1>1, <2>1
  <2> QED BY <2>1, <2>2
<1>4. IsInjective(s) => IsInjective(Tail(s))
  BY <1>1, <1>2 DEF IsInjective
<1>5. ToSet(Tail(s)) \subseteq ToSet(s)
  BY <1>1, <1>2 DEF ToSet
<1>6. ToSet(s) \subseteq ToSet(Tail(s)) \union {Head(s)}
  <2> SUFFICES ASSUME NEW i \in 1..Len(s) PROVE s[i] \in ToSet(Tail(s)) \union {Head(s)}
    BY <1>1 DEF ToSet
  <2>1. CASE i = 1
    BY <1>1, <2>1
  <2>2. CASE i # 1
    BY <1>1, <1>3, <2>2 DEF ToSet
  <2> QED BY <2>1, <2>2
<1>7. s[1] \in S /\ 1 \in 1..Len(s)
  BY <1>1
<1> QED BY <1>1, <1>2, <1>4, <1>5, <1>6, <1>7

LEMMA AppendFacts ==
  ASSUME NEW S, NEW s \in Seq(S), NEW e \in S
  PROVE  /\ Append(s, e) \in Seq(S) /\ Len(s) \in Nat /\ Len(Append(s, e)) = Len(s) + 1
         /\ Append(s, e)[Len(s) + 1] = e
         /\ \A i \in 1..Len(s) : Append(s, e)[i] = s[i]
  OBVIOUS

-----------------------------------------------------------------------------
(* What the operators of the journal and of the client yield *)

LEMMA ConfigFinite == \A c \in Configs : c \subseteq Entities /\ IsFiniteSet(c)
                                       /\ Cardinality(c) <= Cardinality(Entities)
                                       /\ Cardinality(c) \in Nat
  BY DeletionAssumption, FS_Subset, FS_CardinalityType

LEMMA ExtendedFacts ==
  ASSUME Typed, NEW new \in Configs
  PROVE  /\ Extended(new) \in Seq(Entities) /\ IsInjective(Extended(new))
         /\ Len(Extended(new)) <= LIMIT
         /\ ToSet(journal) \subseteq ToSet(Extended(new))
         /\ journal # <<>> => Extended(new) # <<>> /\ Head(Extended(new)) = Head(journal)
         /\ ~Overflows(new) => cfg \ new \subseteq ToSet(Extended(new))
<1> DEFINE gone == (cfg \ new) \ ToSet(journal)
<1> USE DeletionAssumption
<1>1. gone \subseteq Entities /\ IsFiniteSet(gone)
  <2>1. cfg \subseteq Entities /\ IsFiniteSet(cfg)
    BY ConfigFinite DEF Typed, TypeOK
  <2>2. gone \in SUBSET cfg
    OBVIOUS
  <2> QED BY <2>1, <2>2, FS_Subset
<1>2. Removed(new) = SetToSeq(gone)
  BY DEF Removed
<1> HIDE DEF gone
<1>3. /\ Removed(new) \in Seq(gone) /\ ToSet(Removed(new)) = gone /\ IsInjective(Removed(new))
  BY <1>1, <1>2, Listed
<1>4. Removed(new) \in Seq(Entities)
  BY <1>1, <1>3, SeqMonotonic
<1>5. ToSet(journal) \cap ToSet(Removed(new)) = {}
  BY <1>3 DEF gone
<1>6. /\ journal \in Seq(Entities) /\ Len(journal) <= LIMIT /\ IsInjective(journal)
      /\ Len(journal) \in Nat /\ Len(Removed(new)) \in Nat /\ LIMIT \in Nat
  BY <1>4 DEF Typed, TypeOK
<1> DEFINE p == Extended(new)
<1>7. \/ p = journal \o Removed(new) /\ ~Overflows(new)
      \/ /\ p = SubSeq(journal \o Removed(new), 1, LIMIT) /\ Overflows(new)
         /\ LIMIT <= Len(journal) + Len(Removed(new))
  BY <1>6 DEF Extended, Overflows
<1> HIDE DEF p
<1>8. /\ p \in Seq(Entities) /\ IsInjective(p) /\ ToSet(journal) \subseteq ToSet(p)
      /\ journal # <<>> => p # <<>> /\ Head(p) = Head(journal)
  <2> DEFINE r == Removed(new)
  <2>1. r \in Seq(Entities) /\ IsInjective(r) /\ ToSet(journal) \cap ToSet(r) = {}
    BY <1>3, <1>4, <1>5
  <2>2. p = journal \o r \/ (p = SubSeq(journal \o r, 1, LIMIT) /\ LIMIT <= Len(journal) + Len(r))
    BY <1>7
  <2> HIDE DEF r
  <2> QED BY <1>6, <2>1, <2>2, Prefixed
<1>9. Len(p) <= LIMIT
  <2>1. ~Overflows(new) => Len(journal) + Len(Removed(new)) <= LIMIT
    BY <1>6 DEF Overflows
  <2>3. CASE ~Overflows(new)
    BY <1>4, <1>6, <1>7, <2>1, <2>3
  <2>4. CASE Overflows(new)
    <3>1. Len(SubSeq(journal \o Removed(new), 1, LIMIT)) <= LIMIT
      <4>1. journal \o Removed(new) \in Seq(Entities)
            /\ Len(journal \o Removed(new)) = Len(journal) + Len(Removed(new))
        BY <1>4, <1>6
      <4>2. \A i \in 1..LIMIT : (journal \o Removed(new))[i] \in Entities
        BY <1>6, <1>7, <2>4, <4>1
      <4> QED BY <1>6, <4>2, SubSeqProperties
    <3> QED BY <1>7, <2>4, <3>1
  <2> QED BY <2>3, <2>4
<1>10. ~Overflows(new) => cfg \ new \subseteq ToSet(p)
  <2> SUFFICES ASSUME ~Overflows(new) PROVE cfg \ new \subseteq ToSet(p)
    OBVIOUS
  <2>1. p = journal \o Removed(new)
    BY <1>7
  <2>2. ToSet(Removed(new)) \subseteq ToSet(p)
    <3> DEFINE r == Removed(new)
    <3>1. DOMAIN p = 1..(Len(journal) + Len(r)) /\ DOMAIN r = 1..Len(r)
      BY <1>4, <1>6, <2>1
    <3>2. \A i \in 1..Len(r) : Len(journal) + i \in 1..(Len(journal) + Len(r))
                              /\ p[Len(journal) + i] = r[i]
      BY <1>4, <1>6, <2>1
    <3> QED BY <3>1, <3>2 DEF ToSet
  <2> QED BY <1>3, <1>8, <2>2 DEF gone
<1> QED BY <1>8, <1>9, <1>10 DEF p

\* The identifier of a new message is not in use.
LEMMA FreshId ==
  ASSUME Typed, Len(outbox) < OutboxLimit
  PROVE  /\ NextId \in Ids
         /\ \A i \in 1..Len(outbox) : outbox[i].id # NextId
         /\ ack # NoAck => ack.id # NextId
<1> USE DeletionAssumption
<1> DEFINE n == Len(outbox)
           inUse == {outbox[i].id : i \in 1..n} \union (IF ack = NoAck THEN {} ELSE {ack.id})
           first == [i \in 1..(n + 1) |-> IF i <= n THEN outbox[i].id
                                       ELSE IF ack # NoAck THEN ack.id ELSE outbox[1].id]
<1>1. outbox \in Seq(Message) /\ n \in Nat /\ DOMAIN outbox = 1..n /\ OutboxLimit \in Nat
  BY DEF Typed, TypeOK
<1>2. IsFiniteSet(inUse) /\ Cardinality(inUse) <= n + 1
  <2>1. CASE inUse = {}
    <3> HIDE DEF inUse, n
    <3> QED BY <1>1, <2>1, FS_EmptySet
  <2>2. CASE inUse # {}
    <3>1. first \in Surjection(1..(n + 1), inUse)
      <4>1. first \in [1..(n + 1) -> inUse]
        BY <1>1, <2>2
      <4>2. \A id \in inUse : \E i \in 1..(n + 1) : first[i] = id
        BY <1>1
      <4> HIDE DEF first, inUse
      <4> QED BY <4>1, <4>2 DEF Surjection
    <3>2. IsFiniteSet(1..(n + 1)) /\ Cardinality(1..(n + 1)) = n + 1
      BY <1>1, FS_Interval
    <3> HIDE DEF first, inUse, n
    <3> QED BY <3>1, <3>2, FS_Surjection
  <2> QED BY <2>1, <2>2
<1>3. \E id \in Ids : id \notin inUse
  <2> SUFFICES ASSUME Ids \subseteq inUse PROVE FALSE
    OBVIOUS
  <2> HIDE DEF inUse
  <2>1. Cardinality(Ids) <= Cardinality(inUse) /\ Cardinality(Ids) \in Nat
    BY <1>2, FS_Subset, FS_CardinalityType
  <2>2. Cardinality(inUse) \in Nat
    BY <1>2, FS_CardinalityType
  <2> QED BY <1>1, <1>2, <2>1, <2>2
<1>4. {m.id : m \in ToSet(outbox)} = {outbox[i].id : i \in 1..n}
  BY <1>1 DEF ToSet
<1>5. \E id \in Ids : id \notin {m.id : m \in ToSet(outbox)} /\ (ack # NoAck => ack.id # id)
  BY <1>3, <1>4
<1>6. /\ NextId \in Ids /\ NextId \notin {m.id : m \in ToSet(outbox)}
      /\ ack # NoAck => ack.id # NextId
  BY <1>5 DEF NextId
<1> QED BY <1>4, <1>6

-----------------------------------------------------------------------------
(* Types *)

LEMMA Bounds == /\ LIMIT \in Nat /\ OutboxLimit \in Nat /\ MaxCommits \in Nat
                /\ MaxErrors \in Nat /\ MaxDrops \in Nat /\ MaxRestarts \in Nat
                /\ Cardinality(Entities) \in Nat /\ 0 \in 0..Cardinality(Entities)
<1>1. Cardinality(Entities) \in Nat
  BY FS_CardinalityType, DeletionAssumption
<1> QED BY <1>1, DeletionAssumption

LEMMA InitTyped == Init => Typed
<1> SUFFICES ASSUME Init PROVE Typed
  OBVIOUS
<1>1. IsInjective(<<>>) /\ <<>> \in Seq(Entities) /\ <<>> \in Seq(Message) /\ Len(<<>>) = 0
  BY DEF IsInjective
<1>2. FlashFits
  BY <1>1, Bounds DEF Init, FlashFits
<1>3. TypeOK
  <2>1. cfg \in Configs /\ stored \in Configs /\ job \in Configs
    BY DEF Init
  <2>2. /\ journal \in Seq(Entities) /\ nvs \in Seq(Entities)
        /\ Len(journal) <= LIMIT /\ IsInjective(journal)
    BY <1>1, Bounds DEF Init
  <2>3. outbox \in Seq(Message) /\ Len(outbox) <= OutboxLimit
    BY <1>1, Bounds DEF Init
  <2>4. /\ commits \in 0..MaxCommits /\ errors \in 0..MaxErrors
        /\ drops \in 0..MaxDrops /\ restarts \in 0..MaxRestarts
        /\ cursor \in 0..Cardinality(Entities)
    BY Bounds DEF Init
  <2>5. /\ readable \in BOOLEAN /\ setup \in BOOLEAN /\ unsure \in BOOLEAN
        /\ connected \in BOOLEAN /\ resub \in BOOLEAN
    BY DEF Init
  <2>6. /\ stage \in {"pass", "save", "decided", "send"} /\ broker \subseteq Entities
        /\ ack \in [id : Ids, done : BOOLEAN] \cup {NoAck} /\ event \in Event \cup {NoEvent}
    BY DEF Init
  <2> QED BY <2>1, <2>2, <2>3, <2>4, <2>5, <2>6 DEF TypeOK
<1> QED BY <1>2, <1>3 DEF Typed

LEMMA CommitTyped == Typed /\ Commit => Typed'
<1> SUFFICES ASSUME Typed, Commit PROVE Typed'
  OBVIOUS
<1>1. PICK new \in Configs : Prepare(new) /\ job' = IF stage' = "save" THEN new ELSE job
  BY DEF Commit
<1>2. journal' \in Seq(Entities) /\ Len(journal') <= LIMIT /\ IsInjective(journal')
  BY <1>1, ExtendedFacts DEF Prepare
<1>3. nvs' = nvs \/ nvs' = journal'
  BY <1>1 DEF Prepare
<1>4. stage' \in {"pass", "save"} /\ errors' \in 0..MaxErrors
  BY <1>1, DeletionAssumption DEF Prepare, Ends, Typed, TypeOK
<1>5. commits' \in 0..MaxCommits
  BY DeletionAssumption DEF Commit, Typed, TypeOK
<1>6. FlashFits'
  BY <1>2, <1>3 DEF Typed, FlashFits
<1>7. job' \in Configs
  BY <1>1 DEF Typed, TypeOK
<1>8. nvs' \in Seq(Entities)
  BY <1>6 DEF FlashFits
<1>9. UNCHANGED <<cfg, stored, readable, ack, batch, client, unsure, drops, restarts>>
  BY DEF Commit
<1>10. TypeOK'
  BY <1>2, <1>4, <1>5, <1>7, <1>8, <1>9 DEF Typed, TypeOK, batch, client
<1> QED BY <1>6, <1>10 DEF Typed

LEMMA SaveTyped == Typed /\ SaveConfig => Typed'
<1> SUFFICES ASSUME Typed, SaveConfig PROVE Typed'
  OBVIOUS
<1>1. errors' \in 0..MaxErrors
  BY DeletionAssumption DEF SaveConfig, Ends, Typed, TypeOK
<1>2. /\ cursor' \in 0..Cardinality(Entities) /\ setup' \in BOOLEAN /\ unsure' \in BOOLEAN
      /\ cfg' \in Configs /\ stored' \in Configs
  <2>1. 0 \in 0..Cardinality(Entities)
    BY FS_CardinalityType, DeletionAssumption
  <2> QED BY <2>1 DEF SaveConfig, RequestSetup, batch, Typed, TypeOK
<1> QED BY <1>1, <1>2 DEF SaveConfig, Typed, TypeOK, FlashFits, client

LEMMA CompleteTyped == Typed /\ Complete => Typed'
<1> SUFFICES ASSUME Typed, Complete PROVE Typed'
  OBVIOUS
<1>1. /\ Tail(journal) \in Seq(Entities) /\ Len(Tail(journal)) <= LIMIT
      /\ IsInjective(Tail(journal))
  BY TailFacts, DeletionAssumption DEF Complete, Typed, TypeOK
<1>2. 0 \in 0..Cardinality(Entities)
  BY FS_CardinalityType, DeletionAssumption
<1>3. errors' \in 0..MaxErrors
  <2>1. errors' = errors \/ (errors < MaxErrors /\ errors' = errors + 1)
    BY Zenon DEF Complete, Ends
  <2>2. errors \in 0..MaxErrors /\ MaxErrors \in Nat
    BY DeletionAssumption DEF Typed, TypeOK
  <2> QED BY <2>1, <2>2
<1>4. FlashFits'
  BY <1>1 DEF Complete, Typed, FlashFits
<1> QED BY <1>1, <1>2, <1>3, <1>4 DEF Complete, RequestSetup, batch, client, Typed, TypeOK

LEMMA SendTyped == Typed /\ SendDeletion /\ journal # <<>> => Typed'
<1> SUFFICES ASSUME Typed, SendDeletion, journal # <<>> PROVE Typed'
  OBVIOUS
<1>1. CASE ack' = Unexpired /\ outbox' = outbox
  BY <1>1 DEF SendDeletion, Unexpired, Typed, TypeOK, FlashFits, flash, batch, bounds
<1>2. CASE Len(outbox) < OutboxLimit /\ Unexpired = NoAck
  <2> DEFINE m == [id |-> NextId, kind |-> "clear", entity |-> Head(journal)]
  <2>1. NextId \in Ids /\ Head(journal) \in Entities
    BY <1>2, FreshId, TailFacts DEF Typed, TypeOK
  <2>2. m \in Message
    BY <2>1 DEF Message
  <2>3. outbox' = Append(outbox, m) /\ ack' = [id |-> NextId, done |-> FALSE]
    BY <1>2 DEF SendDeletion
  <2> HIDE DEF m
  <2>4. outbox' \in Seq(Message) /\ Len(outbox') <= OutboxLimit
    BY <1>2, <2>2, <2>3, AppendFacts, DeletionAssumption DEF Typed, TypeOK
  <2>5. ack' \in [id : Ids, done : BOOLEAN]
    BY <2>1, <2>3
  <2> QED BY <2>4, <2>5 DEF SendDeletion, Typed, TypeOK, FlashFits, flash, batch, bounds
<1> QED BY <1>1, <1>2 DEF SendDeletion

\* The next document is one of the configuration's.
LEMMA NextDocument ==
  ASSUME Typed, SubSeq(Documents, cursor + 1, Len(Documents)) # <<>>
  PROVE  /\ SubSeq(Documents, cursor + 1, Len(Documents))[1] \in cfg
         /\ cursor + 1 \in 0..Cardinality(Entities)
<1> DEFINE d == Documents
           n == Len(d)
<1>1. cfg \in Configs /\ cursor \in Nat
  BY DEF Typed, TypeOK
<1>2. /\ d \in Seq(cfg) /\ n \in Nat /\ n <= Cardinality(Entities)
      /\ Cardinality(Entities) \in Nat
  BY <1>1, ConfigFinite, Listed, FS_CardinalityType, DeletionAssumption DEF Documents
<1> HIDE DEF d
<1>3. cursor + 1 <= n
  BY <1>1, <1>2, SubSeqEmpty DEF d
<1>4. \A i \in (cursor + 1)..n : d[i] \in cfg
  BY <1>1, <1>2
<1>5. SubSeq(d, cursor + 1, n) \in Seq(cfg) /\ Len(SubSeq(d, cursor + 1, n)) = n - (cursor + 1) + 1
  BY <1>1, <1>2, <1>3, <1>4, SubSeqProperties
<1>6. SubSeq(d, cursor + 1, n)[1] \in cfg
  BY <1>1, <1>2, <1>3, <1>5
<1> QED BY <1>1, <1>2, <1>3, <1>6 DEF d

LEMMA PublishTyped == Typed /\ PublishSetup => Typed'
<1> SUFFICES ASSUME Typed, PublishSetup PROVE Typed'
  OBVIOUS
<1> DEFINE left == SubSeq(Documents, cursor + 1, Len(Documents))
           m == [id |-> NextId, kind |-> "doc", entity |-> left[1]]
<1>1. \/ left # <<>> /\ Len(outbox) < OutboxLimit /\ outbox' = Append(outbox, m)
         /\ cursor' = cursor + 1
      \/ UNCHANGED <<outbox, cursor>>
  BY DEF PublishSetup
<1>2. /\ outbox' \in Seq(Message) /\ Len(outbox') <= OutboxLimit
      /\ cursor' \in 0..Cardinality(Entities)
  <2>1. CASE UNCHANGED <<outbox, cursor>>
    BY <2>1 DEF Typed, TypeOK
  <2>2. CASE left # <<>> /\ Len(outbox) < OutboxLimit /\ outbox' = Append(outbox, m)
             /\ cursor' = cursor + 1
    <3>1. left[1] \in Entities /\ cursor' \in 0..Cardinality(Entities)
      BY <2>2, NextDocument, ConfigFinite DEF Typed, TypeOK
    <3>2. m \in Message
      BY <2>2, <3>1, FreshId DEF Message
    <3> HIDE DEF m, left
    <3> QED BY <2>2, <3>1, <3>2, AppendFacts, DeletionAssumption DEF Typed, TypeOK
  <2> QED BY <1>1, <2>1, <2>2
<1> QED BY <1>2 DEF PublishSetup, Typed, TypeOK, FlashFits, flash, loop, bounds

LEMMA NetworkTyped == Typed /\ Network => Typed'
<1> SUFFICES ASSUME Typed, Network PROVE Typed'
  OBVIOUS
<1> USE Bounds
<1>1. ASSUME outbox # <<>>
      PROVE  /\ Tail(outbox) \in Seq(Message) /\ Len(Tail(outbox)) <= OutboxLimit
             /\ Head(outbox) \in Message /\ Head(outbox).id \in Ids
             /\ Head(outbox).entity \in Entities
  <2>1. outbox \in Seq(Message) /\ Len(outbox) <= OutboxLimit /\ OutboxLimit \in Nat
    BY DEF Typed, TypeOK
  <2>2. /\ Tail(outbox) \in Seq(Message) /\ Len(Tail(outbox)) <= OutboxLimit
        /\ Head(outbox) \in Message
    BY <1>1, <2>1, TailFacts
  <2> QED BY <2>2 DEF Message
<1>2. CASE Deliver
  <2>1. broker' \subseteq Entities
    BY <1>1, <1>2 DEF Deliver, Typed, TypeOK
  <2>2. outbox' \in Seq(Message) /\ Len(outbox') <= OutboxLimit
    BY <1>1, <1>2 DEF Deliver, Typed, TypeOK
  <2>3. event' \in Event \cup {NoEvent}
    <3>1. outbox # <<>> => [id |-> Head(outbox).id, what |-> "Published"] \in Event
      BY <1>1 DEF Event
    <3> QED BY <1>2, <3>1 DEF Deliver, Typed, TypeOK
  <2>4. connected' \in BOOLEAN
    <3>1. connected' = connected \/ connected' = FALSE
      BY <1>2, Zenon DEF Deliver
    <3>2. connected \in BOOLEAN
      BY DEF Typed, TypeOK
    <3> QED BY <3>1, <3>2
  <2>5. drops' \in 0..MaxDrops
    <3>1. UNCHANGED <<connected, drops>> \/ (drops < MaxDrops /\ drops' = drops + 1)
      <4> HIDE Bounds
      <4> QED BY <1>2, Zenon DEF Deliver
    <3>2. drops \in 0..MaxDrops
      BY DEF Typed, TypeOK
    <3>3. drops' = drops \/ (drops < MaxDrops /\ drops' = drops + 1)
      BY <3>1
    <3> QED BY <3>2, <3>3
  <2>6. UNCHANGED <<flash, loop, ack, batch, resub, unsure, commits, errors, restarts>>
    BY <1>2 DEF Deliver
  <2> QED BY <2>1, <2>2, <2>3, <2>4, <2>5, <2>6 DEF Typed, TypeOK, FlashFits, flash, loop, batch
<1>3. CASE Disconnected
  <2>1. drops' \in 0..MaxDrops
    BY <1>3 DEF Disconnected, Typed, TypeOK
  <2>2. connected' = FALSE
    BY <1>3 DEF Disconnected
  <2>3. UNCHANGED <<flash, loop, ack, batch, resub, outbox, event, broker, unsure, commits, errors, restarts>>
    BY <1>3 DEF Disconnected
  <2> QED BY <2>1, <2>2, <2>3 DEF Typed, TypeOK, FlashFits, flash, loop, batch
<1>4. CASE Connected
  BY <1>4 DEF Connected, Typed, TypeOK, FlashFits, flash, loop, batch, bounds
<1>5. CASE Expire
  <2>1. outbox' \in Seq(Message) /\ Len(outbox') <= OutboxLimit /\ event' \in Event \cup {NoEvent}
    BY <1>1, <1>5 DEF Expire, Event
  <2> QED BY <1>5, <2>1 DEF Expire, Typed, TypeOK, FlashFits, flash, loop, batch, bounds
<1>6. CASE PumpEvent
  <2>1. ack' \in [id : Ids, done : BOOLEAN] \cup {NoAck}
    BY <1>6 DEF PumpEvent, Expected, Typed, TypeOK
  <2> QED BY <1>6, <2>1 DEF PumpEvent, Typed, TypeOK, FlashFits, flash, loop, batch, bounds
<1> QED BY <1>2, <1>3, <1>4, <1>5, <1>6 DEF Network

LEMMA RestartTyped == Typed /\ Restart => Typed'
<1> SUFFICES ASSUME Typed, Restart PROVE Typed'
  OBVIOUS
<1> USE Bounds
<1>1. /\ IsInjective(<<>>) /\ <<>> \in Seq(Entities) /\ <<>> \in Seq(Message) /\ Len(<<>>) = 0
  BY DEF IsInjective
<1>2. /\ journal' \in Seq(Entities) /\ Len(journal') <= LIMIT /\ IsInjective(journal')
      /\ readable' \in BOOLEAN
  BY <1>1 DEF Restart, Typed, FlashFits
<1>3. errors' \in 0..MaxErrors /\ restarts' \in 0..MaxRestarts
  BY DEF Restart, Ends, Typed, TypeOK
<1>4. TypeOK'
  <2>1. /\ stored' = stored /\ nvs' = nvs /\ cfg' = stored /\ job' = stored /\ stage' = "pass"
        /\ ack' = NoAck /\ setup' = TRUE /\ cursor' = 0 /\ connected' = FALSE /\ resub' = FALSE
        /\ outbox' = <<>> /\ event' = NoEvent
        /\ UNCHANGED <<broker, unsure, commits, drops>>
    BY DEF Restart, RequestSetup, flash
  <2>2. Len(outbox') <= OutboxLimit /\ outbox' \in Seq(Message)
    BY <1>1, <2>1
  <2> QED BY <1>2, <1>3, <2>1, <2>2 DEF Typed, TypeOK
<1> QED BY <1>4 DEF Restart, Typed, FlashFits, flash

-----------------------------------------------------------------------------
(* Nothing forgotten *)

\* No document of entity e is on its way.
NoDoc(q, e) == \A i \in 1..Len(q) : q[i].kind = "doc" => q[i].entity # e

\* The first entry is gone at the broker, and stays gone.
Gone == Head(journal) \notin broker /\ NoDoc(outbox, Head(journal))

\* The clear the loop waits for is that of the first entry, no document of it
\* comes after it, and its acknowledgement means that the entity is gone.
AckMeansGone ==
  ack # NoAck =>
    /\ readable /\ journal # <<>>
    /\ \A i \in 1..Len(outbox) : outbox[i].id = ack.id =>
         /\ outbox[i].kind = "clear" /\ outbox[i].entity = Head(journal)
         /\ \A j \in i..Len(outbox) : outbox[j].kind = "doc" => outbox[j].entity # Head(journal)
    /\ ack.done \/ event = [id |-> ack.id, what |-> "Published"] => Gone

\* While a configuration is being saved, what it removes is in flash.
SaveCovered == stage = "save" => readable /\ nvs = journal /\ cfg \ job \subseteq ToSet(nvs)

Removal ==
  /\ stage \in {"decided", "send"} => readable /\ journal # <<>>
  /\ readable => ToSet(nvs) \subseteq ToSet(journal)
  /\ ~unsure => cfg = stored
  /\ SaveCovered
  /\ AckMeansGone
  /\ NothingForgotten

\* Ghosts, element by element.
LEMMA GhostFacts ==
  ASSUME outbox \in Seq(Message), NEW e
  PROVE  e \in Ghosts <=> /\ e \notin stored
                          /\ e \in broker \/ \E i \in 1..Len(outbox) : /\ outbox[i].kind = "doc"
                                                                      /\ outbox[i].entity = e
<1>1. DOMAIN outbox = 1..Len(outbox)
  OBVIOUS
<1> QED BY <1>1 DEF Ghosts, ToSet

LEMMA InitRemoval == Init => Removal
<1> SUFFICES ASSUME Init PROVE Removal
  OBVIOUS
<1>1. Ghosts = {}
  BY DEF Init, Ghosts, ToSet
<1> QED BY <1>1 DEF Init, Removal, SaveCovered, AckMeansGone, NothingForgotten

LEMMA CommitRemoval == Typed /\ Removal /\ Commit => Removal'
<1> SUFFICES ASSUME Typed, Removal, Commit PROVE Removal'
  OBVIOUS
<1>1. PICK new \in Configs : Prepare(new) /\ job' = IF stage' = "save" THEN new ELSE job
  BY DEF Commit
<1>2. /\ UNCHANGED <<cfg, stored, readable, ack, outbox, event, broker, unsure>>
      /\ readable /\ stage = "pass"
  BY DEF Commit, client
<1>3. /\ journal' = Extended(new)
      /\ ToSet(journal) \subseteq ToSet(journal')
      /\ journal # <<>> => journal' # <<>> /\ Head(journal') = Head(journal)
  BY <1>1, ExtendedFacts DEF Prepare
<1>4. nvs' = nvs \/ nvs' = journal'
  BY <1>1 DEF Prepare
<1>5. stage' \in {"pass", "save"}
  BY <1>1 DEF Prepare
<1>6. ToSet(nvs) \subseteq ToSet(nvs') /\ ToSet(nvs') \subseteq ToSet(journal')
  BY <1>2, <1>3, <1>4 DEF Removal
<1>7. stage' = "save" => nvs' = journal' /\ job' = new /\ ~Overflows(new)
  BY <1>1 DEF Prepare, Lands
<1>8. SaveCovered'
  BY <1>2, <1>3, <1>7, ExtendedFacts DEF SaveCovered
<1>9. AckMeansGone'
  BY <1>2, <1>3 DEF Removal, AckMeansGone, Gone, NoDoc
<1>10. Ghosts' = Ghosts
  BY <1>2 DEF Ghosts
<1> QED BY <1>2, <1>5, <1>6, <1>8, <1>9, <1>10 DEF Removal, NothingForgotten

LEMMA SaveRemoval == Typed /\ Removal /\ SaveConfig => Removal'
<1> SUFFICES ASSUME Typed, Removal, SaveConfig PROVE Removal'
  OBVIOUS
<1>1. /\ UNCHANGED <<nvs, journal, readable, ack, outbox, event, broker>>
      /\ stage = "save" /\ stage' = "pass"
  BY DEF SaveConfig, client
<1>2. PICK out \in Outcomes : /\ stored' = IF Lands(out) THEN job ELSE stored
                              /\ cfg' = IF out = "done" THEN job ELSE cfg
                              /\ unsure' = (unsure \/ out = "unverified")
  BY DEF SaveConfig
<1>3. ~unsure' => ~unsure /\ cfg' = stored'
  BY <1>2 DEF Outcomes, Lands, Removal
<1>4. ~unsure' => Ghosts' \subseteq ToSet(nvs)
  <2> SUFFICES ASSUME ~unsure', NEW e \in Ghosts' PROVE e \in ToSet(nvs)
    OBVIOUS
  <2>1. ~unsure /\ cfg = stored /\ Ghosts \subseteq ToSet(nvs) /\ cfg \ job \subseteq ToSet(nvs)
    BY <1>1, <1>3 DEF Removal, NothingForgotten, SaveCovered
  <2>2. e \notin stored' /\ (e \in Ghosts \/ e \in stored)
    BY <1>1 DEF Ghosts
  <2>3. stored' = job \/ stored' = stored
    BY <1>2
  <2> QED BY <2>1, <2>2, <2>3
<1>5. AckMeansGone'
  BY <1>1 DEF Removal, AckMeansGone, Gone, NoDoc
<1> QED BY <1>1, <1>3, <1>4, <1>5 DEF Removal, NothingForgotten, SaveCovered

\* The entry that is struck out is no ghost.
LEMMA DoneIsGone ==
  ASSUME Typed, Removal, ~unsure, journal # <<>>, EntryDone(Head(journal))
  PROVE  Head(journal) \notin Ghosts
<1>1. CASE StillPresent(Head(journal))
  BY <1>1 DEF StillPresent, Removal, Ghosts
<1>2. CASE Delivered
  <2>1. Gone
    BY <1>2 DEF Delivered, Removal, AckMeansGone
  <2> QED BY <2>1, GhostFacts DEF Gone, NoDoc, Typed, TypeOK
<1> QED BY <1>1, <1>2 DEF EntryDone

LEMMA CompleteRemoval == Typed /\ Removal /\ Complete => Removal'
<1> SUFFICES ASSUME Typed, Removal, Complete PROVE Removal'
  OBVIOUS
<1>1. /\ UNCHANGED <<cfg, stored, readable, stage, job, outbox, event, broker, unsure>>
      /\ stage = "pass" /\ readable /\ journal # <<>> /\ EntryDone(Head(journal))
  BY DEF Complete, client
<1>2. \/ nvs' = Tail(journal) /\ journal' = Tail(journal) /\ ack' = NoAck
      \/ nvs' = Tail(journal) /\ journal' = journal /\ ack' = ack
      \/ nvs' = nvs /\ journal' = journal /\ ack' = ack
  BY DEF Complete, Outcomes, Lands
<1>3. /\ ToSet(Tail(journal)) \subseteq ToSet(journal)
      /\ ToSet(journal) \subseteq ToSet(Tail(journal)) \union {Head(journal)}
  BY <1>1, TailFacts DEF Typed, TypeOK
<1>4. Ghosts' = Ghosts
  BY <1>1 DEF Ghosts
<1>5. ~unsure => Ghosts \subseteq ToSet(Tail(journal))
  BY <1>1, <1>3, DoneIsGone DEF Removal, NothingForgotten
<1>6. NothingForgotten'
  BY <1>1, <1>2, <1>4, <1>5 DEF Removal, NothingForgotten
<1>7. AckMeansGone'
  BY <1>1, <1>2 DEF Removal, AckMeansGone, Gone, NoDoc
<1>8. ToSet(nvs') \subseteq ToSet(journal')
  BY <1>1, <1>2, <1>3 DEF Removal
<1> QED BY <1>1, <1>6, <1>7, <1>8 DEF Removal, SaveCovered

LEMMA SendRemoval == Typed /\ Removal /\ SendDeletion => Removal'
<1> SUFFICES ASSUME Typed, Removal, SendDeletion PROVE Removal'
  OBVIOUS
<1>1. /\ UNCHANGED <<cfg, stored, nvs, journal, readable, job, event, broker, unsure>>
      /\ readable /\ journal # <<>> /\ stage = "send" /\ stage' = "pass"
  BY DEF SendDeletion, flash, Removal
<1>2. CASE ack' = Unexpired /\ outbox' = outbox
  <2>1. ack' = ack \/ ack' = NoAck
    BY <1>2 DEF Unexpired
  <2>2. AckMeansGone'
    BY <1>1, <1>2, <2>1 DEF Removal, AckMeansGone, Gone, NoDoc
  <2>3. Ghosts' = Ghosts
    BY <1>1, <1>2 DEF Ghosts
  <2> QED BY <1>1, <2>2, <2>3 DEF Removal, SaveCovered, NothingForgotten
<1>3. CASE Len(outbox) < OutboxLimit /\ Unexpired = NoAck
  <2> DEFINE m == [id |-> NextId, kind |-> "clear", entity |-> Head(journal)]
  <2>1. outbox' = Append(outbox, m) /\ ack' = [id |-> NextId, done |-> FALSE]
    BY <1>3 DEF SendDeletion
  <2>2. event = NoEvent
    BY <1>3, DeletionAssumption DEF SendDeletion, ClientFree, Delivered, Unexpired, Typed, TypeOK
  <2>3. m \in Message
    BY <1>1, <1>3, FreshId, TailFacts DEF Message, Typed, TypeOK
  <2>4. m.id = NextId /\ m.kind = "clear" /\ m.entity = Head(journal)
    OBVIOUS
  <2> HIDE DEF m
  <2>5. /\ outbox' \in Seq(Message) /\ Len(outbox) \in Nat /\ Len(outbox') = Len(outbox) + 1
        /\ outbox'[Len(outbox) + 1] = m /\ \A i \in 1..Len(outbox) : outbox'[i] = outbox[i]
    BY <2>1, <2>3, AppendFacts DEF Typed, TypeOK
  <2>6. \A i \in 1..Len(outbox') : i \in 1..Len(outbox) \/ i = Len(outbox) + 1
    BY <2>5
  <2>7. \A i \in 1..Len(outbox') : outbox'[i].id = NextId => i = Len(outbox) + 1
    BY <1>3, <2>5, <2>6, FreshId
  <2>8. AckMeansGone'
    <3>1. event' # [id |-> ack'.id, what |-> "Published"] /\ ~ack'.done
      <4>1. NextId \in Ids
        BY <1>3, FreshId
      <4>2. [id |-> NextId, what |-> "Published"] \in [id : Ids, what : {"Published", "Deleted"}]
        BY <4>1
      <4> QED BY <1>1, <2>1, <2>2, <4>2, DeletionAssumption
    <3>2. ASSUME NEW i \in 1..Len(outbox'), outbox'[i].id = ack'.id
          PROVE  /\ outbox'[i].kind = "clear" /\ outbox'[i].entity = Head(journal)
                 /\ \A j \in i..Len(outbox') : outbox'[j].kind = "doc" => outbox'[j].entity # Head(journal)
      <4>1. i = Len(outbox) + 1 /\ outbox'[i] = m
        BY <2>1, <2>5, <2>7, <3>2
      <4>2. \A j \in i..Len(outbox') : j = i
        BY <2>5, <4>1
      <4> QED BY <2>4, <4>1, <4>2
    <3> QED BY <1>1, <3>1, <3>2 DEF AckMeansGone
  <2>9. Ghosts' \subseteq Ghosts
    <3> SUFFICES ASSUME NEW e \in Ghosts' PROVE e \in Ghosts
      OBVIOUS
    <3>1. /\ e \notin stored'
          /\ e \in broker' \/ \E i \in 1..Len(outbox') : outbox'[i].kind = "doc" /\ outbox'[i].entity = e
      <4>1. DOMAIN outbox' = 1..Len(outbox')
        BY <2>5
      <4> QED BY <4>1 DEF Ghosts, ToSet
    <3>2. e \in broker \/ \E i \in 1..Len(outbox) : outbox[i].kind = "doc" /\ outbox[i].entity = e
      BY <1>1, <2>4, <2>5, <2>6, <3>1
    <3> QED BY <1>1, <3>1, <3>2, GhostFacts DEF Typed, TypeOK
  <2> QED BY <1>1, <2>8, <2>9 DEF Removal, SaveCovered, NothingForgotten
<1> QED BY <1>2, <1>3 DEF SendDeletion

LEMMA PublishRemoval == Typed /\ Removal /\ PublishSetup => Removal'
<1> SUFFICES ASSUME Typed, Removal, PublishSetup PROVE Removal'
  OBVIOUS
<1> DEFINE left == SubSeq(Documents, cursor + 1, Len(Documents))
           m == [id |-> NextId, kind |-> "doc", entity |-> left[1]]
<1>1. /\ UNCHANGED <<cfg, stored, nvs, journal, readable, stage, job, ack, event, broker, unsure>>
      /\ journal = <<>>
  BY DEF PublishSetup, SetupReady, flash, loop
<1>2. ack = NoAck
  BY <1>1 DEF Removal, AckMeansGone
<1>3. \/ left # <<>> /\ Len(outbox) < OutboxLimit /\ outbox' = Append(outbox, m)
      \/ outbox' = outbox
  BY DEF PublishSetup
<1>4. ~unsure => Ghosts' \subseteq Ghosts
  <2>1. CASE outbox' = outbox
    BY <1>1, <2>1 DEF Ghosts
  <2>2. CASE left # <<>> /\ Len(outbox) < OutboxLimit /\ outbox' = Append(outbox, m)
    <3>1. m \in Message /\ m.entity \in cfg
      <4>1. left[1] \in cfg /\ left[1] \in Entities
        BY <2>2, NextDocument, ConfigFinite DEF Typed, TypeOK
      <4> QED BY <2>2, <4>1, FreshId DEF Message
    <3> HIDE DEF m, left
    <3>2. /\ outbox' \in Seq(Message) /\ Len(outbox) \in Nat /\ Len(outbox') = Len(outbox) + 1
          /\ outbox'[Len(outbox) + 1] = m /\ \A i \in 1..Len(outbox) : outbox'[i] = outbox[i]
      BY <2>2, <3>1, AppendFacts DEF Typed, TypeOK
    <3>3. \A i \in 1..Len(outbox') : i \in 1..Len(outbox) \/ i = Len(outbox) + 1
      BY <3>2
    <3> SUFFICES ASSUME ~unsure, NEW e \in Ghosts' PROVE e \in Ghosts
      OBVIOUS
    <3>4. /\ e \notin stored'
          /\ e \in broker' \/ \E i \in 1..Len(outbox') : outbox'[i].kind = "doc" /\ outbox'[i].entity = e
      <4>1. DOMAIN outbox' = 1..Len(outbox')
        BY <3>2
      <4> QED BY <4>1 DEF Ghosts, ToSet
    <3>5. e # m.entity
      BY <1>1, <3>1, <3>4 DEF Removal
    <3>6. e \in broker \/ \E i \in 1..Len(outbox) : outbox[i].kind = "doc" /\ outbox[i].entity = e
      BY <1>1, <3>2, <3>3, <3>4, <3>5
    <3> QED BY <1>1, <3>4, <3>6, GhostFacts DEF Typed, TypeOK
  <2> QED BY <1>3, <2>1, <2>2
<1> QED BY <1>1, <1>2, <1>4 DEF Removal, SaveCovered, AckMeansGone, NothingForgotten

\* The oldest message leaves the outbox, and of what it said only a document
\* adds to the broker.
LEMMA Delivered1 ==
  ASSUME Typed, outbox # <<>>
  PROVE  /\ Tail(outbox) \in Seq(Message) /\ Len(outbox) \in Nat
         /\ Len(Tail(outbox)) = Len(outbox) - 1
         /\ Head(outbox) = outbox[1] /\ 1 \in 1..Len(outbox)
         /\ Head(outbox) \in Message /\ Head(outbox).kind \in {"doc", "clear"}
         /\ \A i \in 1..Len(Tail(outbox)) : i + 1 \in 1..Len(outbox) /\ Tail(outbox)[i] = outbox[i + 1]
<1>1. outbox \in Seq(Message)
  BY DEF Typed, TypeOK
<1>2. Head(outbox) \in Message
  BY <1>1, TailFacts
<1> QED BY <1>1, <1>2, TailFacts DEF Message

LEMMA DeliverRemoval == Typed /\ Removal /\ Deliver => Removal'
<1> SUFFICES ASSUME Typed, Removal, Deliver PROVE Removal'
  OBVIOUS
<1> DEFINE m == Head(outbox)
           q == Tail(outbox)
<1>1. /\ UNCHANGED <<cfg, stored, nvs, journal, readable, stage, job, ack, unsure>>
      /\ outbox # <<>> /\ event = NoEvent
      /\ broker' = IF m.kind = "doc" THEN broker \cup {m.entity} ELSE broker \ {m.entity}
  BY DEF Deliver, ClientFree, flash, loop
<1>2. \/ outbox' = q /\ event' = [id |-> m.id, what |-> "Published"]
      \/ outbox' = outbox /\ event' = NoEvent
  BY <1>1, Zenon DEF Deliver
<1>3. /\ q \in Seq(Message) /\ outbox \in Seq(Message) /\ Len(outbox) \in Nat
      /\ Len(q) = Len(outbox) - 1 /\ m = outbox[1] /\ 1 \in 1..Len(outbox)
      /\ \A i \in 1..Len(q) : i + 1 \in 1..Len(outbox) /\ q[i] = outbox[i + 1]
      /\ m.kind \in {"doc", "clear"}
  BY <1>1, Delivered1 DEF Typed, TypeOK
<1> HIDE DEF m, q
<1>4. Ghosts' \subseteq Ghosts
  <2> SUFFICES ASSUME NEW e \in Ghosts' PROVE e \in Ghosts
    OBVIOUS
  <2>1. /\ e \notin stored'
        /\ e \in broker' \/ \E i \in 1..Len(outbox') : outbox'[i].kind = "doc" /\ outbox'[i].entity = e
    <3>1. DOMAIN outbox' = 1..Len(outbox')
      BY <1>2, <1>3
    <3> QED BY <3>1 DEF Ghosts, ToSet
  <2>2. e \in broker' => e \in broker \/ (m.kind = "doc" /\ m.entity = e)
    BY <1>1
  <2>3. \A i \in 1..Len(outbox') : \E j \in 1..Len(outbox) : outbox'[i] = outbox[j]
    BY <1>2, <1>3
  <2>4. e \in broker \/ \E i \in 1..Len(outbox) : outbox[i].kind = "doc" /\ outbox[i].entity = e
    BY <1>3, <2>1, <2>2, <2>3
  <2> QED BY <1>1, <1>3, <2>1, <2>4, GhostFacts
<1>5. AckMeansGone'
  <2> SUFFICES ASSUME ack # NoAck PROVE AckMeansGone'
    BY <1>1 DEF AckMeansGone
  <2> DEFINE h == Head(journal)
  <2>1. /\ readable /\ journal # <<>> /\ h = Head(journal)'
        /\ \A i \in 1..Len(outbox) : outbox[i].id = ack.id =>
             /\ outbox[i].kind = "clear" /\ outbox[i].entity = h
             /\ \A j \in i..Len(outbox) : outbox[j].kind = "doc" => outbox[j].entity # h
        /\ ack.done => h \notin broker /\ NoDoc(outbox, h)
    BY <1>1 DEF Removal, AckMeansGone, Gone
  <2> HIDE DEF h
  <2>2. \A i \in 1..Len(outbox') : outbox'[i].id = ack.id =>
             /\ outbox'[i].kind = "clear" /\ outbox'[i].entity = h
             /\ \A j \in i..Len(outbox') : outbox'[j].kind = "doc" => outbox'[j].entity # h
    <3>1. CASE outbox' = outbox
      BY <2>1, <3>1
    <3>2. CASE outbox' = q
      <4> SUFFICES ASSUME NEW i \in 1..Len(q), q[i].id = ack.id
                   PROVE  /\ q[i].kind = "clear" /\ q[i].entity = h
                          /\ \A j \in i..Len(q) : q[j].kind = "doc" => q[j].entity # h
        BY <3>2
      <4>1. i + 1 \in 1..Len(outbox) /\ outbox[i + 1].id = ack.id /\ q[i] = outbox[i + 1]
        BY <1>3
      <4>2. \A j \in (i + 1)..Len(outbox) : outbox[j].kind = "doc" => outbox[j].entity # h
        BY <2>1, <4>1
      <4>3. \A j \in i..Len(q) : j + 1 \in (i + 1)..Len(outbox) /\ q[j] = outbox[j + 1]
        BY <1>3
      <4> QED BY <2>1, <4>1, <4>2, <4>3
    <3> QED BY <1>2, <3>1, <3>2
  <2>3. ack.done => h \notin broker' /\ NoDoc(outbox', h)
    <3> SUFFICES ASSUME ack.done PROVE h \notin broker' /\ NoDoc(outbox', h)
      OBVIOUS
    <3>1. h \notin broker /\ \A i \in 1..Len(outbox) : outbox[i].kind = "doc" => outbox[i].entity # h
      BY <2>1 DEF NoDoc
    <3>2. h \notin broker'
      BY <1>1, <1>3, <3>1
    <3>3. \A i \in 1..Len(outbox') : \E j \in 1..Len(outbox) : outbox'[i] = outbox[j]
      BY <1>2, <1>3
    <3>4. \A i \in 1..Len(outbox') : outbox'[i].kind = "doc" => outbox'[i].entity # h
      BY <3>1, <3>3
    <3> QED BY <3>2, <3>4 DEF NoDoc
  <2>4. event' = [id |-> ack.id, what |-> "Published"] => h \notin broker' /\ NoDoc(outbox', h)
    <3> SUFFICES ASSUME event' = [id |-> ack.id, what |-> "Published"]
                 PROVE  h \notin broker' /\ NoDoc(outbox', h)
      OBVIOUS
    <3>1. ack.id \in Ids
      BY DEF Typed, TypeOK
    <3>2. event' # NoEvent
      <4>1. [id |-> ack.id, what |-> "Published"] \in [id : Ids, what : {"Published", "Deleted"}]
        BY <3>1
      <4> QED BY <4>1, DeletionAssumption
    <3>3. outbox' = q /\ m.id = ack.id
      <4>1. outbox' = q /\ event' = [id |-> m.id, what |-> "Published"]
        BY <1>2, <3>2
      <4>2. [id |-> m.id, what |-> "Published"].id = [id |-> ack.id, what |-> "Published"].id
        BY <4>1
      <4> QED BY <4>1, <4>2
    <3>4. m.kind = "clear" /\ m.entity = h
          /\ \A j \in 1..Len(outbox) : outbox[j].kind = "doc" => outbox[j].entity # h
      BY <1>3, <2>1, <3>3
    <3>5. h \notin broker'
      BY <1>1, <3>4
    <3> QED BY <1>3, <3>3, <3>4, <3>5 DEF NoDoc
  <2> QED BY <1>1, <2>1, <2>2, <2>3, <2>4 DEF AckMeansGone, Gone
<1> QED BY <1>1, <1>4, <1>5 DEF Removal, SaveCovered, NothingForgotten

LEMMA ExpireRemoval == Typed /\ Removal /\ Expire => Removal'
<1> SUFFICES ASSUME Typed, Removal, Expire PROVE Removal'
  OBVIOUS
<1> DEFINE q == Tail(outbox)
<1>1. /\ UNCHANGED <<cfg, stored, nvs, journal, readable, stage, job, ack, broker, unsure>>
      /\ outbox # <<>> /\ outbox' = q
      /\ event' = NoEvent \/ event' = [id |-> Head(outbox).id, what |-> "Deleted"]
  BY DEF Expire, flash, loop
<1>2. /\ outbox \in Seq(Message) /\ q \in Seq(Message)
      /\ \A i \in 1..Len(q) : i + 1 \in 1..Len(outbox) /\ q[i] = outbox[i + 1]
      /\ \A i \in 1..Len(q) : \A j \in i..Len(q) : j + 1 \in (i + 1)..Len(outbox) /\ q[j] = outbox[j + 1]
  <2>1. /\ outbox \in Seq(Message) /\ q \in Seq(Message) /\ Len(outbox) \in Nat
        /\ Len(q) = Len(outbox) - 1
        /\ \A i \in 1..Len(q) : i + 1 \in 1..Len(outbox) /\ q[i] = outbox[i + 1]
    BY <1>1, Delivered1 DEF Typed, TypeOK
  <2> HIDE DEF q
  <2> QED BY <2>1
<1> HIDE DEF q
<1>3. Ghosts' \subseteq Ghosts
  <2> SUFFICES ASSUME NEW e \in Ghosts' PROVE e \in Ghosts
    OBVIOUS
  <2>1. /\ e \notin stored'
        /\ e \in broker' \/ \E i \in 1..Len(outbox') : outbox'[i].kind = "doc" /\ outbox'[i].entity = e
    <3>1. DOMAIN outbox' = 1..Len(outbox')
      BY <1>1, <1>2
    <3> QED BY <3>1 DEF Ghosts, ToSet
  <2> QED BY <1>1, <1>2, <2>1, GhostFacts
<1>4. AckMeansGone'
  <2> SUFFICES ASSUME ack # NoAck PROVE AckMeansGone'
    BY <1>1 DEF AckMeansGone
  <2>1. event' # [id |-> ack.id, what |-> "Published"]
    <3>1. ack.id \in Ids
      BY DEF Typed, TypeOK
    <3>2. [id |-> ack.id, what |-> "Published"] # NoEvent
      <4>1. [id |-> ack.id, what |-> "Published"] \in [id : Ids, what : {"Published", "Deleted"}]
        BY <3>1
      <4> QED BY <4>1, DeletionAssumption
    <3>3. [id |-> ack.id, what |-> "Published"] # [id |-> Head(outbox).id, what |-> "Deleted"]
      OBVIOUS
    <3> QED BY <1>1, <3>2, <3>3
  <2> DEFINE h == Head(journal)
  <2>2. /\ readable /\ journal # <<>> /\ h = Head(journal)'
        /\ \A i \in 1..Len(outbox) : outbox[i].id = ack.id =>
             /\ outbox[i].kind = "clear" /\ outbox[i].entity = h
             /\ \A j \in i..Len(outbox) : outbox[j].kind = "doc" => outbox[j].entity # h
        /\ ack.done => h \notin broker /\ NoDoc(outbox, h)
    BY <1>1 DEF Removal, AckMeansGone, Gone
  <2> HIDE DEF h
  <2>3. \A i \in 1..Len(q) : q[i].id = ack.id =>
             /\ q[i].kind = "clear" /\ q[i].entity = h
             /\ \A j \in i..Len(q) : q[j].kind = "doc" => q[j].entity # h
    <3> SUFFICES ASSUME NEW i \in 1..Len(q), q[i].id = ack.id
                 PROVE  /\ q[i].kind = "clear" /\ q[i].entity = h
                        /\ \A j \in i..Len(q) : q[j].kind = "doc" => q[j].entity # h
      OBVIOUS
    <3>1. i + 1 \in 1..Len(outbox) /\ outbox[i + 1].id = ack.id /\ q[i] = outbox[i + 1]
      BY <1>2
    <3>2. \A j \in (i + 1)..Len(outbox) : outbox[j].kind = "doc" => outbox[j].entity # h
      BY <2>2, <3>1
    <3> QED BY <1>2, <2>2, <3>1, <3>2
  <2>4. ack.done => NoDoc(q, h)
    BY <1>2, <2>2 DEF NoDoc
  <2> QED BY <1>1, <2>1, <2>2, <2>3, <2>4 DEF AckMeansGone, Gone
<1> QED BY <1>1, <1>3, <1>4 DEF Removal, SaveCovered, NothingForgotten

LEMMA PumpRemoval == Typed /\ Removal /\ PumpEvent => Removal'
<1> SUFFICES ASSUME Typed, Removal, PumpEvent PROVE Removal'
  OBVIOUS
<1>1. /\ UNCHANGED <<cfg, stored, nvs, journal, readable, stage, job, outbox, broker, unsure>>
      /\ event # NoEvent /\ event' = NoEvent
      /\ ack' = IF ~Expected THEN ack
                ELSE IF event.what = "Deleted" THEN NoAck ELSE [ack EXCEPT !.done = TRUE]
  BY DEF PumpEvent, flash, loop
<1>2. Ghosts' = Ghosts
  BY <1>1 DEF Ghosts
<1>3. \A id \in Ids : event' # [id |-> id, what |-> "Published"]
  <2> SUFFICES ASSUME NEW id \in Ids PROVE event' # [id |-> id, what |-> "Published"]
    OBVIOUS
  <2>1. [id |-> id, what |-> "Published"] \in [id : Ids, what : {"Published", "Deleted"}]
    OBVIOUS
  <2> QED BY <1>1, <2>1, DeletionAssumption
<1>4. AckMeansGone'
  <2>1. CASE ack' = NoAck
    BY <2>1 DEF AckMeansGone
  <2>2. CASE ack' = ack /\ ack # NoAck
    <3>1. event' # [id |-> ack'.id, what |-> "Published"]
      BY <1>3, <2>2 DEF Typed, TypeOK
    <3> QED BY <1>1, <2>2, <3>1 DEF Removal, AckMeansGone, Gone, NoDoc
  <2>3. CASE Expected /\ event.what # "Deleted" /\ ack' = [ack EXCEPT !.done = TRUE]
    <3>1. ack \in [id : Ids, done : BOOLEAN] /\ event \in Event /\ event.id = ack.id
      BY <1>1, <2>3 DEF Expected, Typed, TypeOK
    <3>2. event = [id |-> ack.id, what |-> "Published"]
      BY <2>3, <3>1 DEF Event
    <3>3. ack # NoAck /\ Gone
      BY <2>3, <3>2 DEF Expected, Removal, AckMeansGone
    <3>4. ack'.id = ack.id
      BY <2>3, <3>1
    <3> QED BY <1>1, <3>3, <3>4 DEF Removal, AckMeansGone, Gone, NoDoc
  <2> QED BY <1>1, <2>1, <2>2, <2>3
<1> QED BY <1>1, <1>2, <1>4 DEF Removal, SaveCovered, NothingForgotten

LEMMA RestartRemoval == Typed /\ Removal /\ Restart => Removal'
<1> SUFFICES ASSUME Typed, Removal, Restart PROVE Removal'
  OBVIOUS
<1>1. /\ UNCHANGED <<stored, nvs, broker, unsure>> /\ cfg' = stored /\ stage' = "pass"
      /\ ack' = NoAck /\ outbox' = <<>>
      /\ readable' => journal' = nvs
  BY DEF Restart, flash
<1>2. Ghosts' \subseteq Ghosts
  <2>1. ToSet(<<>>) = {}
    BY DEF ToSet
  <2> QED BY <1>1, <2>1 DEF Ghosts
<1> QED BY <1>1, <1>2 DEF Removal, SaveCovered, AckMeansGone, NothingForgotten

\* The steps that touch neither the journal nor the messages.
LEMMA QuietSteps ==
  Typed /\ Removal /\ (NotDone \/ LockAck \/ Resubscribed \/ Disconnected \/ Connected
                      \/ UNCHANGED vars)
    => Removal' /\ (NotDone \/ LockAck \/ Resubscribed \/ UNCHANGED vars => Typed')
<1> SUFFICES ASSUME Typed, Removal,
                    NotDone \/ LockAck \/ Resubscribed \/ Disconnected \/ Connected \/ UNCHANGED vars
             PROVE  Removal' /\ (NotDone \/ LockAck \/ Resubscribed \/ UNCHANGED vars => Typed')
  OBVIOUS
<1>1. /\ UNCHANGED <<cfg, stored, nvs, journal, readable, job, ack, outbox, event, broker, unsure>>
      /\ stage' = stage \/ (stage' \in {"decided", "send"} /\ readable /\ journal # <<>>)
  BY DEF NotDone, LockAck, Resubscribed, Disconnected, Connected, vars, flash, loop, batch,
         client, bounds, Removal
<1>2. AckMeansGone'
  BY <1>1 DEF Removal, AckMeansGone, Gone, NoDoc
<1>3. Ghosts' = Ghosts
  BY <1>1 DEF Ghosts
<1>4. Removal'
  BY <1>1, <1>2, <1>3 DEF Removal, SaveCovered, NothingForgotten
<1>5. NotDone => Typed'
  BY DEF NotDone, Typed, TypeOK, FlashFits, flash, batch, client, bounds
<1>6. LockAck => Typed'
  BY DEF LockAck, Typed, TypeOK, FlashFits, flash, batch, client, bounds
<1>7. Resubscribed => Typed'
  BY Bounds DEF Resubscribed, RequestSetup, Typed, TypeOK, FlashFits, flash, loop, bounds
<1>8. UNCHANGED vars => Typed'
  BY DEF vars, Typed, TypeOK, FlashFits, flash, loop, batch, client, bounds
<1> QED BY <1>4, <1>5, <1>6, <1>7, <1>8

LEMMA StepKeeps == Typed /\ Removal /\ [Next]_vars => (Typed /\ Removal)'
<1> SUFFICES ASSUME Typed, Removal, [Next]_vars PROVE (Typed /\ Removal)'
  OBVIOUS
<1>1. CASE Commit
  BY <1>1, CommitTyped, CommitRemoval
<1>2. CASE Loop
  <2>1. CASE SaveConfig
    BY <2>1, SaveTyped, SaveRemoval
  <2>2. CASE Complete
    BY <2>2, CompleteTyped, CompleteRemoval
  <2>3. CASE SendDeletion
    <3>1. journal # <<>>
      BY <2>3 DEF SendDeletion, Removal
    <3> QED BY <2>3, <3>1, SendTyped, SendRemoval
  <2>4. CASE PublishSetup
    BY <2>4, PublishTyped, PublishRemoval
  <2> QED BY <1>2, <2>1, <2>2, <2>3, <2>4, QuietSteps DEF Loop
<1>3. CASE Network
  <2>1. Typed'
    BY <1>3, NetworkTyped
  <2>2. Removal'
    BY <1>3, DeliverRemoval, ExpireRemoval, PumpRemoval, QuietSteps DEF Network
  <2> QED BY <2>1, <2>2
<1>4. CASE Restart
  BY <1>4, RestartTyped, RestartRemoval
<1> QED BY <1>1, <1>2, <1>3, <1>4, QuietSteps DEF Next

\* The journal in memory and the one in flash stay within LIMIT and hold no
\* entity twice, the outbox stays within its limit, and the position of the
\* documents within the configuration.
THEOREM DeletionTypes == Spec => []TypeOK
<1>1. Init => Typed /\ Removal
  BY InitTyped, InitRemoval
<1>2. Typed /\ Removal => TypeOK
  BY DEF Typed
<1> QED BY <1>1, <1>2, StepKeeps, PTL DEF Spec

\* Whatever fails, expires, is lost or restarts, and however commits, clears,
\* documents and acknowledgements are interleaved: an entity Home Assistant
\* still shows, or is about to, is configured or in the journal in flash
\* (deletions.rs, mqtt.rs).
THEOREM NeverForgotten == Spec => []NothingForgotten
<1>1. Init => Typed /\ Removal
  BY InitTyped, InitRemoval
<1>2. Typed /\ Removal => NothingForgotten
  BY DEF Removal
<1> QED BY <1>1, <1>2, StepKeeps, PTL DEF Spec

-----------------------------------------------------------------------------
(* Home Assistant shows the configuration                                     *)
(*                                                                            *)
(* That nothing too much is shown follows from NothingForgotten.  That nothing *)
(* is missing needs two more facts: every clear on its way is the one the      *)
(* journal waits for, so that none is left when the journal is empty; and the  *)
(* documents published since the batch began have arrived or are on their way. *)

UniqueIds == \A i, j \in 1..Len(outbox) : outbox[i].id = outbox[j].id => i = j

\* A clear in the outbox is the one the loop waits for.
ClearsAwaited == \A i \in 1..Len(outbox) : outbox[i].kind = "clear" => ack # NoAck /\ outbox[i].id = ack.id

\* What has left the outbox is not in it any more.
Left ==
  /\ event # NoEvent => \A i \in 1..Len(outbox) : outbox[i].id # event.id
  /\ Delivered => \A i \in 1..Len(outbox) : outbox[i].id # ack.id

Clears == UniqueIds /\ ClearsAwaited /\ Left

Announcing(d) ==
  d \in broker \/ \E i \in 1..Len(outbox) : outbox[i].kind = "doc" /\ outbox[i].entity = d

Announced ==
  journal = <<>> /\ connected /\ ~resub =>
    \A k \in 1..Len(Documents) : k <= cursor \/ ~setup => Announcing(Documents[k])

Shown == Clears /\ Announced

LEMMA InitShown == Init => Shown
<1> SUFFICES ASSUME Init PROVE Shown
  OBVIOUS
<1>1. outbox = <<>> /\ Len(outbox) = 0 /\ ack = NoAck /\ event = NoEvent /\ connected = FALSE
  BY DEF Init
<1> QED BY <1>1 DEF Shown, Clears, UniqueIds, ClearsAwaited, Left, Delivered, Announced

LEMMA SameClears == UNCHANGED <<outbox, ack, event>> /\ Clears => Clears'
  BY DEF Clears, UniqueIds, ClearsAwaited, Left, Delivered

LEMMA SameAnnounced ==
  ASSUME Announced, UNCHANGED <<cfg, connected, resub, cursor, setup, broker, outbox>>,
         journal' = <<>> => journal = <<>>
  PROVE  Announced'
<1>1. Documents' = Documents
  BY DEF Documents
<1> QED BY <1>1 DEF Announced, Announcing

\* The batch begins anew.
LEMMA AnewAnnounced == RequestSetup => Announced'
<1> SUFFICES ASSUME setup' = TRUE, cursor' = 0, NEW k \in 1..Len(Documents'), k <= 0 PROVE FALSE
  BY DEF RequestSetup, Announced
<1> QED BY Zenon, SMT

\* A message is put into the outbox.
LEMMA AppendShown ==
  ASSUME Typed, Clears, NEW m \in Message, m.id = NextId, Len(outbox) < OutboxLimit,
         outbox' = Append(outbox, m), event = NoEvent, event' = NoEvent
  PROVE  /\ UniqueIds'
         /\ \A i \in 1..Len(outbox') : outbox'[i] = m \/ \E j \in 1..Len(outbox) : outbox'[i] = outbox[j]
         /\ \E i \in 1..Len(outbox') : outbox'[i] = m
         /\ \A j \in 1..Len(outbox) : \E i \in 1..Len(outbox') : outbox'[i] = outbox[j]
<1>1. /\ Len(outbox) \in Nat /\ Len(outbox') = Len(outbox) + 1
      /\ outbox'[Len(outbox) + 1] = m /\ \A i \in 1..Len(outbox) : outbox'[i] = outbox[i]
  BY AppendFacts DEF Typed, TypeOK
<1>2. \A i \in 1..Len(outbox') : i \in 1..Len(outbox) \/ i = Len(outbox) + 1
  BY <1>1
<1>3. \A i \in 1..Len(outbox) : i \in 1..Len(outbox')
  BY <1>1
<1>4. Len(outbox) + 1 \in 1..Len(outbox')
  BY <1>1
<1>5. UniqueIds'
  <2>1. \A i \in 1..Len(outbox) : outbox[i].id # m.id
    BY FreshId
  <2> QED BY <1>1, <1>2, <2>1 DEF Clears, UniqueIds
<1> QED BY <1>1, <1>2, <1>3, <1>4, <1>5

LEMMA SendShown == Typed /\ Removal /\ Shown /\ SendDeletion => Shown'
<1> SUFFICES ASSUME Typed, Removal, Shown, SendDeletion PROVE Shown'
  OBVIOUS
<1>1. journal # <<>> /\ journal' = journal /\ event' = event
  BY DEF SendDeletion, Removal
<1>2. Announced'
  BY <1>1 DEF Announced
<1>3. CASE ack' = Unexpired /\ outbox' = outbox
  <2>1. CASE ack' = ack
    BY <1>1, <1>2, <1>3, <2>1, SameClears DEF Shown
  <2>2. CASE ack' # ack
    <3>1. outbox = <<>> /\ Len(outbox) = 0 /\ ack' = NoAck
      BY <1>3, <2>2 DEF Unexpired
    <3> QED BY <1>2, <1>3, <3>1 DEF Shown, Clears, UniqueIds, ClearsAwaited, Left, Delivered
  <2> QED BY <2>1, <2>2
<1>4. CASE Len(outbox) < OutboxLimit /\ Unexpired = NoAck
  <2> DEFINE m == [id |-> NextId, kind |-> "clear", entity |-> Head(journal)]
  <2>1. outbox' = Append(outbox, m) /\ ack' = [id |-> NextId, done |-> FALSE] /\ NextId \in Ids
    BY <1>4, FreshId DEF SendDeletion
  <2>2. m \in Message
    BY <1>1, <2>1, TailFacts DEF Message, Typed, TypeOK
  <2>3. m.id = NextId /\ m.kind = "clear"
    OBVIOUS
  <2> HIDE DEF m
  <2>4. event = NoEvent
    BY <1>4, DeletionAssumption DEF SendDeletion, ClientFree, Delivered, Unexpired, Typed, TypeOK
  <2>5. UniqueIds' /\ \A i \in 1..Len(outbox') : outbox'[i] = m \/ \E j \in 1..Len(outbox) : outbox'[i] = outbox[j]
    BY <1>1, <1>4, <2>1, <2>2, <2>3, <2>4, AppendShown DEF Shown
  <2>6. \A j \in 1..Len(outbox) : outbox[j].kind # "clear"
    <3>1. ack = NoAck \/ (ack # NoAck /\ outbox = <<>>)
      BY <1>4 DEF Unexpired
    <3>2. Len(<<>>) = 0 /\ 1..0 = {}
      OBVIOUS
    <3> QED BY <3>1, <3>2 DEF Shown, Clears, ClearsAwaited
  <2>7. ack' # NoAck /\ ack'.id = NextId /\ ~Delivered'
    <3>1. [id |-> NextId, done |-> FALSE] \in [id : Ids, done : BOOLEAN]
      BY <2>1
    <3> QED BY <2>1, <3>1, DeletionAssumption DEF Delivered
  <2>8. ClearsAwaited'
    BY <2>3, <2>5, <2>6, <2>7 DEF ClearsAwaited
  <2> QED BY <1>1, <1>2, <2>4, <2>5, <2>7, <2>8 DEF Shown, Clears, Left
<1> QED BY <1>3, <1>4 DEF SendDeletion

LEMMA PublishShown == Typed /\ Removal /\ Shown /\ PublishSetup => Shown'
<1> SUFFICES ASSUME Typed, Removal, Shown, PublishSetup PROVE Shown'
  OBVIOUS
<1> DEFINE d == Documents
           n == Len(d)
           left == SubSeq(d, cursor + 1, n)
           m == [id |-> NextId, kind |-> "doc", entity |-> left[1]]
<1>1. /\ UNCHANGED <<cfg, journal, ack, connected, resub, event, broker>>
      /\ journal = <<>> /\ event = NoEvent /\ setup
  BY DEF PublishSetup, SetupReady, ClientFree, loop
<1>2. ack = NoAck
  BY <1>1 DEF Removal, AckMeansGone
<1>3. /\ \/ left # <<>> /\ Len(outbox) < OutboxLimit /\ outbox' = Append(outbox, m) /\ cursor' = cursor + 1
         \/ outbox' = outbox /\ cursor' = cursor
      /\ ~setup' => ~(cursor' < n)
  BY DEF PublishSetup
<1>4. Documents' = d
  BY <1>1 DEF Documents
<1>5. cursor \in Nat /\ d \in Seq(cfg) /\ n \in Nat
  <2>1. cfg \in Configs /\ cursor \in Nat
    BY DEF Typed, TypeOK
  <2> QED BY <2>1, ConfigFinite, Listed DEF Documents
<1>6. CASE outbox' = outbox /\ cursor' = cursor
  <2>1. Clears'
    BY <1>1, <1>6, SameClears DEF Shown
  <2>2. \A k \in 1..n : k <= cursor' \/ ~setup' => k <= cursor
    <3> SUFFICES ASSUME NEW k \in 1..n, ~(cursor < n) PROVE k <= cursor
      BY <1>3, <1>6
    <3> QED BY <1>5
  <2>3. \A x : Announcing(x) => Announcing(x)'
    BY <1>1, <1>6 DEF Announcing
  <2> HIDE DEF d
  <2>4. Announced'
    BY <1>1, <1>4, <2>2, <2>3 DEF Shown, Announced, d
  <2> QED BY <2>1, <2>4 DEF Shown
<1>7. CASE left # <<>> /\ Len(outbox) < OutboxLimit /\ outbox' = Append(outbox, m) /\ cursor' = cursor + 1
  <2>1. left[1] \in cfg /\ left[1] \in Entities /\ NextId \in Ids
    BY <1>7, NextDocument, ConfigFinite, FreshId DEF Typed, TypeOK
  <2>2. m \in Message /\ m.id = NextId /\ m.kind = "doc" /\ m.entity = left[1]
    BY <2>1 DEF Message
  <2>3. cursor + 1 <= n /\ left[1] = d[cursor + 1]
    <3> HIDE DEF d
    <3>1. cursor + 1 <= n
      BY <1>5, <1>7, SubSeqEmpty
    <3>2. \A i \in (cursor + 1)..n : d[i] \in cfg
      BY <1>5
    <3>3. \A i \in 1..(n - (cursor + 1) + 1) : left[i] = d[(cursor + 1) + i - 1]
      BY <1>5, <3>1, <3>2, SubSeqProperties
    <3>4. 1 \in 1..(n - (cursor + 1) + 1) /\ (cursor + 1) + 1 - 1 = cursor + 1
      BY <1>5, <3>1
    <3> QED BY <3>1, <3>3, <3>4
  <2> HIDE DEF m, left, d
  <2>4. /\ UniqueIds'
        /\ \A i \in 1..Len(outbox') : outbox'[i] = m \/ \E j \in 1..Len(outbox) : outbox'[i] = outbox[j]
        /\ \E i \in 1..Len(outbox') : outbox'[i] = m
        /\ \A j \in 1..Len(outbox) : \E i \in 1..Len(outbox') : outbox'[i] = outbox[j]
    BY <1>1, <1>7, <2>2, AppendShown DEF Shown
  <2>5. Clears'
    BY <1>1, <1>2, <2>2, <2>4 DEF Shown, Clears, ClearsAwaited, Left, Delivered
  <2>6. ASSUME NEW x, Announcing(x) PROVE Announcing(x)'
    BY <1>1, <2>4, <2>6 DEF Announcing
  <2>7. ASSUME NEW x, x = d[cursor + 1] PROVE Announcing(x)'
    BY <2>2, <2>3, <2>4, <2>7 DEF Announcing
  <2>8. \A k \in 1..n : k <= cursor' \/ ~setup' => k <= cursor \/ k = cursor + 1
    <3> SUFFICES ASSUME NEW k \in 1..n, k <= cursor + 1 \/ ~(cursor + 1 < n)
                 PROVE  k <= cursor \/ k = cursor + 1
      BY <1>3, <1>7
    <3> QED BY <1>5, <2>3
  <2>9. Announced'
    <3> SUFFICES ASSUME connected, ~resub, NEW k \in 1..n, k <= cursor \/ k = cursor + 1
                 PROVE  Announcing(d[k])'
      BY <1>1, <1>4, <2>8 DEF Announced, d
    <3>1. CASE k <= cursor
      <4>1. Announcing(d[k])
        BY <1>1, <3>1 DEF Shown, Announced, d
      <4>2. ASSUME NEW x, x = d[k] PROVE Announcing(x)'
        BY <2>6, <4>1, <4>2
      <4> QED BY <1>4, <4>2 DEF Announcing, d
    <3>2. CASE k = cursor + 1
      BY <1>4, <2>7, <3>2 DEF Announcing, d
    <3> QED BY <3>1, <3>2
  <2> QED BY <2>5, <2>9 DEF Shown
<1> QED BY <1>3, <1>6, <1>7

\* The oldest message leaves the outbox: the rest of it is what it was.
LEMMA TailClears ==
  ASSUME Typed, Clears, outbox # <<>>, outbox' = Tail(outbox), ack' = ack,
         event' = NoEvent \/ (event'.id = Head(outbox).id)
  PROVE  Clears'
<1> DEFINE q == Tail(outbox)
<1>1. /\ Len(outbox) \in Nat /\ Len(q) = Len(outbox) - 1
      /\ Head(outbox) = outbox[1] /\ 1 \in 1..Len(outbox)
      /\ \A i \in 1..Len(q) : i + 1 \in 1..Len(outbox) /\ q[i] = outbox[i + 1]
  BY Delivered1
<1> HIDE DEF q
<1>2. \A i \in 1..Len(q) : q[i].id # outbox[1].id
  BY <1>1 DEF Clears, UniqueIds
<1>3. \A i, j \in 1..Len(q) : q[i].id = q[j].id => i = j
  <2> SUFFICES ASSUME NEW i \in 1..Len(q), NEW j \in 1..Len(q), q[i].id = q[j].id PROVE i = j
    OBVIOUS
  <2>1. i + 1 = j + 1
    BY <1>1 DEF Clears, UniqueIds
  <2> QED BY <1>1, <2>1
<1> QED BY <1>1, <1>2, <1>3 DEF Clears, UniqueIds, ClearsAwaited, Left, Delivered, q

LEMMA DeliverShown == Typed /\ Removal /\ Shown /\ Deliver => Shown'
<1> SUFFICES ASSUME Typed, Removal, Shown, Deliver PROVE Shown'
  OBVIOUS
<1> DEFINE m == Head(outbox)
           q == Tail(outbox)
<1>1. /\ UNCHANGED <<cfg, journal, ack, setup, cursor, resub>>
      /\ outbox # <<>> /\ event = NoEvent
      /\ broker' = IF m.kind = "doc" THEN broker \cup {m.entity} ELSE broker \ {m.entity}
  BY DEF Deliver, ClientFree, loop, batch
<1>2. \/ outbox' = q /\ event' = [id |-> m.id, what |-> "Published"] /\ connected' = connected
      \/ outbox' = outbox /\ event' = event /\ connected' = FALSE
  BY <1>1, Zenon DEF Deliver
<1>3. CASE outbox' = outbox /\ event' = event /\ connected' = FALSE
  <2>1. Clears'
    BY <1>1, <1>3, SameClears DEF Shown
  <2> QED BY <1>3, <2>1 DEF Shown, Announced
<1>4. CASE outbox' = q /\ event' = [id |-> m.id, what |-> "Published"] /\ connected' = connected
  <2>1. event'.id = m.id
    BY <1>4
  <2>2. Clears'
    BY <1>1, <1>4, <2>1, TailClears DEF Shown
  <2>3. /\ Len(outbox) \in Nat /\ Len(q) = Len(outbox) - 1 /\ m = outbox[1] /\ 1 \in 1..Len(outbox)
        /\ \A i \in 1..Len(q) : i + 1 \in 1..Len(outbox) /\ q[i] = outbox[i + 1]
        /\ m.kind \in {"doc", "clear"}
    BY <1>1, Delivered1
  <2> HIDE DEF m, q
  <2>4. \A i \in 1..Len(outbox) : i # 1 => i - 1 \in 1..Len(q) /\ q[i - 1] = outbox[i]
    <3> SUFFICES ASSUME NEW i \in 1..Len(outbox), i # 1
                 PROVE  i - 1 \in 1..Len(q) /\ q[i - 1] = outbox[i]
      OBVIOUS
    <3>1. i - 1 \in 1..Len(q) /\ (i - 1) + 1 = i
      BY <2>3
    <3>2. q[i - 1] = outbox[(i - 1) + 1]
      BY <2>3, <3>1
    <3> QED BY <3>1, <3>2
  <2>5. ASSUME journal = <<>>, NEW x, Announcing(x) PROVE Announcing(x)'
    <3>1. m.kind = "doc" /\ broker' = broker \cup {m.entity}
      <4>1. ack = NoAck
        BY <2>5 DEF Removal, AckMeansGone
      <4>2. m.kind # "clear"
        BY <2>3, <4>1 DEF Shown, Clears, ClearsAwaited
      <4> QED BY <1>1, <2>3, <4>2
    <3>2. CASE x \in broker
      BY <3>1, <3>2 DEF Announcing
    <3>3. ASSUME NEW i \in 1..Len(outbox), outbox[i].kind = "doc", outbox[i].entity = x PROVE Announcing(x)'
      <4>1. CASE i = 1
        BY <2>3, <3>1, <3>3, <4>1 DEF Announcing
      <4>2. CASE i # 1
        BY <1>4, <2>4, <3>3, <4>2 DEF Announcing
      <4> QED BY <4>1, <4>2
    <3> QED BY <2>5, <3>2, <3>3 DEF Announcing
  <2>6. Documents' = Documents
    BY <1>1 DEF Documents
  <2>7. Announced'
    BY <1>1, <1>4, <2>5, <2>6 DEF Shown, Announced
  <2> QED BY <2>2, <2>7 DEF Shown
<1> QED BY <1>2, <1>3, <1>4

LEMMA ExpireShown == Typed /\ Shown /\ Expire => Shown'
<1> SUFFICES ASSUME Typed, Shown, Expire PROVE Shown'
  OBVIOUS
<1>1. /\ outbox # <<>> /\ outbox' = Tail(outbox) /\ ack' = ack /\ connected' = FALSE
      /\ event' = NoEvent \/ event' = [id |-> Head(outbox).id, what |-> "Deleted"]
  BY DEF Expire, Typed, TypeOK
<1>2. event' = NoEvent \/ event'.id = Head(outbox).id
  BY <1>1
<1>3. Clears'
  BY <1>1, <1>2, TailClears DEF Shown
<1> QED BY <1>1, <1>3 DEF Shown, Announced

LEMMA PumpShown == Typed /\ Removal /\ Shown /\ PumpEvent => Shown'
<1> SUFFICES ASSUME Typed, Removal, Shown, PumpEvent PROVE Shown'
  OBVIOUS
<1>1. /\ UNCHANGED <<cfg, journal, outbox, broker, setup, cursor, connected, resub>>
      /\ event # NoEvent /\ event' = NoEvent
      /\ ack' = IF ~Expected THEN ack
                ELSE IF event.what = "Deleted" THEN NoAck ELSE [ack EXCEPT !.done = TRUE]
  BY DEF PumpEvent, loop, batch
<1>2. Announced'
  BY <1>1, SameAnnounced DEF Shown
<1>3. CASE ~Expected
  <2>1. ack' = ack
    BY <1>1, <1>3
  <2>2. Clears'
    BY <1>1, <2>1 DEF Shown, Clears, UniqueIds, ClearsAwaited, Left, Delivered
  <2> QED BY <1>2, <2>2 DEF Shown
<1>4. CASE Expected
  <2>1. \A i \in 1..Len(outbox) : outbox[i].id # ack.id /\ outbox[i].kind # "clear"
    BY <1>1, <1>4 DEF Expected, Shown, Clears, ClearsAwaited, Left
  <2>2. ack' # NoAck => ack'.id = ack.id
    BY <1>1, <1>4 DEF Expected, Typed, TypeOK
  <2>3. Clears'
    BY <1>1, <2>1, <2>2 DEF Shown, Clears, UniqueIds, ClearsAwaited, Left, Delivered
  <2> QED BY <1>2, <2>3 DEF Shown
<1> QED BY <1>2, <1>3, <1>4 DEF Shown

LEMMA CompleteShown == Typed /\ Removal /\ Shown /\ Complete => Shown'
<1> SUFFICES ASSUME Typed, Removal, Shown, Complete PROVE Shown'
  OBVIOUS
<1>1. /\ UNCHANGED <<cfg, outbox, event, broker, connected, resub>> /\ EntryDone(Head(journal))
  BY DEF Complete, client
<1>2. \/ ack' = NoAck /\ RequestSetup
      \/ UNCHANGED <<journal, ack, setup, cursor>>
  BY DEF Complete, batch
<1>3. CASE UNCHANGED <<journal, ack, setup, cursor>>
  BY <1>1, <1>3, SameClears, SameAnnounced DEF Shown
<1>4. CASE ack' = NoAck /\ RequestSetup
  <2>1. \A i \in 1..Len(outbox) : outbox[i].kind # "clear"
    BY <1>1 DEF EntryDone, Delivered, Shown, Clears, ClearsAwaited, Left
  <2>2. Clears'
    BY <1>1, <1>4, <2>1 DEF Shown, Clears, UniqueIds, ClearsAwaited, Left, Delivered
  <2> QED BY <1>4, <2>2, AnewAnnounced DEF Shown
<1> QED BY <1>2, <1>3, <1>4

LEMMA SaveShown == Shown /\ SaveConfig => Shown'
<1> SUFFICES ASSUME Shown, SaveConfig PROVE Shown'
  OBVIOUS
<1>1. UNCHANGED <<journal, ack, outbox, event, broker, connected, resub>>
  BY DEF SaveConfig, client
<1>2. Clears'
  BY <1>1, SameClears DEF Shown
<1>3. RequestSetup \/ (UNCHANGED <<setup, cursor>> /\ (~connected \/ cfg' = cfg))
  BY DEF SaveConfig, batch
<1>4. CASE RequestSetup
  BY <1>2, <1>4, AnewAnnounced DEF Shown
<1>5. CASE ~connected
  BY <1>1, <1>2, <1>5 DEF Shown, Announced
<1>6. CASE UNCHANGED <<setup, cursor>> /\ cfg' = cfg
  BY <1>1, <1>2, <1>6, SameAnnounced DEF Shown
<1> QED BY <1>3, <1>4, <1>5, <1>6

LEMMA ShownStep == Typed /\ Removal /\ Shown /\ [Next]_vars => Shown'
<1> SUFFICES ASSUME Typed, Removal, Shown, [Next]_vars PROVE Shown'
  OBVIOUS
<1>1. CASE Commit
  <2>1. /\ UNCHANGED <<cfg, ack, setup, cursor, connected, resub, outbox, event, broker>>
        /\ journal' = <<>> => journal = <<>>
    BY <1>1, ExtendedFacts DEF Commit, Prepare, batch, client
  <2> QED BY <2>1, SameClears, SameAnnounced DEF Shown
<1>2. CASE Resubscribed
  <2>1. UNCHANGED <<ack, outbox, event>> /\ RequestSetup
    BY <1>2 DEF Resubscribed
  <2> QED BY <2>1, SameClears, AnewAnnounced DEF Shown
<1>3. CASE NotDone \/ LockAck \/ UNCHANGED vars
  <2>1. UNCHANGED <<cfg, journal, ack, setup, cursor, connected, resub, outbox, event, broker>>
    BY <1>3 DEF NotDone, LockAck, vars, loop, batch, client
  <2> QED BY <2>1, SameClears, SameAnnounced DEF Shown
<1>4. CASE Disconnected \/ Connected
  <2>1. UNCHANGED <<ack, outbox, event>> /\ (connected' = FALSE \/ resub' = TRUE)
    BY <1>4 DEF Disconnected, Connected
  <2> QED BY <2>1, SameClears DEF Shown, Announced
<1>5. CASE Restart
  <2>1. outbox' = <<>> /\ Len(outbox') = 0 /\ ack' = NoAck /\ event' = NoEvent /\ connected' = FALSE
    BY <1>5 DEF Restart
  <2> QED BY <2>1 DEF Shown, Clears, UniqueIds, ClearsAwaited, Left, Delivered, Announced
<1> QED BY <1>1, <1>2, <1>3, <1>4, <1>5, SaveShown, CompleteShown, SendShown, PublishShown,
           DeliverShown, ExpireShown, PumpShown
        DEF Next, Loop, Network

\* With the journal worked off and everything acknowledged, Home Assistant shows
\* exactly the configured entities, whatever was interleaved, lost, sent twice
\* or restarted on the way (deletions.rs, app_loop.rs, mqtt.rs).
THEOREM ShowsWhatIsConfigured == Spec => []ShowsConfig
<1>1. Init => Typed /\ Removal /\ Shown
  BY InitTyped, InitRemoval, InitShown
<1>2. Typed /\ Removal /\ Shown /\ [Next]_vars => (Typed /\ Removal /\ Shown)'
  BY StepKeeps, ShownStep
<1>3. Typed /\ Removal /\ Shown => ShowsConfig
  <2> SUFFICES ASSUME Typed, Removal, Shown, Settled, ~unsure PROVE broker = cfg
    BY DEF ShowsConfig
  <2>1. broker \subseteq cfg
    <3>1. ToSet(journal) = {}
      BY DEF Settled, ToSet
    <3>2. Ghosts = {}
      BY <3>1 DEF Removal, NothingForgotten, Settled
    <3> QED BY <3>2 DEF Ghosts, Removal
  <2>2. \A k \in 1..Len(Documents) : Documents[k] \in broker
    <3>1. Len(outbox) = 0 /\ 1..0 = {}
      BY DEF Settled
    <3> QED BY <3>1 DEF Settled, Shown, Announced, Announcing
  <2>3. Documents \in Seq(cfg) /\ ToSet(Documents) = cfg
    <3>1. cfg \in Configs
      BY DEF Typed, TypeOK
    <3> QED BY <3>1, ConfigFinite, Listed DEF Documents
  <2>4. DOMAIN Documents = 1..Len(Documents)
    BY <2>3
  <2> HIDE DEF Documents
  <2>5. cfg \subseteq broker
    BY <2>2, <2>3, <2>4 DEF ToSet
  <2> QED BY <2>1, <2>5
<1> QED BY <1>1, <1>2, <1>3, PTL DEF Spec
=============================================================================
