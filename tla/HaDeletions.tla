----------------------------- MODULE HaDeletions -----------------------------
(***************************************************************************)
(* How an entity disappears from Home Assistant when a configuration is    *)
(* committed without it: a journal in flash                                *)
(* (crates/telenot-app/src/deletions.rs), written before the               *)
(* configuration, whose entries are cleared at the broker one by one, each *)
(* until its own acknowledgement                                           *)
(* (crates/telenot-esp-bridge/src/mqtt.rs and app_loop.rs).                *)
(*                                                                         *)
(* Three threads take part.  The loop commits, works on the journal and    *)
(* publishes discovery documents; the MQTT client sends what is in its     *)
(* outbox; the event pump records what became of it.  Two locks are        *)
(* between them: deletion_ack's own, and the client's, which every call of *)
(* the loop needs and which the client keeps while the pump has an event   *)
(* of it in hand - that is why the pump must not call the client           *)
(* (mqtt.rs:88-90).                                                        *)
(*                                                                         *)
(* The outbox is first in, first out, and a message that was not           *)
(* acknowledged before the connection broke is sent again.  The            *)
(* configuration store is used through its promise (AtomicConfig): it has  *)
(* the old or the new configuration, but may report an error in either     *)
(* case.                                                                   *)
(***************************************************************************)
EXTENDS Naturals, FiniteSets, Sequences, SequencesExt

CONSTANTS
  Entities,             \* discovery documents of confirmed sensors and switches
  Configs,              \* configurations, each the set of its entities
  Ids,                  \* message identifiers of the client
  NoAck,                \* deletion_ack is None
  NoEvent,
  LIMIT,                \* entries the journal may hold
  OutboxLimit,          \* messages the outbox takes
  MaxCommits, MaxErrors, MaxDrops, MaxRestarts      \* bounds

ASSUME DeletionAssumption ==
  /\ Configs \subseteq SUBSET Entities /\ IsFiniteSet(Entities)
  /\ IsFiniteSet(Ids) /\ Cardinality(Ids) > OutboxLimit      \* never all in use
  /\ NoAck \notin [id : Ids, done : BOOLEAN]
  /\ NoEvent \notin [id : Ids, what : {"Published", "Deleted"}]
  /\ {LIMIT, OutboxLimit, MaxCommits, MaxErrors, MaxDrops, MaxRestarts} \subseteq Nat

VARIABLES
  cfg,                  \* what the core runs with
  stored,               \* what the store would load
  journal,              \* Deletions, in memory
  nvs,                  \* blob ha_deletions
  readable,             \* Deletions::load succeeded
  stage,                \* where the loop is
  job,                  \* the configuration being committed
  ack,                  \* deletion_ack
  setup, cursor,        \* PublishBatch: pending, and its position
  connected, resub,
  outbox,               \* the client's messages, oldest first
  event,                \* what the event pump has in hand
  broker,               \* entities whose document is retained
  unsure,               \* history: a save landed although it reported an error
  commits, errors, drops, restarts

flash  == <<stored, nvs>>
loop   == <<cfg, journal, readable, stage, job>>
batch  == <<setup, cursor>>
client == <<connected, resub, outbox, event, broker>>
bounds == <<commits, errors, drops, restarts>>
vars   == <<flash, loop, ack, batch, client, unsure, bounds>>

Message == [id : Ids, kind : {"doc", "clear"}, entity : Entities]
Event   == [id : Ids, what : {"Published", "Deleted"}]

TypeOK ==
  /\ cfg \in Configs /\ stored \in Configs /\ job \in Configs
  /\ journal \in Seq(Entities) /\ nvs \in Seq(Entities)
  /\ Len(journal) <= LIMIT /\ IsInjective(journal)
  /\ stage \in {"pass", "save", "decided", "send"}
  /\ ack \in [id : Ids, done : BOOLEAN] \cup {NoAck}
  /\ readable \in BOOLEAN /\ setup \in BOOLEAN /\ unsure \in BOOLEAN
  /\ connected \in BOOLEAN /\ resub \in BOOLEAN
  /\ cursor \in 0..Cardinality(Entities)
  /\ outbox \in Seq(Message) /\ Len(outbox) <= OutboxLimit
  /\ event \in Event \cup {NoEvent}
  /\ broker \subseteq Entities
  /\ commits \in 0..MaxCommits /\ errors \in 0..MaxErrors
  /\ drops \in 0..MaxDrops /\ restarts \in 0..MaxRestarts

-----------------------------------------------------------------------------
(* Flash *)

Outcomes == {"done", "refused", "unverified"}

Ends(out) ==
  IF out = "done" THEN UNCHANGED errors ELSE errors < MaxErrors /\ errors' = errors + 1

Lands(out) == out # "refused"

-----------------------------------------------------------------------------
(* The loop: a commit *)

\* (Mutant: an entity is journalled although it already is.)
RemovedAgain(new) == SetToSeq(cfg \ new)

\* deletions_for_each: what the old configuration announced and the new one does not.
Removed(new) == SetToSeq((cfg \ new) \ ToSet(journal))

\* Entries beyond LIMIT do not fit and make prepare fail.
Overflows(new) == Len(journal) + Len(Removed(new)) > LIMIT
Extended(new) ==
  LET all == journal \o Removed(new)
  IN  IF Overflows(new) THEN SubSeq(all, 1, LIMIT) ELSE all

\* Deletions::prepare.  The journal in memory grows in any case.
Prepare(new) ==
  /\ journal' = Extended(new)
  /\ IF Overflows(new) THEN stage' = "pass" /\ UNCHANGED <<nvs, errors>>
     ELSE \E out \in Outcomes :
            /\ Ends(out)
            /\ nvs' = IF Lands(out) THEN journal' ELSE nvs
            /\ stage' = IF out = "done" THEN "save" ELSE "pass"

\* Intent::ReloadConfig.  Without a journal nothing is committed at all.
Commit ==
  /\ stage = "pass" /\ readable
  /\ commits < MaxCommits
  /\ commits' = commits + 1
  /\ \E new \in Configs :
       /\ Prepare(new)
       /\ job' = IF stage' = "save" THEN new ELSE job
  /\ UNCHANGED <<cfg, stored, readable, ack, batch, client, unsure, drops, restarts>>

RequestSetup == setup' = TRUE /\ cursor' = 0

\* CfgStore::save, and Runtime::reload if it reported success.
SaveConfig ==
  /\ stage = "save"
  /\ stage' = "pass"
  /\ \E out \in Outcomes :
       /\ Ends(out)
       /\ stored' = IF Lands(out) THEN job ELSE stored
       /\ cfg' = IF out = "done" THEN job ELSE cfg
       /\ IF out = "done" /\ connected THEN RequestSetup ELSE UNCHANGED batch
       /\ unsure' = (unsure \/ out = "unverified")
  /\ UNCHANGED <<nvs, journal, readable, job, ack, client, commits, drops, restarts>>

-----------------------------------------------------------------------------
(* The loop: the journal *)

StillPresent(e) == e \in cfg
Delivered == ack # NoAck /\ ack.done

\* (Mutant: an entry is done as soon as it has been sent.)
DoneOnceSent(e) == StillPresent(e) \/ ack # NoAck

\* An entry is done when the broker has acknowledged it, or when a commit that
\* failed left it behind for an entity that is still there.
EntryDone(e) == (StillPresent(e) /\ ack = NoAck) \/ Delivered

\* Deletions::complete: flash first, then memory.
Complete ==
  /\ stage = "pass" /\ readable /\ journal # <<>>
  /\ EntryDone(Head(journal))
  /\ \E out \in Outcomes :
       /\ Ends(out)
       /\ nvs' = IF Lands(out) THEN Tail(journal) ELSE nvs
       /\ IF out = "done"
          THEN journal' = Tail(journal) /\ ack' = NoAck /\ RequestSetup
          ELSE UNCHANGED <<journal, ack, batch>>
  /\ UNCHANGED <<cfg, stored, readable, stage, job, client, unsure, commits, drops, restarts>>

\* Otherwise it is sent.
NotDone ==
  /\ stage = "pass" /\ readable /\ journal # <<>>
  /\ ~EntryDone(Head(journal))
  /\ connected
  /\ stage' = "decided"
  /\ UNCHANGED <<flash, cfg, journal, readable, job, ack, batch, client, unsure, bounds>>

\* send_deletion takes the lock of deletion_ack; the pump may have run since.
LockAck ==
  /\ stage = "decided"
  /\ stage' = "send"
  /\ UNCHANGED <<flash, cfg, journal, readable, job, ack, batch, client, unsure, bounds>>

ClientFree == event = NoEvent

\* The client numbers its messages; any number not in use will do.
NextId ==
  CHOOSE id \in Ids :
    /\ id \notin {m.id : m \in ToSet(outbox)}
    /\ ack # NoAck => ack.id # id

\* (Mutant: a message that expired without an event is waited for.)
NeverExpired == ack

\* An empty outbox means that an unacknowledged clear has expired.
Unexpired == IF ack # NoAck /\ ~ack.done /\ outbox = <<>> THEN NoAck ELSE ack

\* The rest of send_deletion, with the lock held.  The outbox may refuse the
\* message; then a later pass repeats it.
SendDeletion ==
  /\ stage = "send"
  /\ ClientFree \/ Delivered
  /\ stage' = "pass"
  /\ IF Unexpired = NoAck /\ Len(outbox) < OutboxLimit
     THEN /\ outbox' = Append(outbox, [id |-> NextId, kind |-> "clear", entity |-> Head(journal)])
          /\ ack' = [id |-> NextId, done |-> FALSE]
     ELSE ack' = Unexpired /\ UNCHANGED outbox
  /\ UNCHANGED <<flash, cfg, journal, readable, job, batch, connected, resub, event, broker,
                 unsure, bounds>>

-----------------------------------------------------------------------------
(* The loop: discovery documents *)

Documents == SetToSeq(cfg)

\* A commit and a restart begin the documents anew; so does a reconnect.
Resubscribed ==
  /\ stage = "pass" /\ resub
  /\ resub' = FALSE
  /\ RequestSetup
  /\ UNCHANGED <<flash, loop, ack, connected, outbox, event, broker, unsure, bounds>>

\* Documents are only published while nothing is left to remove.
SetupReady == stage = "pass" /\ readable /\ setup /\ connected /\ journal = <<>>

\* A pass publishes a few more documents: its budget is shared with other
\* topics, and a message the outbox refuses keeps its place.
PublishSetup ==
  /\ SetupReady
  /\ ClientFree
  /\ LET left == SubSeq(Documents, cursor + 1, Len(Documents))
     IN  IF left # <<>> /\ Len(outbox) < OutboxLimit
         THEN /\ outbox' = Append(outbox, [id |-> NextId, kind |-> "doc", entity |-> left[1]])
              /\ cursor' = cursor + 1
         ELSE UNCHANGED <<outbox, cursor>>
  /\ setup' = (cursor' < Len(Documents))
  /\ UNCHANGED <<flash, loop, ack, connected, resub, event, broker, unsure, bounds>>

-----------------------------------------------------------------------------
(* The client, the pump and the network *)

\* The broker has the oldest message.  Either its acknowledgement arrives, or the
\* connection breaks first.
Deliver ==
  /\ connected /\ outbox # <<>> /\ ClientFree
  /\ LET m == Head(outbox)
     IN  /\ broker' = IF m.kind = "doc" THEN broker \cup {m.entity} ELSE broker \ {m.entity}
         /\ \/ /\ outbox' = Tail(outbox)
               /\ event' = [id |-> m.id, what |-> "Published"]
               /\ UNCHANGED <<connected, drops>>
            \/ /\ drops < MaxDrops
               /\ drops' = drops + 1
               /\ connected' = FALSE
               /\ UNCHANGED <<outbox, event>>
  /\ UNCHANGED <<flash, loop, ack, batch, resub, unsure, commits, errors, restarts>>

Disconnected ==
  /\ connected /\ ClientFree
  /\ drops < MaxDrops
  /\ drops' = drops + 1
  /\ connected' = FALSE
  /\ UNCHANGED <<flash, loop, ack, batch, resub, outbox, event, broker, unsure, commits, errors, restarts>>

Connected ==
  /\ ~connected /\ ClientFree
  /\ connected' = TRUE
  /\ resub' = TRUE
  /\ UNCHANGED <<flash, loop, ack, batch, outbox, event, broker, unsure, bounds>>

\* A message grows too old while the broker is away; not every build of the
\* client says so.
Expire ==
  /\ ~connected /\ outbox # <<>> /\ ClientFree
  /\ outbox' = Tail(outbox)
  /\ event' \in {NoEvent, [id |-> Head(outbox).id, what |-> "Deleted"]}
  /\ UNCHANGED <<flash, loop, ack, batch, connected, resub, broker, unsure, bounds>>

\* (Mutant: any acknowledgement counts as that of the clear.)
AnyId == ack # NoAck

Expected == ack # NoAck /\ ack.id = event.id

\* The event pump matches the exact identifier, under the lock of deletion_ack.
PumpEvent ==
  /\ event # NoEvent
  /\ stage # "send"
  /\ event' = NoEvent
  /\ ack' = IF ~Expected THEN ack
            ELSE IF event.what = "Deleted" THEN NoAck ELSE [ack EXCEPT !.done = TRUE]
  /\ UNCHANGED <<flash, loop, batch, connected, resub, outbox, broker, unsure, bounds>>

-----------------------------------------------------------------------------

\* A restart: the outbox and the position of the documents are lost, and the
\* journal may turn out to be unreadable.
Restart ==
  /\ restarts < MaxRestarts
  /\ restarts' = restarts + 1
  /\ cfg' = stored /\ job' = stored
  /\ stage' = "pass"
  /\ \E out \in {"done", "refused"} :
       /\ Ends(out)
       /\ readable' = (out = "done")
       /\ journal' = IF out = "done" THEN nvs ELSE <<>>
  /\ ack' = NoAck
  /\ RequestSetup
  /\ connected' = FALSE /\ resub' = FALSE
  /\ outbox' = <<>> /\ event' = NoEvent
  /\ UNCHANGED <<flash, broker, unsure, commits, drops>>

Init ==
  /\ cfg \in Configs /\ stored = cfg /\ job = cfg
  /\ journal = <<>> /\ nvs = <<>> /\ readable = TRUE
  /\ stage = "pass"
  /\ ack = NoAck
  /\ setup = TRUE /\ cursor = 0
  /\ connected = FALSE /\ resub = FALSE
  /\ outbox = <<>> /\ event = NoEvent /\ broker = {}
  /\ unsure = FALSE
  /\ commits = 0 /\ errors = 0 /\ drops = 0 /\ restarts = 0

Loop    == SaveConfig \/ Complete \/ NotDone \/ LockAck \/ SendDeletion \/ Resubscribed \/ PublishSetup
Network == Deliver \/ Disconnected \/ Connected \/ Expire \/ PumpEvent

Next == Commit \/ Loop \/ Network \/ Restart

Spec == Init /\ [][Next]_vars

\* The loop and the pump keep running, the client connects again and its
\* messages arrive.
FairSpec ==
  /\ Spec
  /\ WF_vars(SaveConfig) /\ WF_vars(Complete) /\ WF_vars(NotDone)
  /\ WF_vars(LockAck) /\ WF_vars(SendDeletion)
  /\ WF_vars(Connected) /\ WF_vars(Deliver) /\ WF_vars(PumpEvent)

-----------------------------------------------------------------------------
(* Properties *)

\* Entities Home Assistant shows, or is about to, that are not configured.
Ghosts == (broker \cup {m.entity : m \in {x \in ToSet(outbox) : x.kind = "doc"}}) \ stored

\* "Reboot-safe": whatever fails or restarts, an entity that is still to be
\* removed is in the journal in flash - unless a save reported as failed had
\* replaced the configuration after all.
NothingForgotten == ~unsure => Ghosts \subseteq ToSet(nvs)

Settled ==
  /\ stage = "pass" /\ readable /\ journal = <<>> /\ ~setup
  /\ connected /\ ~resub /\ outbox = <<>>

\* Once everything is done Home Assistant shows exactly the configured
\* entities: no removed one is left and no clear hit a live one.
ShowsConfig == Settled /\ ~unsure => broker = cfg

\* The pump only signals, so that it never keeps the client from the loop
\* (mqtt.rs:88-90): not both wait for a lock the other one holds.
NoStandoff == ~(stage = "send" /\ ~ClientFree /\ ~Delivered)

\* "Durable, retried delivery": an entity in the journal is cleared, or is
\* configured again, whatever expired or was dropped on the way - unless the
\* journal could not be read or the loop and the pump block each other.
EventuallyGone ==
  \A e \in Entities :
    (readable /\ e \in ToSet(journal)) ~> (e \notin ToSet(journal) \/ ~readable \/ ~NoStandoff)
=============================================================================
