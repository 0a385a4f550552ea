----------------------------- MODULE EventBus -----------------------------
(***************************************************************************)
(* orchestra/streaming/event_bus.py: the in-process mirror of the audit    *)
(* timeline.  Every operation holds the bus's lock from start to end, so   *)
(* each is one step.  A subscriber is a bounded asyncio.Queue that belongs *)
(* to one SSE connection; a full queue drops what is put into it, the      *)
(* close sentinel too.                                                     *)
(***************************************************************************)
EXTENDS Integers, Sequences

CONSTANTS Topics,    \* task run ids
          Subs,      \* SSE connections
          Replay,    \* replay_buffer: the history kept for one topic
          QueueMax,  \* maxsize of a subscriber's queue
          NoTopic,
          Done       \* the sentinel None

VARIABLES hist,      \* _history
          closed,    \* _closed
          topic,     \* topic[s]: what s has subscribed to, or NoTopic
          attached,  \* _subscribers: the queues that get what is published
          queue      \* queue[s]: the subscriber's queue

BusInit == /\ hist = [t \in Topics |-> <<>>]
           /\ closed = {}
           /\ topic = [s \in Subs |-> NoTopic]
           /\ attached = {}
           /\ queue = [s \in Subs |-> <<>>]

\* put_nowait, with QueueFull swallowed.
Put(q, e) == IF Len(q) < QueueMax THEN Append(q, e) ELSE q

\* deque(maxlen=Replay).append
Kept(buf, e) == LET all == Append(buf, e)
                IN IF Len(all) > Replay THEN Tail(all) ELSE all

ToAttached(t, e) == queue' = [s \in Subs |-> IF s \in attached /\ topic[s] = t
                                             THEN Put(queue[s], e) ELSE queue[s]]

Publish(t, e) == /\ ToAttached(t, e)
                 /\ hist' = [hist EXCEPT ![t] = Kept(@, e)]
                 /\ UNCHANGED <<closed, topic, attached>>

Close(t) == /\ IF t \in closed THEN UNCHANGED <<closed, queue>>
               ELSE closed' = closed \cup {t} /\ ToAttached(t, Done)
            /\ UNCHANGED <<hist, topic, attached>>

\* Mutant: the snapshot is not part of the subscription.
Snapshot_Empty(t) == <<>>

\* What a new queue is filled with before it is attached.
Snapshot(t) == SubSeq(hist[t], 1, IF Len(hist[t]) < QueueMax THEN Len(hist[t]) ELSE QueueMax)

\* Mutant: a queue that comes after the close gets no sentinel.
First_NoDone(t) == Snapshot(t)

First(t) == IF t \in closed THEN Put(Snapshot(t), Done) ELSE Snapshot(t)

Subscribe(s, t) == /\ topic[s] = NoTopic
                   /\ topic' = [topic EXCEPT ![s] = t]
                   /\ queue' = [queue EXCEPT ![s] = First(t)]
                   /\ attached' = IF t \in closed THEN attached ELSE attached \cup {s}
                   /\ UNCHANGED <<hist, closed>>

Unsubscribe(s) == /\ topic' = [topic EXCEPT ![s] = NoTopic]
                  /\ attached' = attached \ {s}
                  /\ queue' = [queue EXCEPT ![s] = <<>>]
                  /\ UNCHANGED <<hist, closed>>

\* await queue.get(), until the queue is empty.
Drain(s) == /\ queue' = [queue EXCEPT ![s] = <<>>]
            /\ UNCHANGED <<hist, closed, topic>>
=============================================================================
