------------------------------ MODULE JobQueue ------------------------------
(***************************************************************************)
(* A RabbitMQ job queue as the jobs-worker declares it: durable, with a    *)
(* dead-letter queue behind it and a time to live, read by one consumer    *)
(* with prefetch(1), which therefore holds one unacknowledged message at a *)
(* time.  A queue is a record; the operators give its next value.          *)
(***************************************************************************)
EXTENDS Naturals, Sequences

\* A message is a job and its x-retry-count header.
Msg(job, retry) == [job |-> job, retry |-> retry]

EmptyQueue == [ready |-> <<>>, held |-> <<>>, dead |-> <<>>]

IsQueue(q, Jobs, Retries) ==
    LET Msgs == [job : Jobs, retry : Retries] IN
    /\ q.ready \in Seq(Msgs)
    /\ q.held \in Seq(Msgs) /\ Len(q.held) <= 1
    /\ q.dead \in Seq(Msgs)

SendToQueue(q, m) == [q EXCEPT !.ready = Append(@, m)]

Deliver(q) == [q EXCEPT !.ready = Tail(@), !.held = <<Head(q.ready)>>]

Ack(q) == [q EXCEPT !.held = <<>>]

\* nack(msg, false, false): not requeued, so dead-lettered.
Nack(q) == [q EXCEPT !.held = <<>>, !.dead = Append(@, q.held[1])]

\* The channel closed: the broker puts the unacknowledged message back.
Requeue(q) == [q EXCEPT !.ready = q.held \o @, !.held = <<>>]

\* The oldest ready message reached x-message-ttl.
Expire(q) ==
    [q EXCEPT !.ready = Tail(@), !.dead = Append(@, Head(q.ready))]

Waiting(q) == {q.ready[i].job : i \in DOMAIN q.ready}
                  \cup {q.held[i].job : i \in DOMAIN q.held}
Dead(q) == {q.dead[i].job : i \in DOMAIN q.dead}
====
