--------------------------- MODULE EventListener ----------------------------
(***************************************************************************)
(* From the events socket to the Kubernetes API: send_capture_event        *)
(* (src/src/events.rs) and the daemon's listener with its in-memory        *)
(* Aggregator and Event client (src/src/k8s_events.rs).                    *)
(*                                                                         *)
(* The API server is external: it answers 409 to a create of a name it     *)
(* has and 404 to a patch of one it has not, drops an Event EventTTL after *)
(* its last write, and with Outages = TRUE a request may fail, take effect *)
(* unanswered, or take effect after the client has given up on it.         *)
(***************************************************************************)
EXTENDS CgroupIdentity, FiniteSets, Functions, TLC

CONSTANTS Reports,      \* what handlers report, but for the timestamp: outcome,
                        \* and namespace, pod_name and pod_uid as far as known
          NoPost,       \* no request in progress
          TTL,          \* AGGREGATION_TTL
          EventTTL,     \* the API server's Event TTL
          MaxKeys,      \* MAX_AGGREGATION_KEYS
          QueueCap,     \* datagrams the socket buffers
          MaxLag,       \* bound: seconds from a crash to its report
          MaxClock,     \* bound: last second of the clock
          MaxPayloads,  \* bound: captures reported
          MaxRestarts,  \* bound: restarts of the daemon
          Outages       \* whether requests to the API may fail or be late

ASSUME ListenerAssumption ==
  /\ {TTL, EventTTL, MaxKeys, QueueCap} \subseteq Nat \ {0}
  /\ {MaxLag, MaxClock, MaxPayloads, MaxRestarts} \subseteq Nat
  /\ Outages \in BOOLEAN

VARIABLES clock,
          sent,      \* captures reported so far
          queue,     \* datagrams in the socket
          client,    \* whether there is an API client (--no-events, no token)
          entries,   \* Aggregator.entries: key -> [ts, count, created]
          post,      \* the request being awaited, or NoPost
          late,      \* requests given up on that may still take effect
          api,       \* Events the API server holds: name -> [count, until]
          gone,      \* history: per key, the counts of Events that expired
          handled,   \* history: per key, the captures recorded
          restarts

vars == <<clock, sent, queue, client, entries, post, late, api, gone, handled, restarts>>

\* Reason::from_outcome; captures of the other outcomes make no Event.
from_outcome ==
  "uploaded" :> "CoreDumped" @@ "suppressed" :> "CoreDumpSuppressed" @@
  "no-store" :> "CoreDiscardedNoStore"

MAX_NAMESPACE_LEN == 63

\* A namespace is a sequence of "a" (lowercase or digit), "-" and anything else.
is_dns1123_label(s) ==
  /\ Len(s) \in 1..MAX_NAMESPACE_LEN
  /\ \A i \in DOMAIN s : s[i] \in {"a", "-"}
  /\ s[1] = "a" /\ s[Len(s)] = "a"

\* handle_payload: the report has a reason and names a pod well enough.
Postable(r) ==
  /\ r.outcome \in DOMAIN from_outcome
  /\ {} \notin {r.namespace, r.pod_name, r.pod_uid}
  /\ \A s \in r.namespace : is_dns1123_label(s)
  /\ \A u \in r.pod_uid : is_pod_uid(u)

AggKey(r) == [namespace |-> r.namespace, pod_uid |-> r.pod_uid, reason |-> from_outcome[r.outcome]]
Keys == {AggKey(r) : r \in {q \in Reports : Postable(q)}}

\* event_name: the timestamp of the capture that created the entry.
Names    == Keys \X (-MaxLag..MaxClock)
Payloads == [report : Reports, ts : -MaxLag..MaxClock]
Requests == [new : BOOLEAN, name : Names, count : 1..MaxPayloads]

ASSUME PostAssumption == NoPost \notin [new : BOOLEAN, name : Keys \X Int, count : Nat]

\* f with x mapped to y, added if need be.
With(f, x, y) == [z \in DOMAIN f \cup {x} |-> IF z = x THEN y ELSE f[z]]
Empty == [x \in {} |-> 0]

Init ==
  /\ clock = 0 /\ sent = 0 /\ queue = <<>> /\ restarts = 0
  /\ client \in BOOLEAN
  /\ entries = Empty /\ post = NoPost /\ late = {}
  /\ api = Empty
  /\ gone = [k \in Keys |-> 0] /\ handled = [k \in Keys |-> 0]

\* Without outages the listener keeps up: nothing it does takes a second.
Tick ==
  /\ clock < MaxClock
  /\ Outages \/ (post = NoPost /\ queue = <<>>)
  /\ clock' = clock + 1
  /\ UNCHANGED <<sent, queue, client, entries, post, late, api, gone, handled, restarts>>

\* send_capture_event is non-blocking: a full buffer loses the report.
Send(r, ts) ==
  /\ sent < MaxPayloads
  /\ sent' = sent + 1
  /\ queue' = IF Len(queue) < QueueCap THEN Append(queue, [report |-> r, ts |-> ts]) ELSE queue
  /\ UNCHANGED <<clock, client, entries, post, late, api, gone, handled, restarts>>

----------------------------------------------------------------------------
PrunedOffByOne(e, now) ==  \* plausible bug: an entry outlives its Event
  Restrict(e, {k \in DOMAIN e : now - e[k].created <= TTL})

\* Aggregator::prune.
Pruned(e, now) == Restrict(e, {k \in DOMAIN e : now - e[k].created < TTL})

\* At the key cap new keys are dropped.
Full(e) == Cardinality(DOMAIN e) >= MaxKeys

IgnoreOnlyWithClient ==  \* plausible bug: --no-events leaves the socket unread
  /\ post = NoPost /\ queue # <<>>
  /\ client /\ ~Postable(Head(queue).report)
  /\ queue' = Tail(queue)
  /\ UNCHANGED <<clock, sent, client, entries, post, late, api, gone, handled, restarts>>

\* run_listener logs every capture; handle_payload returns early for one that
\* has no Event reason, no client or no (valid) pod to put it on.  A datagram
\* that does not parse is dropped likewise.
Ignore ==
  /\ post = NoPost /\ queue # <<>>
  /\ ~client \/ ~Postable(Head(queue).report)
  /\ queue' = Tail(queue)
  /\ UNCHANGED <<clock, sent, client, entries, post, late, api, gone, handled, restarts>>

RecordCountsTwice(k, ts) ==  \* plausible bug: a new entry is bumped at once
  LET e == Pruned(entries, clock)
      n == IF k \in DOMAIN e THEN e[k].count + 1 ELSE 2
      t == IF k \in DOMAIN e THEN e[k].ts ELSE ts
  IN  /\ entries' = With(e, k, [ts |-> t, count |-> n, created |-> clock])
      /\ post' = [new |-> k \notin DOMAIN e, name |-> <<k, t>>, count |-> n]
      /\ handled' = [handled EXCEPT ![k] = @ + 1]

\* Aggregator::record: prune, then bump the entry or make a new one, and start
\* the request that goes with it.
Record(k, ts) ==
  LET e == Pruned(entries, clock)
      bumped == [e[k] EXCEPT !.count = @ + 1]
      fresh  == [ts |-> ts, count |-> 1, created |-> clock]
  IN  CASE k \in DOMAIN e ->
             /\ entries' = With(e, k, bumped)
             /\ post' = [new |-> FALSE, name |-> <<k, e[k].ts>>, count |-> bumped.count]
             /\ handled' = [handled EXCEPT ![k] = @ + 1]
        [] k \notin DOMAIN e /\ ~Full(e) ->
             /\ entries' = With(e, k, fresh)
             /\ post' = [new |-> TRUE, name |-> <<k, ts>>, count |-> 1]
             /\ handled' = [handled EXCEPT ![k] = @ + 1]
        [] OTHER ->
             /\ entries' = e
             /\ UNCHANGED <<post, handled>>

Receive ==
  /\ post = NoPost /\ queue # <<>>
  /\ client /\ Postable(Head(queue).report)
  /\ Record(AggKey(Head(queue).report), Head(queue).ts)
  /\ queue' = Tail(queue)
  /\ UNCHANGED <<clock, sent, client, late, api, gone, restarts>>

SweepNothing == FALSE /\ UNCHANGED vars  \* plausible bug: the timer is dropped

\* The 5-minute sweep; the loop takes it only between two payloads.
Sweep ==
  /\ post = NoPost
  /\ entries' = Pruned(entries, clock)
  /\ entries' # entries
  /\ UNCHANGED <<clock, sent, queue, client, post, late, api, gone, handled, restarts>>

----------------------------------------------------------------------------
\* The API server carries out a request, if it can.
Applied(r) ==
  IF r.new <=> r.name \in DOMAIN api THEN api
  ELSE With(api, r.name, [count |-> r.count, until |-> clock + EventTTL])

\* create_event, patch_event_series: the request is carried out (answered or
\* not), is lost, or is still under way when the 30-second timeout ends the wait.
Attempt(r) ==
  \/ api' = Applied(r) /\ UNCHANGED late
  \/ Outages /\ UNCHANGED <<api, late>>
  \/ Outages /\ late' = late \cup {r} /\ UNCHANGED api

\* Every error is logged and swallowed, and the entry stays as recorded.
PostDone ==
  /\ post # NoPost
  /\ Attempt(post)
  /\ post' = NoPost
  /\ UNCHANGED <<clock, sent, queue, client, entries, gone, handled, restarts>>

Deliver(r) ==
  /\ r \in late
  /\ api' = Applied(r)
  /\ late' = late \ {r}
  /\ UNCHANGED <<clock, sent, queue, client, entries, post, gone, handled, restarts>>

Expire(name) ==
  /\ name \in DOMAIN api
  /\ clock >= api[name].until
  /\ api' = Restrict(api, DOMAIN api \ {name})
  /\ gone' = [gone EXCEPT ![name[1]] = @ + api[name].count]
  /\ UNCHANGED <<clock, sent, queue, client, entries, post, late, handled, restarts>>

\* A restart binds a new socket and starts with an empty aggregator; a request
\* under way may still take effect.
Restart ==
  /\ restarts < MaxRestarts
  /\ restarts' = restarts + 1
  /\ queue' = <<>> /\ entries' = Empty /\ post' = NoPost
  /\ late' = IF post = NoPost THEN late ELSE late \cup {post}
  /\ UNCHANGED <<clock, sent, client, api, gone, handled>>

Next ==
  \/ Tick \/ Ignore \/ Receive \/ Sweep \/ PostDone \/ Restart
  \/ \E r \in Reports, ts \in clock - MaxLag..clock : Send(r, ts)
  \/ \E r \in late : Deliver(r)
  \/ \E name \in DOMAIN api : Expire(name)

Spec == Init /\ [][Next]_vars

\* The listener's task runs, its timer ticks and the client's timeout ends
\* every request; reports, outages, restarts and the API server are not ours.
FairSpec == Spec /\ WF_vars(Ignore \/ Receive) /\ WF_vars(PostDone) /\ WF_vars(Sweep)

----------------------------------------------------------------------------
TypeOK ==
  /\ clock \in 0..MaxClock /\ sent \in 0..MaxPayloads /\ restarts \in 0..MaxRestarts
  /\ client \in BOOLEAN
  /\ queue \in Seq(Payloads) /\ Len(queue) <= QueueCap
  /\ DOMAIN entries \subseteq Keys
  /\ \A k \in DOMAIN entries :
       entries[k] \in [ts : -MaxLag..MaxClock, count : 1..MaxPayloads, created : 0..clock]
  /\ post \in Requests \cup {NoPost} /\ late \subseteq Requests
  /\ DOMAIN api \subseteq Names
  /\ \A n \in DOMAIN api : api[n] \in [count : 1..MaxPayloads, until : Nat]
  /\ gone \in [Keys -> Nat] /\ handled \in [Keys -> Nat]

\* The crashes that the API server's Events of k claim, and how many they are.
Claims(k)  == UNION {{n} \X (1..api[n].count) : n \in {m \in DOMAIN api : m[1] = k}}
CountOf(k) == Cardinality(Claims(k))

(* handle_payload: while the API server answers, the daemon lives and captures
   are reported within the TTL of their crash, every recorded capture is counted
   in exactly one Event of its pod and reason, across repeats, expiry,
   re-creation and reports out of crash order.                               *)
EveryCaptureCounted ==
  ~Outages /\ MaxRestarts = 0 /\ post = NoPost =>
    \A k \in Keys : CountOf(k) + gone[k] = handled[k]

(* Aggregator: no Event ever claims more crashes than were recorded for its pod
   and reason, whatever requests fail, arrive late or hit an Event left by an
   earlier daemon.                                                           *)
NoOvercount == \A n \in DOMAIN api : api[n].count <= handled[n[1]]

(* run_listener: a failing API server, an unusable payload or a full aggregator
   never wedges the loop; every buffered report is dealt with.               *)
QueueDrains == []<>(queue = <<>> /\ post = NoPost)

(* AGGREGATION_SWEEP_INTERVAL: "Quiet daemons must not hold stale entries
   forever."                                                                 *)
StaleDropped ==
  \A k \in Keys :
    (k \in DOMAIN entries /\ clock - entries[k].created >= TTL)
      ~> (k \notin DOMAIN entries \/ clock - entries[k].created < TTL)
=============================================================================
