--------------------------- MODULE ListenerProofs ---------------------------
(***************************************************************************)
(* Proofs about module EventListener, for any reports, TTLs, key caps and  *)
(* queues: what the Events of the API server say of the captures.          *)
(***************************************************************************)
EXTENDS EventListener, FiniteSetTheorems, TLAPS

Entry   == [ts : Int, count : Nat, created : Int]
Payload == [report : Reports, ts : Int]

Types ==
  /\ clock \in Nat
  /\ queue \in Seq(Payload)
  /\ DOMAIN entries \subseteq Keys /\ \A k \in DOMAIN entries : entries[k] \in Entry
  /\ handled \in [Keys -> Nat]

(* Aggregator::prune keeps the entries it keeps as they are.                 *)
LEMMA PruneKeeps ==
  ASSUME NEW e, NEW now
  PROVE  /\ DOMAIN Pruned(e, now) \subseteq DOMAIN e
         /\ DOMAIN Pruned(e, now) = {k \in DOMAIN e : now - e[k].created < TTL}
         /\ \A k \in DOMAIN Pruned(e, now) : Pruned(e, now)[k] = e[k]
BY DEF Pruned, Restrict

(* The report at the head of the queue is of a pod and reason the aggregator
   can have.                                                                 *)
LEMMA HeadHasKey ==
  ASSUME Types, queue # <<>>, Postable(Head(queue).report)
  PROVE  AggKey(Head(queue).report) \in Keys /\ Head(queue).ts \in Int
<1>1. Head(queue) \in Payload
  BY DEF Types
<1> QED
  BY <1>1 DEF Keys, Payload

\* What Record does to the aggregator: a known key, a new one, or none for lack
\* of room; the entries that outlived the TTL are gone first.
LiveKeys == {k \in DOMAIN entries : clock - entries[k].created < TTL}
Sets(k, y) ==
  /\ DOMAIN entries' = LiveKeys \cup {k} /\ entries'[k] = y
  /\ \A j \in LiveKeys \ {k} : entries'[j] = entries[j]
Bumps(k) ==
  /\ k \in LiveKeys
  /\ Sets(k, [ts |-> entries[k].ts, count |-> entries[k].count + 1, created |-> entries[k].created])
  /\ post' = [new |-> FALSE, name |-> <<k, entries[k].ts>>, count |-> entries[k].count + 1]
  /\ handled' = [handled EXCEPT ![k] = @ + 1]
Starts(k, ts) ==
  /\ k \notin LiveKeys
  /\ Sets(k, [ts |-> ts, count |-> 1, created |-> clock])
  /\ post' = [new |-> TRUE, name |-> <<k, ts>>, count |-> 1]
  /\ handled' = [handled EXCEPT ![k] = @ + 1]
Drops ==
  /\ DOMAIN entries' = LiveKeys /\ \A j \in LiveKeys : entries'[j] = entries[j]
  /\ UNCHANGED <<post, handled>>

(* Aggregator::record does one of the three.                                 *)
LEMMA RecordIs ==
  ASSUME Types, NEW k \in Keys, NEW ts \in Int, Record(k, ts)
  PROVE  Bumps(k) \/ Starts(k, ts) \/ Drops
<1> DEFINE e == Pruned(entries, clock)
           bumped == [e[k] EXCEPT !.count = @ + 1]
           fresh  == [ts |-> ts, count |-> 1, created |-> clock]
<1>0. DOMAIN e = LiveKeys /\ \A j \in DOMAIN e : e[j] = entries[j]
  BY PruneKeeps, Zenon DEF LiveKeys
<1>1. \/ /\ k \in DOMAIN e
         /\ entries' = With(e, k, bumped)
         /\ post' = [new |-> FALSE, name |-> <<k, e[k].ts>>, count |-> bumped.count]
         /\ handled' = [handled EXCEPT ![k] = @ + 1]
      \/ /\ k \notin DOMAIN e
         /\ entries' = With(e, k, fresh)
         /\ post' = [new |-> TRUE, name |-> <<k, ts>>, count |-> 1]
         /\ handled' = [handled EXCEPT ![k] = @ + 1]
      \/ entries' = e /\ UNCHANGED <<post, handled>>
  BY DEF Record
<1>2. ASSUME NEW y, entries' = With(e, k, y) PROVE Sets(k, y)
  <2> HIDE DEF e
  <2>1. /\ DOMAIN entries' = DOMAIN e \cup {k} /\ entries'[k] = y
        /\ \A j \in DOMAIN e \ {k} : entries'[j] = e[j]
    BY <1>2 DEF With
  <2> QED
    BY <1>0, <2>1 DEF Sets
<1>3. ASSUME k \in DOMAIN e
      PROVE  bumped = [ts |-> entries[k].ts, count |-> entries[k].count + 1, created |-> entries[k].created]
  <2> HIDE DEF e
  <2>1. e[k] = entries[k] /\ entries[k] \in Entry
    BY <1>0, <1>3 DEF LiveKeys, Types
  <2> QED
    BY <2>1 DEF Entry
<1>4. ASSUME k \in DOMAIN e
      PROVE  bumped.count = entries[k].count + 1 /\ e[k].ts = entries[k].ts
  <2> HIDE DEF e
  <2>1. e[k] = entries[k] /\ entries[k] \in Entry
    BY <1>0, <1>4 DEF LiveKeys, Types
  <2> QED
    BY <2>1 DEF Entry
<1> HIDE DEF e, bumped, fresh
<1>5. CASE /\ k \in DOMAIN e
           /\ entries' = With(e, k, bumped)
           /\ post' = [new |-> FALSE, name |-> <<k, e[k].ts>>, count |-> bumped.count]
           /\ handled' = [handled EXCEPT ![k] = @ + 1]
  <2>1. Sets(k, bumped)
    BY <1>2, <1>5
  <2> QED
    BY <1>0, <1>3, <1>4, <1>5, <2>1, Zenon DEF Bumps
<1>6. CASE /\ k \notin DOMAIN e
           /\ entries' = With(e, k, fresh)
           /\ post' = [new |-> TRUE, name |-> <<k, ts>>, count |-> 1]
           /\ handled' = [handled EXCEPT ![k] = @ + 1]
  <2>1. Sets(k, fresh)
    BY <1>2, <1>6
  <2> QED
    BY <1>0, <1>6, <2>1 DEF Starts, fresh
<1>7. CASE entries' = e /\ UNCHANGED <<post, handled>>
  BY <1>0, <1>7 DEF Drops
<1> QED
  BY <1>1, <1>5, <1>6, <1>7

(* Every step keeps the types.                                               *)
LEMMA TypesStep ==
  ASSUME Types, [Next]_vars
  PROVE  Types'
<1>1. ASSUME DOMAIN entries' \subseteq DOMAIN entries, \A k \in DOMAIN entries' : entries'[k] = entries[k],
             clock' = clock \/ clock' = clock + 1, handled' = handled, queue' \in Seq(Payload)
      PROVE  Types'
  BY <1>1 DEF Types
<1>2. CASE UNCHANGED vars \/ Tick \/ Ignore \/ PostDone
  BY <1>1, <1>2 DEF vars, Tick, Ignore, PostDone, Types
<1>3. CASE Restart
  BY <1>1, <1>3 DEF Restart, Empty, Types
<1>4. CASE Sweep
  <2>1. DOMAIN entries' \subseteq DOMAIN entries /\ \A k \in DOMAIN entries' : entries'[k] = entries[k]
    BY <1>4, PruneKeeps, Zenon DEF Sweep
  <2> QED
    BY <1>1, <1>4, <2>1 DEF Sweep, Types
<1>5. ASSUME NEW r \in Reports, NEW ts \in clock - MaxLag..clock, Send(r, ts) PROVE Types'
  <2>1. [report |-> r, ts |-> ts] \in Payload
    BY ListenerAssumption DEF Payload, ListenerAssumption, Types
  <2>2. queue' \in Seq(Payload)
    BY <1>5, <2>1 DEF Send, Types
  <2> QED
    BY <1>1, <1>5, <2>2 DEF Send
<1>6. ASSUME NEW r \in late, Deliver(r) PROVE Types'
  BY <1>1, <1>6 DEF Deliver, Types
<1>7. ASSUME NEW n \in DOMAIN api, Expire(n) PROVE Types'
  BY <1>1, <1>7 DEF Expire, Types
<1>8. CASE Receive
  <2> DEFINE k == AggKey(Head(queue).report)
             ts == Head(queue).ts
             e == Pruned(entries, clock)
  <2>1. k \in Keys /\ ts \in Int
    BY <1>8, HeadHasKey DEF Receive
  <2>2. Bumps(k) \/ Starts(k, ts) \/ Drops
    BY <1>8, <2>1, RecordIs DEF Receive
  <2>4. clock' = clock /\ queue' \in Seq(Payload)
    BY <1>8 DEF Receive, Types
  <2> HIDE DEF k, ts
  <2>5. CASE Drops
    BY <1>1, <2>4, <2>5 DEF Drops, LiveKeys
  <2>6. ASSUME NEW y \in Entry, Sets(k, y), handled' = [handled EXCEPT ![k] = @ + 1]
        PROVE  Types'
    BY <2>1, <2>4, <2>6 DEF Types, Sets, LiveKeys
  <2>7. CASE Bumps(k)
    <3>1. [ts |-> entries[k].ts, count |-> entries[k].count + 1, created |-> entries[k].created] \in Entry
      BY <2>7 DEF Bumps, LiveKeys, Types, Entry
    <3> QED
      BY <2>6, <2>7, <3>1 DEF Bumps
  <2>8. CASE Starts(k, ts)
    <3>1. [ts |-> ts, count |-> 1, created |-> clock] \in Entry
      BY <2>1 DEF Entry, Types
    <3> QED
      BY <2>6, <2>8, <3>1 DEF Starts
  <2> QED
    BY <2>2, <2>5, <2>7, <2>8
<1> QED
  BY <1>2, <1>3, <1>4, <1>5, <1>6, <1>7, <1>8 DEF Next

\* What carrying out r does to the API server's Events.
Writes(r) ==
  /\ DOMAIN api' = DOMAIN api \cup {r.name}
  /\ api'[r.name] = [count |-> r.count, until |-> clock + EventTTL]
  /\ \A n \in DOMAIN api \ {r.name} : api'[n] = api[n]

(* create_event and patch_event_series: 409, 404, or the Event is written.   *)
LEMMA AppliedIs ==
  ASSUME NEW r, api' = Applied(r)
  PROVE  \/ (r.new <=> r.name \in DOMAIN api) /\ api' = api
         \/ ~(r.new <=> r.name \in DOMAIN api) /\ Writes(r)
<1>1. CASE r.new <=> r.name \in DOMAIN api
  BY <1>1 DEF Applied
<1>2. CASE ~(r.new <=> r.name \in DOMAIN api)
  <2>1. api' = With(api, r.name, [count |-> r.count, until |-> clock + EventTTL])
    BY <1>2 DEF Applied
  <2>2. Writes(r)
    BY <2>1 DEF With, Writes
  <2> QED
    BY <1>2, <2>2
<1> QED
  BY <1>1, <1>2

----------------------------------------------------------------------------
\* A request, and an Event, that claim no more than was recorded.
Honest(k, n) == k \in Keys /\ n \in Nat /\ n <= handled[k]
Claimed ==
  /\ \A k \in DOMAIN entries : Honest(k, entries[k].count)
  /\ post # NoPost => Honest(post.name[1], post.count)
  /\ \A r \in late : Honest(r.name[1], r.count)
  /\ \A n \in DOMAIN api : Honest(n[1], api[n].count)

(* What an honest count says stays honest: handled only grows.               *)
LEMMA HonestStays ==
  ASSUME Types, [Next]_vars
  PROVE  \A k, n : Honest(k, n) => Honest(k, n)'
<1>1. CASE handled' = handled
  BY <1>1 DEF Honest
<1>2. CASE Receive
  <2> DEFINE k == AggKey(Head(queue).report)
             ts == Head(queue).ts
  <2>1. k \in Keys /\ ts \in Int
    BY <1>2, HeadHasKey DEF Receive
  <2>2. Bumps(k) \/ Starts(k, ts) \/ Drops
    BY <1>2, <2>1, RecordIs DEF Receive
  <2> HIDE DEF k, ts
  <2>3. handled' = handled \/ handled' = [handled EXCEPT ![k] = @ + 1]
    BY <2>2 DEF Bumps, Starts, Drops
  <2> QED
    BY <1>1, <2>3 DEF Honest, Types
<1> QED
  BY <1>1, <1>2, Zenon DEF Next, vars, Tick, Ignore, Sweep, PostDone, Restart, Send, Deliver, Expire

(* Every step keeps the claims honest.                                       *)
LEMMA ClaimedStep ==
  ASSUME Types, Types', Claimed, [Next]_vars
  PROVE  Claimed'
<1> USE DEF Claimed
<1>0. \A k, n : Honest(k, n) => Honest(k, n)'
  BY HonestStays
<1>1. CASE UNCHANGED vars \/ Tick \/ Ignore
  BY <1>0, <1>1 DEF vars, Tick, Ignore
<1>2. CASE Restart
  BY <1>0, <1>2 DEF Restart, Empty
<1>3. CASE Sweep
  <2>1. DOMAIN entries' \subseteq DOMAIN entries /\ \A k \in DOMAIN entries' : entries'[k] = entries[k]
    BY <1>3, PruneKeeps, Zenon DEF Sweep
  <2> QED
    BY <1>0, <1>3, <2>1 DEF Sweep
<1>4. ASSUME NEW r \in Reports, NEW ts \in clock - MaxLag..clock, Send(r, ts) PROVE Claimed'
  BY <1>0, <1>4 DEF Send
<1>5. ASSUME NEW r, Honest(r.name[1], r.count), api' = Applied(r)
      PROVE  \A n \in DOMAIN api' : Honest(n[1], api'[n].count)
  <2>1. CASE api' = api
    BY <2>1
  <2>2. CASE Writes(r)
    BY <1>5, <2>2 DEF Writes
  <2> QED
    BY <1>5, <2>1, <2>2, AppliedIs
<1>6. ASSUME NEW r \in late, Deliver(r) PROVE Claimed'
  <2>1. \A n \in DOMAIN api' : Honest(n[1], api'[n].count)
    BY <1>5, <1>6 DEF Deliver
  <2> QED
    BY <1>0, <1>6, <2>1 DEF Deliver
<1>7. CASE PostDone
  <2>1. \A n \in DOMAIN api' : Honest(n[1], api'[n].count)
    BY <1>5, <1>7 DEF PostDone, Attempt
  <2>2. late' \subseteq late \cup {post}
    BY <1>7 DEF PostDone, Attempt
  <2> QED
    BY <1>0, <1>7, <2>1, <2>2 DEF PostDone
<1>8. ASSUME NEW m \in DOMAIN api, Expire(m) PROVE Claimed'
  <2>1. \A n \in DOMAIN api' : n \in DOMAIN api /\ api'[n] = api[n]
    BY <1>8 DEF Expire, Restrict
  <2> QED
    BY <1>0, <1>8, <2>1, Zenon DEF Expire
<1>9. CASE Receive
  <2>2. PICK k \in Keys, ts \in Int : Bumps(k) \/ Starts(k, ts) \/ Drops
    BY <1>9, HeadHasKey, RecordIs DEF Receive
  <2>3. (\A r \in late' : Honest(r.name[1], r.count)') /\ \A n \in DOMAIN api' : Honest(n[1], api[n].count)'
    BY <1>0, <1>9 DEF Receive
  <2>4. CASE Drops
    BY <1>0, <1>9, <2>3, <2>4 DEF Drops, Receive, LiveKeys
  <2>5. ASSUME NEW y, NEW isNew, Sets(k, y), y.count \in Nat, y.count <= handled'[k],
               post' = [new |-> isNew, name |-> <<k, y.ts>>, count |-> y.count]
        PROVE  Claimed'
    BY <1>0, <1>9, <2>3, <2>5 DEF Sets, Receive, LiveKeys, Honest
  <2>6. CASE Bumps(k)
    <3>1. entries[k].count + 1 \in Nat /\ entries[k].count + 1 <= handled'[k]
      BY <2>6 DEF Bumps, LiveKeys, Honest, Types
    <3> QED
      BY <2>5, <2>6, <3>1 DEF Bumps
  <2>7. CASE Starts(k, ts)
    <3>1. 1 <= handled'[k]
      BY <2>7 DEF Starts, Honest, Types
    <3> QED
      BY <2>5, <2>7, <3>1 DEF Starts
  <2> QED
    BY <2>2, <2>4, <2>6, <2>7
<1> QED
  BY <1>1, <1>2, <1>3, <1>4, <1>6, <1>7, <1>8, <1>9 DEF Next

(* Types and honest claims hold in every state.                              *)
LEMMA ClaimsHold == Spec => [](Types /\ Claimed)
<1>1. Init => Types /\ Claimed
  BY DEF Init, Types, Claimed, Empty
<1>2. Types /\ Claimed /\ [Next]_vars => (Types /\ Claimed)'
  BY TypesStep, ClaimedStep
<1> QED
  BY <1>1, <1>2, PTL DEF Spec

(* k8s_events.rs: whatever requests fail, arrive late or meet an Event of an
   earlier daemon, no Event claims more crashes than were recorded.          *)
THEOREM NeverOvercounts == Spec => []NoOvercount
<1>1. Types /\ Claimed => NoOvercount
  BY DEF Claimed, Honest, NoOvercount
<1> QED
  BY <1>1, ClaimsHold, PTL

----------------------------------------------------------------------------
\* The API server answers, the daemon lives, an Event outlasts its entry and
\* a report is younger than any stale entry.
Prompt == ~Outages /\ MaxRestarts = 0 /\ TTL <= EventTTL /\ MaxLag < TTL

\* The Event of k's entry is there, claims c crashes and outlives the entry.
Shown(k, c) ==
  LET n == <<k, entries[k].ts>>
  IN  n \in DOMAIN api /\ api[n].count = c /\ api[n].until >= entries[k].created + EventTTL

\* The request under way is of a live entry: it makes the Event, or adds one to it.
Posting(k) ==
  /\ post # NoPost /\ k \in LiveKeys
  /\ post.name = <<k, entries[k].ts>> /\ post.count = entries[k].count
  /\ \/ post.new = TRUE /\ post.count = 1 /\ post.name \notin DOMAIN api
     \/ post.new = FALSE /\ Shown(k, post.count - 1)

\* An Event is that of its key's entry, or older than any entry to come.
Current(n) == n[1] \in DOMAIN entries /\ entries[n[1]].ts = n[2]
Dated(n) ==
  /\ n \in Keys \X Int /\ api[n] \in [count : Nat, until : Int]
  /\ Current(n) \/ n[2] <= clock - TTL

InSync ==
  /\ late = {} /\ restarts = 0
  /\ \A i \in DOMAIN queue : clock - MaxLag <= queue[i].ts /\ queue[i].ts <= clock
  /\ \A k \in DOMAIN entries : entries[k].ts <= entries[k].created /\ entries[k].created <= clock
  /\ post # NoPost => \E k \in LiveKeys : Posting(k)
  /\ \A k \in LiveKeys : Posting(k) \/ Shown(k, entries[k].count)
  /\ \A n \in DOMAIN api : Dated(n)

\* The books of k: claimed, expired and about to be claimed add up.
Due(k) == IF post # NoPost /\ post.name[1] = k THEN 1 ELSE 0
Balanced ==
  /\ gone \in [Keys -> Nat]
  /\ \A k \in Keys : IsFiniteSet(Claims(k)) /\ CountOf(k) + gone[k] + Due(k) = handled[k]

(* Sweeping, or recording, leaves only live entries: an Event whose entry goes
   is older than the TTL.                                                    *)
LEMMA DatedStep ==
  ASSUME Types, InSync, clock' = clock, api' = api,
         LiveKeys \subseteq DOMAIN entries',
         \A j \in LiveKeys : entries'[j].ts = entries[j].ts
  PROVE  \A n \in DOMAIN api' : Dated(n)'
<1> SUFFICES ASSUME NEW n \in DOMAIN api PROVE Dated(n)'
  OBVIOUS
<1>1. Dated(n)
  BY DEF InSync
<1>2. CASE n[2] <= clock - TTL
  BY <1>1, <1>2 DEF Dated
<1>3. CASE Current(n) /\ n[1] \in LiveKeys
  BY <1>1, <1>3 DEF Dated, Current
<1>4. CASE Current(n) /\ n[1] \notin LiveKeys
  <2>1. n[1] \in DOMAIN entries /\ entries[n[1]].ts = n[2] /\ ~(clock - entries[n[1]].created < TTL)
    BY <1>4 DEF Current, LiveKeys
  <2>2. entries[n[1]] \in Entry /\ entries[n[1]].ts <= entries[n[1]].created
    BY <2>1 DEF InSync, Types
  <2>3. entries[n[1]].ts <= clock - TTL
    <3>1. entries[n[1]].ts \in Int /\ entries[n[1]].created \in Int /\ clock \in Int /\ TTL \in Int
      BY <2>2, ListenerAssumption DEF Types, Entry, ListenerAssumption
    <3> QED
      BY <2>1, <2>2, <3>1
  <2>4. n[2] <= clock - TTL
    BY <2>1, <2>3
  <2> QED
    BY <1>1, <2>4 DEF Dated
<1> QED
  BY <1>1, <1>2, <1>3, <1>4 DEF Dated

(* Time, and what happens around the aggregator, keeps it in step with the API
   server.                                                                   *)
LEMMA QuietInSync ==
  ASSUME Prompt, Types, InSync,
         UNCHANGED vars \/ Tick \/ Ignore \/ Sweep
           \/ \E r \in Reports, ts \in clock - MaxLag..clock : Send(r, ts)
  PROVE  InSync'
<1>1. ASSUME UNCHANGED <<clock, entries, post, late, api, restarts>>,
             \A i \in DOMAIN queue' : clock - MaxLag <= queue'[i].ts /\ queue'[i].ts <= clock
      PROVE  InSync'
  BY <1>1, Zenon DEF InSync, LiveKeys, Posting, Shown, Dated, Current
<1>2. CASE UNCHANGED vars
  BY <1>1, <1>2, Zenon DEF InSync, vars
<1>3. CASE Ignore
  <2>1. \A i \in DOMAIN queue' : i + 1 \in DOMAIN queue /\ queue'[i] = queue[i + 1]
    BY <1>3 DEF Ignore, Types
  <2> QED
    BY <1>1, <1>3, <2>1, Zenon DEF Ignore, InSync
<1>4. ASSUME NEW r \in Reports, NEW ts \in clock - MaxLag..clock, Send(r, ts) PROVE InSync'
  <2>1. \A i \in DOMAIN queue' : (i \in DOMAIN queue /\ queue'[i] = queue[i]) \/ queue'[i].ts = ts
    BY <1>4 DEF Send, Types
  <2>2. clock - MaxLag <= ts /\ ts <= clock
    BY ListenerAssumption DEF Types, ListenerAssumption
  <2> QED
    BY <1>1, <1>4, <2>1, <2>2 DEF Send, InSync
<1>5. CASE Tick
  <2>1. post = NoPost /\ queue = <<>> /\ clock' = clock + 1
        /\ UNCHANGED <<queue, entries, post, late, api, restarts>>
    BY <1>5 DEF Tick, Prompt
  <2>2. LiveKeys' \subseteq LiveKeys
    BY <2>1, ListenerAssumption DEF LiveKeys, Types, Entry, ListenerAssumption
  <2>3. \A k \in LiveKeys : Shown(k, entries[k].count)
    BY <2>1 DEF InSync, Posting
  <2>4. \A k \in LiveKeys' : Shown(k, entries[k].count)'
    BY <2>1, <2>2, <2>3 DEF Shown
  <2>5. \A n \in DOMAIN api' : Dated(n)'
    <3> SUFFICES ASSUME NEW n \in DOMAIN api PROVE Dated(n)'
      BY <2>1
    <3>1. Dated(n)
      BY DEF InSync
    <3>2. n[2] \in Int /\ clock \in Int /\ TTL \in Int
      BY <3>1, ListenerAssumption DEF Dated, Types, ListenerAssumption
    <3>3. n[2] <= clock - TTL => n[2] <= clock' - TTL
      BY <2>1, <3>2
    <3> QED
      BY <2>1, <3>1, <3>3 DEF Dated, Current
  <2>6. \A k \in DOMAIN entries' : entries'[k].ts <= entries'[k].created /\ entries'[k].created <= clock'
    BY <2>1 DEF InSync, Types, Entry
  <2> QED
    BY <2>1, <2>4, <2>5, <2>6 DEF InSync
<1>6. CASE Sweep
  <2>1. post = NoPost /\ UNCHANGED <<clock, queue, post, late, api, restarts>>
    BY <1>6 DEF Sweep
  <2>2. DOMAIN entries' = LiveKeys /\ \A k \in LiveKeys : entries'[k] = entries[k]
    BY <1>6, PruneKeeps, Zenon DEF Sweep, LiveKeys
  <2>3. \A n \in DOMAIN api' : Dated(n)'
    BY <2>1, <2>2, DatedStep
  <2>4. \A k \in LiveKeys' : Shown(k, entries[k].count)'
    BY <2>1, <2>2 DEF InSync, Posting, LiveKeys, Shown
  <2>5. \A k \in DOMAIN entries' : entries'[k].ts <= entries'[k].created /\ entries'[k].created <= clock'
    BY <2>1, <2>2 DEF InSync, LiveKeys
  <2> QED
    BY <2>1, <2>3, <2>4, <2>5 DEF InSync
<1> QED
  BY <1>2, <1>3, <1>4, <1>5, <1>6

(* While the API server answers, a request under way is never refused.       *)
LEMMA PostIs ==
  ASSUME Prompt, InSync, PostDone
  PROVE  \E k \in LiveKeys : Posting(k) /\ Writes(post)
<1>1. PICK k \in LiveKeys : Posting(k)
  BY DEF InSync, PostDone
<1>2. api' = Applied(post)
  BY DEF PostDone, Attempt, Prompt
<1>3. ~(post.new <=> post.name \in DOMAIN api)
  BY <1>1 DEF Posting, Shown
<1> QED
  BY <1>1, <1>2, <1>3, AppliedIs

(* Carrying out the request shows what the entry says.                       *)
LEMMA PostInSync ==
  ASSUME Prompt, Types, InSync, PostDone
  PROVE  InSync'
<1>1. PICK k \in LiveKeys : Posting(k) /\ Writes(post)
  BY PostIs
<1>2. post' = NoPost /\ late' = {} /\ UNCHANGED <<clock, queue, entries, restarts>>
  BY DEF PostDone, Attempt, Prompt, InSync
<1>3. LiveKeys' = LiveKeys
  BY <1>2 DEF LiveKeys
<1>4. entries[k] \in Entry /\ k \in Keys /\ entries[k].created <= clock
  BY DEF LiveKeys, Types, InSync
<1>5. post.name = <<k, entries[k].ts>> /\ post.count = entries[k].count
  BY <1>1 DEF Posting
<1>6. post.name \in DOMAIN api' /\ api'[post.name].count = post.count
      /\ api'[post.name].until = clock + EventTTL /\ api'[post.name] \in [count : Nat, until : Int]
  BY <1>1, <1>4, <1>5, ListenerAssumption DEF Writes, Types, Entry, ListenerAssumption
<1>7. \A j \in LiveKeys : Shown(j, entries[j].count)'
  <2>1. Shown(k, entries[k].count)'
    <3>1. clock + EventTTL >= entries[k].created + EventTTL
      BY <1>4, ListenerAssumption DEF Types, Entry, ListenerAssumption
    <3> QED
      BY <1>2, <1>5, <1>6, <3>1 DEF Shown
  <2>2. ASSUME NEW j \in LiveKeys, j # k PROVE Shown(j, entries[j].count)'
    <3>1. post.name # <<j, entries[j].ts>>
      BY <1>5, <2>2
    <3>2. Shown(j, entries[j].count)
      BY <3>1 DEF InSync, Posting
    <3> QED
      BY <1>1, <1>2, <3>1, <3>2 DEF Shown, Writes
  <2> QED
    BY <2>1, <2>2
<1>8. \A n \in DOMAIN api' : Dated(n)'
  <2>1. ASSUME NEW n \in DOMAIN api', n = post.name PROVE Dated(n)'
    <3>1. n \in Keys \X Int /\ n[1] = k /\ n[2] = entries[k].ts /\ k \in DOMAIN entries
      BY <1>4, <1>5, <2>1 DEF Entry, LiveKeys
    <3> QED
      BY <1>2, <1>6, <2>1, <3>1 DEF Dated, Current
  <2>2. ASSUME NEW n \in DOMAIN api', n # post.name PROVE Dated(n)'
    <3>1. n \in DOMAIN api /\ api'[n] = api[n]
      BY <1>1, <2>2 DEF Writes
    <3>2. Dated(n)
      BY <3>1 DEF InSync
    <3> QED
      BY <1>2, <3>1, <3>2 DEF Dated, Current
  <2> QED
    BY <2>1, <2>2
<1> QED
  BY <1>2, <1>3, <1>7, <1>8 DEF InSync

(* An Event expires only once its entry is stale.                            *)
LEMMA ExpireInSync ==
  ASSUME Prompt, Types, InSync, NEW m \in DOMAIN api, Expire(m)
  PROVE  InSync'
<1>1. /\ clock >= api[m].until
      /\ UNCHANGED <<clock, queue, entries, post, late, restarts>>
      /\ DOMAIN api' = DOMAIN api \ {m} /\ \A n \in DOMAIN api \ {m} : api'[n] = api[n]
  BY DEF Expire, Restrict
<1>2. LiveKeys' = LiveKeys
  BY <1>1 DEF LiveKeys
<1>3. ASSUME NEW k \in LiveKeys, NEW c, Shown(k, c) PROVE Shown(k, c)'
  <2>1. api[m].until \in Int /\ clock \in Int /\ TTL \in Int /\ EventTTL \in Int
        /\ entries[k].created \in Int /\ clock - entries[k].created < TTL
    BY ListenerAssumption DEF InSync, Dated, Types, ListenerAssumption, LiveKeys, Entry
  <2>2. <<k, entries[k].ts>> # m
    BY <1>1, <1>3, <2>1 DEF Shown, Prompt
  <2> QED
    BY <1>1, <1>3, <2>2 DEF Shown
<1>4. ASSUME NEW k \in LiveKeys, Posting(k) PROVE Posting(k)'
  <2>1. CASE post.new = TRUE /\ post.count = 1 /\ post.name \notin DOMAIN api
    BY <1>1, <1>2, <1>4, <2>1 DEF Posting
  <2>2. CASE post.new = FALSE /\ Shown(k, post.count - 1)
    <3>1. PICK c : c = post.count - 1
      OBVIOUS
    <3>2. Shown(k, c)'
      BY <1>3, <2>2, <3>1
    <3> QED
      BY <1>1, <1>2, <1>4, <2>2, <3>1, <3>2 DEF Posting
  <2> QED
    BY <1>4, <2>1, <2>2, Zenon DEF Posting
<1>5. ASSUME NEW k \in LiveKeys, Shown(k, entries[k].count) PROVE Shown(k, entries[k].count)'
  BY <1>1, <1>3, <1>5
<1>6. \A n \in DOMAIN api' : Dated(n)'
  BY <1>1 DEF InSync, Dated, Current
<1> QED
  BY <1>1, <1>2, <1>4, <1>5, <1>6 DEF InSync

(* What receiving a report does, with the report's date.                     *)
LEMMA ReceiveIs ==
  ASSUME Types, InSync, Receive
  PROVE  \E k \in Keys, ts \in Int :
           /\ clock - MaxLag <= ts /\ ts <= clock
           /\ Bumps(k) \/ Starts(k, ts) \/ Drops
<1>1. 1 \in DOMAIN queue /\ Head(queue) = queue[1]
  BY DEF Receive, Types
<1>2. clock - MaxLag <= Head(queue).ts /\ Head(queue).ts <= clock
  BY <1>1 DEF InSync
<1> QED
  BY <1>2, HeadHasKey, RecordIs DEF Receive

(* No Event has the name of one that a new entry is about to make.           *)
LEMMA FreshName ==
  ASSUME Prompt, Types, InSync, NEW k \in Keys, NEW ts \in Int,
         k \notin LiveKeys, clock - MaxLag <= ts
  PROVE  <<k, ts>> \notin DOMAIN api
<1> SUFFICES ASSUME <<k, ts>> \in DOMAIN api PROVE FALSE
  OBVIOUS
<1>1. Dated(<<k, ts>>)
  BY DEF InSync
<1>2. clock \in Int /\ MaxLag \in Int /\ TTL \in Int /\ MaxLag < TTL
  BY ListenerAssumption DEF Types, ListenerAssumption, Prompt
<1>3. CASE k \in DOMAIN entries /\ entries[k].ts = ts
  <2>1. entries[k] \in Entry /\ entries[k].ts <= entries[k].created /\ ~(clock - entries[k].created < TTL)
    BY <1>3 DEF Types, InSync, LiveKeys
  <2>2. entries[k].created \in Int
    BY <2>1 DEF Entry
  <2> QED
    BY <1>2, <1>3, <2>1, <2>2
<1>4. CASE ts <= clock - TTL
  BY <1>2, <1>4
<1> QED
  BY <1>1, <1>3, <1>4 DEF Dated, Current

(* Receiving a report starts the request its entry calls for.                *)
LEMMA ReceiveInSync ==
  ASSUME Prompt, Types, InSync, Receive
  PROVE  InSync'
<1>1. PICK k \in Keys, ts \in Int :
        /\ clock - MaxLag <= ts /\ ts <= clock
        /\ Bumps(k) \/ Starts(k, ts) \/ Drops
  BY ReceiveIs
<1>2. post = NoPost /\ UNCHANGED <<clock, late, api, restarts>> /\ late = {} /\ restarts = 0
  BY DEF Receive, InSync
<1>3. \A i \in DOMAIN queue' : clock - MaxLag <= queue'[i].ts /\ queue'[i].ts <= clock
  <2>1. \A i \in DOMAIN queue' : i + 1 \in DOMAIN queue /\ queue'[i] = queue[i + 1]
    BY DEF Receive, Types
  <2> QED
    BY <2>1 DEF InSync
<1>4. \A j \in LiveKeys : Shown(j, entries[j].count)
  BY <1>2 DEF InSync, Posting
<1>5. \A j \in LiveKeys : j \in DOMAIN entries /\ entries[j] \in Entry
                         /\ entries[j].ts <= entries[j].created /\ entries[j].created <= clock
  BY DEF LiveKeys, Types, InSync
<1>6. clock \in Nat /\ TTL \in Nat \ {0}
  BY ListenerAssumption DEF Types, ListenerAssumption
<1>7. ASSUME \A j \in LiveKeys : j \in DOMAIN entries' /\ entries'[j].ts = entries[j].ts
      PROVE  \A n \in DOMAIN api' : Dated(n)'
  BY <1>2, <1>7, DatedStep
<1>8. CASE Drops
  <2>1. DOMAIN entries' = LiveKeys /\ (\A j \in LiveKeys : entries'[j] = entries[j]) /\ post' = NoPost
    BY <1>2, <1>8 DEF Drops
  <2>2. LiveKeys' = LiveKeys
    BY <1>2, <2>1 DEF LiveKeys
  <2>3. \A j \in LiveKeys' : Shown(j, entries[j].count)'
    BY <1>2, <1>4, <2>1, <2>2 DEF Shown
  <2> QED
    BY <1>2, <1>3, <1>5, <1>7, <2>1, <2>3 DEF InSync
<1>9. ASSUME NEW y \in Entry, Sets(k, y), y.created <= clock, y.ts <= y.created, clock - y.created < TTL,
             k \in LiveKeys => y.ts = entries[k].ts,
             Posting(k)'
      PROVE  InSync'
  <2>1. DOMAIN entries' = LiveKeys \cup {k} /\ entries'[k] = y
        /\ \A j \in LiveKeys \ {k} : entries'[j] = entries[j]
    BY <1>9 DEF Sets
  <2>2. LiveKeys' = LiveKeys \cup {k}
    <3>1. \A j \in LiveKeys : clock - entries[j].created < TTL
      BY DEF LiveKeys
    <3> QED
      BY <1>2, <1>9, <2>1, <3>1 DEF LiveKeys
  <2>3. \A j \in LiveKeys' : Posting(j)' \/ Shown(j, entries[j].count)'
    <3> SUFFICES ASSUME NEW j \in LiveKeys \ {k} PROVE Shown(j, entries[j].count)'
      BY <1>9, <2>2
    <3> QED
      BY <1>2, <1>4, <2>1 DEF Shown
  <2>4. \A n \in DOMAIN api' : Dated(n)'
    BY <1>7, <1>9, <2>1
  <2>5. \A j \in DOMAIN entries' : entries'[j].ts <= entries'[j].created /\ entries'[j].created <= clock'
    BY <1>2, <1>5, <1>9, <2>1
  <2> QED
    BY <1>2, <1>3, <1>9, <2>2, <2>3, <2>4, <2>5, Zenon DEF InSync
<1>10. CASE Bumps(k)
  <2> DEFINE y == [ts |-> entries[k].ts, count |-> entries[k].count + 1, created |-> entries[k].created]
  <2>1. k \in LiveKeys /\ Sets(k, y) /\ entries[k] \in Entry
        /\ post' = [new |-> FALSE, name |-> <<k, entries[k].ts>>, count |-> entries[k].count + 1]
    BY <1>5, <1>10 DEF Bumps
  <2>2. y \in Entry /\ y.created <= clock /\ y.ts <= y.created /\ clock - y.created < TTL
        /\ y.ts = entries[k].ts /\ y.count = entries[k].count + 1 /\ y.created = entries[k].created
    BY <1>5, <2>1 DEF Entry, LiveKeys
  <2>3. post' \in [new : BOOLEAN, name : Keys \X Int, count : Nat]
    BY <2>1 DEF Entry
  <2> HIDE DEF y
  <2>4. entries'[k] = y /\ k \in DOMAIN entries'
    BY <2>1 DEF Sets
  <2>5. k \in LiveKeys'
    BY <1>2, <2>2, <2>4 DEF LiveKeys
  <2>6. post'.count - 1 = entries[k].count
    BY <2>1 DEF Entry
  <2>7. Shown(k, post.count - 1)'
    BY <1>2, <1>4, <2>1, <2>2, <2>4, <2>6 DEF Shown
  <2>8. post' # NoPost
    BY <2>3, PostAssumption DEF PostAssumption
  <2>9. post'.name = <<k, entries'[k].ts>> /\ post'.count = entries'[k].count /\ post'.new = FALSE
    BY <2>1, <2>2, <2>4
  <2>10. Posting(k)'
    BY <2>5, <2>7, <2>8, <2>9 DEF Posting
  <2> QED
    BY <1>9, <2>1, <2>2, <2>10
<1>11. CASE Starts(k, ts)
  <2> DEFINE y == [ts |-> ts, count |-> 1, created |-> clock]
  <2>1. k \notin LiveKeys /\ Sets(k, y) /\ post' = [new |-> TRUE, name |-> <<k, ts>>, count |-> 1]
    BY <1>11 DEF Starts
  <2>2. y \in Entry /\ y.created <= clock /\ y.ts <= y.created /\ clock - y.created < TTL
        /\ y.ts = ts /\ y.count = 1
    BY <1>1, <1>6 DEF Entry
  <2>3. post' \in [new : BOOLEAN, name : Keys \X Int, count : Nat]
    BY <2>1
  <2> HIDE DEF y
  <2>4. entries'[k] = y /\ k \in DOMAIN entries'
    BY <2>1 DEF Sets
  <2>5. k \in LiveKeys'
    BY <1>2, <2>2, <2>4 DEF LiveKeys
  <2>6. <<k, ts>> \notin DOMAIN api'
    BY <1>1, <1>2, <2>1, FreshName
  <2>7. post' # NoPost
    BY <2>3, PostAssumption DEF PostAssumption
  <2>8. post'.name = <<k, entries'[k].ts>> /\ post'.count = entries'[k].count
        /\ post'.new = TRUE /\ post'.count = 1 /\ post'.name = <<k, ts>>
    BY <2>1, <2>2, <2>4
  <2>9. Posting(k)'
    BY <2>5, <2>6, <2>7, <2>8 DEF Posting
  <2> QED
    BY <1>9, <2>1, <2>2, <2>9
<1> QED
  BY <1>1, <1>8, <1>10, <1>11

(* Every step keeps the aggregator and the API server in step.               *)
LEMMA InSyncStep ==
  ASSUME Prompt, Types, InSync, [Next]_vars
  PROVE  InSync'
<1>1. ~Restart
  BY DEF Restart, InSync, Prompt
<1>2. ASSUME NEW r \in late PROVE FALSE
  BY DEF InSync
<1>3. ASSUME NEW m \in DOMAIN api, Expire(m) PROVE InSync'
  BY <1>3, ExpireInSync
<1> QED
  BY <1>1, <1>2, <1>3, QuietInSync, PostInSync, ReceiveInSync DEF Next

----------------------------------------------------------------------------
(* A claim is an Event of the key and a number up to its count.              *)
LEMMA ClaimIs ==
  ASSUME NEW k, NEW x
  PROVE  x \in Claims(k) <=> \E n \in DOMAIN api : n[1] = k /\ \E i \in 1..api[n].count : x = <<n, i>>
BY DEF Claims

(* The same of the next state's claims.                                      *)
LEMMA NextClaimIs ==
  ASSUME NEW k, NEW x
  PROVE  x \in Claims(k)' <=> \E n \in DOMAIN api' : n[1] = k /\ \E i \in 1..api'[n].count : x = <<n, i>>
BY DEF Claims

(* Carrying out a request that makes an Event, or adds one to it, adds the one
   claim to its key and none to another.                                     *)
LEMMA ClaimAdded ==
  ASSUME Writes(post), post.count \in Nat \ {0},
         \A n \in DOMAIN api : api[n].count \in Nat,
         \/ post.count = 1 /\ post.name \notin DOMAIN api
         \/ post.name \in DOMAIN api /\ api[post.name].count = post.count - 1,
         NEW k
  PROVE  /\ post.name[1] # k => Claims(k)' = Claims(k)
         /\ post.name[1] = k => /\ Claims(k)' = Claims(k) \cup {<<post.name, post.count>>}
                                /\ <<post.name, post.count>> \notin Claims(k)
<1> DEFINE n0 == post.name
           c0 == post.count
<1>1. \A n, i : n \in DOMAIN api' /\ i \in 1..api'[n].count
                <=> (n \in DOMAIN api /\ i \in 1..api[n].count) \/ (n = n0 /\ i = c0)
  <2> SUFFICES ASSUME NEW n, NEW i
               PROVE  n \in DOMAIN api' /\ i \in 1..api'[n].count
                      <=> (n \in DOMAIN api /\ i \in 1..api[n].count) \/ (n = n0 /\ i = c0)
    OBVIOUS
  <2>1. CASE n # n0
    BY <2>1 DEF Writes
  <2>2. CASE n = n0
    <3>1. n \in DOMAIN api' /\ api'[n].count = c0
      BY <2>2 DEF Writes
    <3>2. CASE c0 = 1 /\ n0 \notin DOMAIN api
      BY <2>2, <3>1, <3>2
    <3>3. CASE n0 \in DOMAIN api /\ api[n0].count = c0 - 1
      BY <2>2, <3>1, <3>3
    <3> QED
      BY <3>2, <3>3
  <2> QED
    BY <2>1, <2>2
<1>2. ~(n0 \in DOMAIN api /\ c0 \in 1..api[n0].count)
  OBVIOUS
<1> HIDE DEF n0, c0
<1>3. \A x : x \in Claims(k)' <=> x \in Claims(k) \/ (n0[1] = k /\ x = <<n0, c0>>)
  BY <1>1, ClaimIs, NextClaimIs
<1>4. <<n0, c0>> \notin Claims(k)
  BY <1>2, ClaimIs
<1> QED
  BY <1>3, <1>4, Zenon DEF n0, c0

(* An Event that expires takes its own claims with it, as many as its count,
   and no other's.                                                           *)
LEMMA ClaimsExpire ==
  ASSUME NEW m \in DOMAIN api, Expire(m), api[m].count \in Nat, NEW k, IsFiniteSet(Claims(k))
  PROVE  /\ m[1] # k => Claims(k)' = Claims(k)
         /\ m[1] = k => /\ IsFiniteSet(Claims(k)')
                        /\ Cardinality(Claims(k)') = Cardinality(Claims(k)) - api[m].count
<1> DEFINE M == {m} \X (1..api[m].count)
<1>1. DOMAIN api' = DOMAIN api \ {m} /\ \A n \in DOMAIN api \ {m} : api'[n] = api[n]
  BY DEF Expire, Restrict
<1>2. \A x : x \in M <=> \E i \in 1..api[m].count : x = <<m, i>>
  OBVIOUS
<1>3. IsFiniteSet(M) /\ Cardinality(M) = api[m].count
  <2> DEFINE I == 1..api[m].count
             E == {m}
  <2>1. IsFiniteSet(I) /\ Cardinality(I) = api[m].count
    BY FS_Interval
  <2>2. IsFiniteSet(E) /\ Cardinality(E) = 1
    BY FS_Singleton, Zenon
  <2> HIDE DEF I, E
  <2>3. IsFiniteSet(E \X I) /\ Cardinality(E \X I) = Cardinality(E) * Cardinality(I)
    BY <2>1, <2>2, FS_Product, Zenon
  <2> QED
    BY <2>1, <2>2, <2>3 DEF I, E
<1> HIDE DEF M
<1>4. ASSUME m[1] # k PROVE Claims(k)' = Claims(k)
  <2>1. \A x : x \in Claims(k)' <=> x \in Claims(k)
    BY <1>1, <1>4, ClaimIs, NextClaimIs
  <2> QED
    BY <2>1, Zenon
<1>5. ASSUME m[1] = k PROVE Claims(k)' = Claims(k) \ M /\ Claims(k) \cap M = M
  <2>1. \A x : x \in Claims(k)' <=> x \in Claims(k) /\ x \notin M
    BY <1>1, <1>2, <1>5, ClaimIs, NextClaimIs
  <2>2. \A x \in M : x \in Claims(k)
    BY <1>2, <1>5, ClaimIs
  <2> QED
    BY <2>1, <2>2
<1>6. IsFiniteSet(Claims(k) \ M)
      /\ Cardinality(Claims(k) \ M) = Cardinality(Claims(k)) - Cardinality(Claims(k) \cap M)
  BY FS_Difference, Zenon
<1> QED
  BY <1>3, <1>4, <1>5, <1>6

(* Recording a capture puts its request under way.                           *)
LEMMA RecordPosts ==
  ASSUME Types, NEW k \in Keys, NEW ts \in Int, Bumps(k) \/ Starts(k, ts)
  PROVE  post' # NoPost /\ post'.name[1] = k /\ handled' = [handled EXCEPT ![k] = @ + 1]
<1>1. CASE Bumps(k)
  <2>1. entries[k] \in Entry
    BY <1>1 DEF Bumps, LiveKeys, Types
  <2>2. post' = [new |-> FALSE, name |-> <<k, entries[k].ts>>, count |-> entries[k].count + 1]
    BY <1>1, Zenon DEF Bumps
  <2>3. entries[k].ts \in Int /\ entries[k].count + 1 \in Nat
    BY <2>1 DEF Entry
  <2>4. post' \in [new : BOOLEAN, name : Keys \X Int, count : Nat]
    BY <2>2, <2>3
  <2>5. post' # NoPost
    BY <2>4, PostAssumption, Zenon DEF PostAssumption
  <2>6. post'.name[1] = k
    BY <2>2
  <2>7. handled' = [handled EXCEPT ![k] = @ + 1]
    BY <1>1, Zenon DEF Bumps
  <2> QED
    BY <2>5, <2>6, <2>7
<1>2. CASE Starts(k, ts)
  <2>1. post' \in [new : BOOLEAN, name : Keys \X Int, count : Nat]
    BY <1>2 DEF Starts
  <2> QED
    BY <1>2, <2>1, PostAssumption, Zenon DEF Starts, PostAssumption
<1> QED
  BY <1>1, <1>2

(* Every step keeps the books balanced.                                      *)
LEMMA BalancedStep ==
  ASSUME Prompt, Types, InSync, Balanced, [Next]_vars
  PROVE  Balanced'
<1>1. ASSUME UNCHANGED <<post, api, gone, handled>> PROVE Balanced'
  BY <1>1 DEF Balanced, CountOf, Claims, Due
<1>2. ~Restart
  BY DEF Restart, InSync, Prompt
<1>3. ASSUME NEW r \in late PROVE FALSE
  BY DEF InSync
<1>4. \A n \in DOMAIN api : api[n].count \in Nat /\ n[1] \in Keys
  BY DEF InSync, Dated
<1>5. \A k \in Keys : IsFiniteSet(Claims(k)) /\ Cardinality(Claims(k)) \in Nat
  BY FS_CardinalityType DEF Balanced
<1>6. CASE PostDone
  <2>1. PICK k \in LiveKeys : Posting(k) /\ Writes(post)
    BY <1>6, PostIs
  <2>2. post # NoPost /\ post' = NoPost /\ UNCHANGED <<gone, handled>>
    BY <1>6 DEF PostDone
  <2>3. post.name[1] = k /\ post.count \in Nat \ {0}
        /\ \/ post.count = 1 /\ post.name \notin DOMAIN api
           \/ post.name \in DOMAIN api /\ api[post.name].count = post.count - 1
    <3>1. post.name = <<k, entries[k].ts>> /\ post.count = entries[k].count /\ entries[k] \in Entry
      BY <2>1 DEF Posting, LiveKeys, Types
    <3>2. post.count \in Nat
      BY <3>1 DEF Entry
    <3> QED
      BY <1>4, <2>1, <3>1, <3>2 DEF Posting, Shown
  <2>4. ASSUME NEW j \in Keys PROVE IsFiniteSet(Claims(j))' /\ (CountOf(j) + gone[j] + Due(j) = handled[j])'
    <3> DEFINE x == <<post.name, post.count>>
    <3>1. /\ j # k => Claims(j)' = Claims(j)
          /\ j = k => Claims(j)' = Claims(j) \cup {x} /\ x \notin Claims(j)
      BY <1>4, <2>1, <2>3, ClaimAdded
    <3> HIDE DEF x
    <3>2. CASE j # k
      BY <2>2, <2>3, <3>1, <3>2 DEF Balanced, CountOf, Due
    <3>3. CASE j = k
      <4>1. IsFiniteSet(Claims(j)') /\ Cardinality(Claims(j)') = Cardinality(Claims(j)) + 1
        BY <1>5, <3>1, <3>3, FS_AddElement
      <4>2. Cardinality(Claims(j)) + gone[j] + 1 = handled[j]
        BY <2>2, <2>3, <3>3 DEF Balanced, CountOf, Due
      <4>3. gone[j] \in Nat
        BY DEF Balanced
      <4>4. Cardinality(Claims(j)') + gone'[j] + 0 = handled'[j]
        BY <1>5, <2>2, <4>1, <4>2, <4>3
      <4> QED
        BY <2>2, <4>1, <4>4 DEF CountOf, Due
    <3> QED
      BY <3>2, <3>3
  <2> QED
    BY <2>2, <2>4 DEF Balanced
<1>7. ASSUME NEW m \in DOMAIN api, Expire(m) PROVE Balanced'
  <2>1. UNCHANGED <<post, handled>> /\ gone' = [gone EXCEPT ![m[1]] = @ + api[m].count]
    BY <1>7 DEF Expire
  <2>2. gone' \in [Keys -> Nat]
    BY <1>4, <2>1 DEF Balanced
  <2>3. ASSUME NEW j \in Keys PROVE IsFiniteSet(Claims(j))' /\ (CountOf(j) + gone[j] + Due(j) = handled[j])'
    <3>1. /\ m[1] # j => Claims(j)' = Claims(j)
          /\ m[1] = j => /\ IsFiniteSet(Claims(j)')
                         /\ Cardinality(Claims(j)') = Cardinality(Claims(j)) - api[m].count
      BY <1>4, <1>5, <1>7, ClaimsExpire
    <3>2. gone[j] \in Nat /\ api[m].count \in Nat /\ Due(j) \in Nat /\ Due(j)' = Due(j)
      BY <1>4, <2>1 DEF Balanced, Due
    <3>3. Cardinality(Claims(j)) + gone[j] + Due(j) = handled[j]
      BY DEF Balanced, CountOf
    <3>4. CASE m[1] # j
      BY <2>1, <3>1, <3>2, <3>3, <3>4 DEF Balanced, CountOf
    <3>5. CASE m[1] = j
      <4>1. gone'[j] = gone[j] + api[m].count
        BY <2>1, <3>5 DEF Balanced
      <4>2. Cardinality(Claims(j)') + gone'[j] + Due(j)' = handled'[j]
        BY <1>5, <2>1, <3>1, <3>2, <3>3, <3>5, <4>1
      <4> QED
        BY <3>1, <3>5, <4>2 DEF CountOf
    <3> QED
      BY <3>4, <3>5
  <2> QED
    BY <2>2, <2>3 DEF Balanced
<1>8. CASE Receive
  <2>1. PICK k \in Keys, ts \in Int : Bumps(k) \/ Starts(k, ts) \/ Drops
    BY <1>8, ReceiveIs
  <2>2. post = NoPost /\ UNCHANGED <<api, gone>>
    BY <1>8 DEF Receive
  <2>3. CASE Drops
    BY <1>1, <2>2, <2>3 DEF Drops
  <2>4. CASE Bumps(k) \/ Starts(k, ts)
    <3>1. post' # NoPost /\ post'.name[1] = k /\ handled' = [handled EXCEPT ![k] = @ + 1]
      BY <2>4, RecordPosts
    <3>2. ASSUME NEW j \in Keys PROVE IsFiniteSet(Claims(j))' /\ (CountOf(j) + gone[j] + Due(j) = handled[j])'
      <4>1. Claims(j)' = Claims(j)
        BY <2>2 DEF Claims
      <4>2. Cardinality(Claims(j)) + gone[j] + 0 = handled[j] /\ gone[j] \in Nat /\ handled[j] \in Nat
        BY <2>2 DEF Balanced, CountOf, Due, Types
      <4>3. handled'[j] = handled[j] + Due(j)' /\ Due(j)' \in Nat
        BY <3>1 DEF Types, Due
      <4>4. Cardinality(Claims(j)') + gone'[j] + Due(j)' = handled'[j]
        BY <1>5, <2>2, <4>1, <4>2, <4>3
      <4> QED
        BY <1>5, <4>1, <4>4 DEF CountOf
    <3> QED
      BY <2>2, <3>2 DEF Balanced
  <2> QED
    BY <2>1, <2>3, <2>4
<1>9. CASE UNCHANGED vars \/ Tick \/ Ignore \/ Sweep
           \/ \E r \in Reports, ts \in clock - MaxLag..clock : Send(r, ts)
  BY <1>1, <1>9, Zenon DEF vars, Tick, Ignore, Sweep, Send
<1> QED
  BY <1>2, <1>3, <1>6, <1>7, <1>8, <1>9 DEF Next

\* The inductive invariant behind the count of every capture.
Accounted == Types /\ (Prompt => InSync /\ Balanced)

(* The inductive invariant holds at start.                                   *)
LEMMA AccountedInit == Init => Accounted
<1> SUFFICES ASSUME Init PROVE Accounted
  OBVIOUS
<1>1. Types
  BY DEF Init, Types, Empty
<1>2. InSync
  BY DEF Init, InSync, Empty, LiveKeys
<1>3. ASSUME NEW k \in Keys PROVE IsFiniteSet(Claims(k)) /\ CountOf(k) + gone[k] + Due(k) = handled[k]
  <2>1. Claims(k) = {}
    BY DEF Init, Empty, Claims
  <2>2. CountOf(k) = 0 /\ IsFiniteSet(Claims(k))
    BY <2>1, FS_EmptySet DEF CountOf
  <2> QED
    BY <2>2 DEF Init, Due
<1>4. Balanced
  BY <1>3 DEF Init, Balanced
<1> QED
  BY <1>1, <1>2, <1>4 DEF Accounted

(* handle_payload: while the API server answers and the daemon lives, with an
   Event TTL no shorter than the aggregation TTL and reports younger than it,
   every capture the aggregator takes in is counted in exactly one Event.    *)
THEOREM CapturesAreCounted ==
  Spec => [](TTL <= EventTTL /\ MaxLag < TTL => EveryCaptureCounted)
<1>1. Accounted /\ [Next]_vars => Accounted'
  BY TypesStep, InSyncStep, BalancedStep DEF Accounted, Prompt
<1>2. Accounted => (TTL <= EventTTL /\ MaxLag < TTL => EveryCaptureCounted)
  <2> SUFFICES ASSUME Prompt, Balanced, Types, post = NoPost, NEW k \in Keys
               PROVE  CountOf(k) + gone[k] = handled[k]
    BY DEF Accounted, Prompt, EveryCaptureCounted
  <2>1. CountOf(k) + gone[k] + 0 = handled[k] /\ gone[k] \in Nat /\ CountOf(k) \in Nat
    BY FS_CardinalityType DEF Balanced, Due, CountOf
  <2> QED
    BY <2>1
<1> QED
  BY <1>1, <1>2, AccountedInit, PTL DEF Spec
=============================================================================
