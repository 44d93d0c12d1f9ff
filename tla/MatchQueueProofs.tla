-------------------------- MODULE MatchQueueProofs --------------------------
(***************************************************************************)
(* The theorems about the Match service, for any number of players,        *)
(* request threads, matches and restarts: a player is in one place, a      *)
(* match is kept, the snapshot in Redis is current, and the service        *)
(* implements Matchmaker.                                                  *)
(***************************************************************************)
EXTENDS MatchQueue, FiniteSetTheorems, SequenceTheorems, TLAPS

-----------------------------------------------------------------------------
(* The invariant: entries, queue and the groups under way.                 *)

EntryType ==
    [state : {"queued", "matched", "timeout"}, queuedAt : Int, stamp : Int,
     match : Nat, room : Nat, group : Seq(Player),
     allocating : BOOLEAN, cancelRequested : BOOLEAN]

GroupType == [match : Nat, players : Seq(Player)]

Pcs == {"idle", "insert", "pair", "allocate", "commit", "dirty", "status", "retry"}
Mains == {"serving", "draining", "final", "down"}

IsPair(players) ==
    /\ players \in Seq(Player) /\ Len(players) = kPlayersPerMatch
    /\ players[1] # players[2]

EntriesOK(es) ==
    /\ es \in [DOMAIN es -> EntryType]
    /\ DOMAIN es \subseteq Player /\ IsFiniteSet(DOMAIN es)

TypeInv ==
    /\ now \in Nat /\ EntriesOK(entries)
    /\ retry_pairing \in BOOLEAN /\ dirty \in BOOLEAN /\ unsaved \in BOOLEAN
    /\ allocation_queue = <<>>
    /\ matches \in 0..MaxMatches
    /\ main \in Mains

\* What a request thread carries from one lock section to the next.
CallOK(c) ==
    /\ c.pc \in Pcs
    /\ c.pc # "idle" => c.at \in Int /\ c.at <= now
    /\ c.pc = "insert" => c.player \in Player
    /\ c.pc \in {"pair", "retry"} => c.changed \in BOOLEAN
    /\ c.pc \in {"allocate", "commit"} =>
          c.groups \in Seq(GroupType) /\ c.groups # <<>>
    /\ c.pc = "commit" =>
          \/ c.room = NoRoom
          \/ c.room = c.groups[1].match /\ c.room \in DOMAIN created

CallInv == DOMAIN call = Thread /\ \A r \in Thread : CallOK(call[r])

\* The players of a match all have its result, until all lose it.
MatchOK(p) ==
    LET e == entries[p]
    IN  /\ e.room \in DOMAIN created /\ created[e.room] = e.group
        /\ p \in Range(e.group)
        /\ \A q \in Range(e.group) :
             /\ q \in DOMAIN entries /\ entries[q].state = "matched"
             /\ entries[q].room = e.room /\ entries[q].match = e.match
             /\ entries[q].group = e.group /\ entries[q].stamp = e.stamp

EntryInv ==
    \A p \in DOMAIN entries :
        /\ entries[p].match <= matches
        /\ entries[p].allocating => entries[p].state = "queued"
        /\ entries[p].cancelRequested => entries[p].allocating
        /\ entries[p].state = "matched" => MatchOK(p)

\* The queue has who is queued and not being allocated, once.
Queued(es, p) == p \in DOMAIN es /\ es[p].state = "queued" /\ ~es[p].allocating

QueueOK(es, q) ==
    /\ q \in Seq(Player) /\ IsInjective(q)
    /\ \A p \in Player : p \in Range(q) <=> Queued(es, p)

QueueInv == QueueOK(entries, queue)

\* The groups that thread r has still to see to.
Holding == {"allocate", "commit"}
Hand(r) == IF call[r].pc \in Holding THEN call[r].groups ELSE <<>>

\* Its players wait for this room, which only this thread asks Room for.
GroupOK(r, k) ==
    LET g == Hand(r)[k]
    IN  /\ g.match \in 1..matches /\ IsPair(g.players)
        /\ \A p \in Range(g.players) :
             /\ p \in DOMAIN entries /\ entries[p].allocating
             /\ entries[p].match = g.match
        /\ g.match \in DOMAIN created =>
             k = 1 /\ call[r].pc = "commit" /\ created[g.match] = g.players

HandInv ==
    /\ \A r \in Thread : \A k \in DOMAIN Hand(r) : GroupOK(r, k)
    /\ \A p \in DOMAIN entries : entries[p].allocating =>
         \E r \in Thread : \E k \in DOMAIN Hand(r) :
             p \in Range(Hand(r)[k].players)
    /\ \A r, s \in Thread : \A k \in DOMAIN Hand(r), l \in DOMAIN Hand(s) :
         Hand(r)[k].match = Hand(s)[l].match => r = s /\ k = l

RoomInv ==
    \A m \in DOMAIN created : m \in 1..matches /\ IsPair(created[m])

-----------------------------------------------------------------------------
(* The invariant: snapshots.                                               *)

LineType == [player : Player, queuedAt : Int]
RecordType == [match : Nat, room : Nat, group : Seq(Player), stamp : Int]

\* The players a snapshot names.
Covered(s) ==
    {s.queued[i].player : i \in DOMAIN s.queued}
    \cup UNION {Range(m.group) : m \in s.matched}

\* A snapshot that Restore can read without dropping duplicates: nobody is in
\* it twice, and its matches have rooms.
SnapshotOK(s) ==
    /\ s.queued \in Seq(LineType) /\ s.matched \subseteq RecordType
    /\ IsFiniteSet(Covered(s))
    /\ \A i, j \in DOMAIN s.queued :
         s.queued[i].player = s.queued[j].player => i = j
    /\ \A m \in s.matched :
         /\ m.match <= matches
         /\ m.room \in DOMAIN created /\ created[m.room] = m.group
         /\ \A i \in DOMAIN s.queued : s.queued[i].player \notin Range(m.group)
    /\ \A m, n \in s.matched : Range(m.group) \cap Range(n.group) # {} => m = n

SnapshotInv ==
    /\ SnapshotOK(stored)
    /\ \A s \in flush : SnapshotOK(s)
    /\ \A s \in late : SnapshotOK(s)
    /\ flush = {} \/ \E s \in flush : flush = {s}

DownInv ==
    ~Up => /\ entries = <<>> /\ queue = <<>> /\ flush = {} /\ ~dirty
           /\ \A r \in Thread : call[r] = Idle

\* What a snapshot taken now would hold.
Lines ==
    {[player |-> p, queuedAt |-> entries[p].queuedAt] :
        p \in {x \in DOMAIN entries :
                 entries[x].state = "queued" /\ ~entries[x].cancelRequested}}

Records ==
    {[match |-> entries[p].match, room |-> entries[p].room,
      group |-> entries[p].group, stamp |-> entries[p].stamp] :
        p \in {x \in DOMAIN entries : entries[x].state = "matched"}}

Fresh(lines) == {e \in lines : now - e.queuedAt < match_timeout_ms}
Kept(records) == {m \in records : now - m.stamp < result_ttl_ms}

\* Snapshot s holds what is worth restoring.
Reflects(s) ==
    /\ Fresh(Range(s.queued)) = Fresh(Lines)
    /\ Kept(s.matched) = Kept(Records)

\* A change that thread r has made, or is about to make, and not marked yet.
Unmarked(c) ==
    \/ c.pc \in {"allocate", "commit", "dirty"}
    \/ c.pc \in {"pair", "retry"} /\ c.changed

\* If no change is waiting to be saved, the latest snapshot is current.
CurrentInv ==
    (HasStore /\ Up /\ ~dirty /\ \A r \in Thread : ~Unmarked(call[r])) =>
        IF flush = {} THEN unsaved \/ Reflects(stored)
        ELSE \A s \in flush : Reflects(s)

Inv ==
    /\ TypeInv /\ CallInv /\ EntryInv /\ QueueInv /\ HandInv /\ RoomInv
    /\ SnapshotInv /\ DownInv /\ CurrentInv

-----------------------------------------------------------------------------
(* Sequences.                                                              *)

\* An index has a rank of its own among finitely many.
LEMMA Ranks ==
    ASSUME NEW n \in Nat, NEW which \in SUBSET (1..n), NEW key \in [1..n -> Int],
           NEW rank, rank = [i \in which |-> Cardinality(Upto(which, key, i))]
    PROVE  /\ IsFiniteSet(which) /\ Cardinality(which) \in Nat
           /\ rank \in Injection(which, 1..Cardinality(which))
           /\ rank \in Surjection(which, 1..Cardinality(which))
<1> DEFINE U(i) == Upto(which, key, i)
           N == Cardinality(which)
<1>1. IsFiniteSet(which) /\ N \in Nat
  <2>1. IsFiniteSet(1..n)
    BY FS_Interval
  <2>2. IsFiniteSet(which)
    BY <2>1, FS_Subset
  <2> QED BY <2>2, FS_CardinalityType
<1>2. \A i \in which : i \in Int /\ key[i] \in Int
  OBVIOUS
<1>3. ASSUME NEW i \in which
      PROVE  /\ IsFiniteSet(U(i)) /\ Cardinality(U(i)) \in 1..N
             /\ i \in U(i) /\ U(i) \in SUBSET which
  <2>1. U(i) \in SUBSET which /\ i \in U(i)
    BY <1>2 DEF Upto
  <2> HIDE DEF U
  <2>2. IsFiniteSet(U(i)) /\ Cardinality(U(i)) <= N
    BY <1>1, <2>1, FS_Subset
  <2>3. Cardinality(U(i)) \in Nat /\ Cardinality(U(i)) # 0
    BY <2>1, <2>2, FS_CardinalityType, FS_EmptySet
  <2> QED BY <1>1, <2>1, <2>2, <2>3
<1>4. ASSUME NEW i \in which, NEW j \in which, i # j,
             Cardinality(U(i)) = Cardinality(U(j))
      PROVE  FALSE
  <2>1. \A x \in which : /\ x \in U(i) <=> key[x] < key[i] \/ (key[x] = key[i] /\ x <= i)
                         /\ x \in U(j) <=> key[x] < key[j] \/ (key[x] = key[j] /\ x <= j)
    BY DEF Upto
  <2>2. U(i) \in SUBSET U(j) \/ U(j) \in SUBSET U(i)
    <3> HIDE DEF U
    <3>1. CASE key[i] < key[j] \/ (key[i] = key[j] /\ i <= j)
      <4>1. ASSUME NEW x \in U(i)
            PROVE  x \in U(j)
        <5>1. x \in which
          BY <1>3
        <5> QED BY <1>2, <2>1, <3>1, <5>1
      <4> QED BY <4>1
    <3>2. CASE key[j] < key[i] \/ (key[i] = key[j] /\ j <= i)
      <4>1. ASSUME NEW x \in U(j)
            PROVE  x \in U(i)
        <5>1. x \in which
          BY <1>3
        <5> QED BY <1>2, <2>1, <3>2, <5>1
      <4> QED BY <4>1
    <3> QED BY <1>2, <3>1, <3>2
  <2>3. U(i) = U(j)
    <3> HIDE DEF U
    <3> QED BY <1>3, <1>4, <2>2, FS_Subset
  <2>4. i \in U(j) /\ j \in U(i)
    BY <1>3, <2>3
  <2> HIDE DEF U
  <2> QED BY <1>2, <1>4, <2>1, <2>4
<1>5. rank = [i \in which |-> Cardinality(U(i))]
  OBVIOUS
<1> HIDE DEF U
<1>6. rank \in Injection(which, 1..N)
  BY <1>3, <1>4, <1>5 DEF Injection, IsInjective
<1>7. IsFiniteSet(1..N) /\ Cardinality(1..N) = N
  BY <1>1, FS_Interval
<1>8. rank \in Surjection(which, 1..N)
  BY <1>6, <1>7, FS_Injection
<1> QED BY <1>1, <1>6, <1>8

\* t has the members of s that which chooses, each once.
Chooses(t, s, which) ==
    \E place \in [DOMAIN t -> which] :
        /\ \A k \in DOMAIN t : t[k] = s[place[k]]
        /\ \A k, l \in DOMAIN t : place[k] = place[l] => k = l
        /\ \A i \in which : \E k \in DOMAIN t : place[k] = i

\* Arranged permutes the chosen members.
LEMMA ArrangedOK ==
    ASSUME NEW T, NEW s \in Seq(T), NEW which \in SUBSET DOMAIN s,
           NEW key \in [DOMAIN s -> Int], NEW t, t = Arranged(s, which, key)
    PROVE  t \in Seq(T) /\ Chooses(t, s, which)
<1> DEFINE N == Cardinality(which)
           U(i) == Cardinality(Upto(which, key, i))
           place == [k \in 1..N |-> CHOOSE i \in which : U(i) = k]
<1>1. PICK rank : rank = [i \in which |-> U(i)]
  OBVIOUS
<1>2. DOMAIN s = 1..Len(s) /\ Len(s) \in Nat
  OBVIOUS
<1>3. /\ N \in Nat /\ rank \in Injection(which, 1..N)
      /\ rank \in Surjection(which, 1..N)
  BY <1>1, <1>2, Ranks
<1>4. t = [k \in 1..N |-> s[place[k]]]
  BY DEF Arranged
<1> HIDE DEF U
<1>5. \A k \in 1..N : place[k] \in which /\ rank[place[k]] = k
  <2>1. \A k \in 1..N : \E i \in which : U(i) = k
    BY <1>1, <1>3 DEF Surjection
  <2>2. \A k \in 1..N : place[k] \in which /\ U(place[k]) = k
    BY <2>1
  <2> QED BY <1>1, <2>2
<1>6. place \in [1..N -> which]
  BY <1>5
<1> HIDE DEF place
<1>7. t \in Seq(T) /\ DOMAIN t = 1..N
  <2>1. \A k \in 1..N : s[place[k]] \in T
    BY <1>2, <1>5
  <2>2. t \in [1..N -> T]
    BY <1>4, <2>1
  <2> QED BY <1>3, <2>2, SeqDef
<1>8. \A i \in which : rank[i] \in 1..N /\ place[rank[i]] = i
  BY <1>3, <1>5 DEF Injection, IsInjective
<1>9. \A k \in DOMAIN t : t[k] = s[place[k]]
  BY <1>4, <1>7
<1>10. \A k, l \in DOMAIN t : place[k] = place[l] => k = l
  BY <1>5, <1>7
<1>11. \A i \in which : \E k \in DOMAIN t : place[k] = i
  BY <1>7, <1>8
<1> QED BY <1>6, <1>7, <1>9, <1>10, <1>11 DEF Chooses

\* Filtered keeps those in S, without making anyone appear twice.
LEMMA FilteredOK ==
    ASSUME NEW T, NEW s \in Seq(T), NEW S, NEW t, t = Filtered(s, S)
    PROVE  /\ t \in Seq(T)
           /\ \A x : x \in Range(t) <=> x \in Range(s) /\ x \in S
           /\ IsInjective(s) => IsInjective(t)
<1>1. PICK which : which = {i \in DOMAIN s : s[i] \in S}
  OBVIOUS
<1>2. PICK key : key = [i \in DOMAIN s |-> 0]
  OBVIOUS
<1>3. /\ which \in SUBSET DOMAIN s /\ key \in [DOMAIN s -> Int]
      /\ t = Arranged(s, which, key)
  BY <1>1, <1>2 DEF Filtered
<1>4. t \in Seq(T) /\ Chooses(t, s, which)
  BY <1>3, ArrangedOK
<1>5. PICK place \in [DOMAIN t -> which] :
            /\ \A k \in DOMAIN t : t[k] = s[place[k]]
            /\ \A k, l \in DOMAIN t : place[k] = place[l] => k = l
            /\ \A i \in which : \E k \in DOMAIN t : place[k] = i
  BY <1>4 DEF Chooses
<1>6. ASSUME NEW k \in DOMAIN t
      PROVE  \E i \in DOMAIN s : t[k] = s[i] /\ s[i] \in S
  BY <1>1, <1>5
<1>7. ASSUME NEW i \in DOMAIN s, s[i] \in S
      PROVE  \E k \in DOMAIN t : t[k] = s[i]
  BY <1>1, <1>5, <1>7
<1>8. \A x : x \in Range(t) <=> x \in Range(s) /\ x \in S
  BY <1>6, <1>7 DEF Range
<1>9. IsInjective(s) => IsInjective(t)
  BY <1>1, <1>5 DEF IsInjective
<1> QED BY <1>4, <1>8, <1>9

-----------------------------------------------------------------------------
(* Lock sections that pair nobody: Enqueue, Cancel and GetStatus.          *)

\* What such a section, with the time at, may leave of entries and queue.
\* Matches whose time is over go as a whole; nobody gets one.
Turns(es, q, at) ==
    /\ EntriesOK(es) /\ QueueOK(es, q)
    /\ \A p \in DOMAIN es :
         /\ es[p].match <= matches
         /\ es[p].cancelRequested => es[p].allocating
         /\ es[p].allocating \/ es[p].state = "matched" => p \in DOMAIN entries
         /\ es[p].allocating => entries[p].allocating
         /\ es[p].state = "matched" => es[p] = entries[p]
    /\ \A p \in DOMAIN entries :
         /\ entries[p].allocating =>
              /\ p \in DOMAIN es /\ es[p].allocating
              /\ es[p].match = entries[p].match /\ es[p].state = "queued"
         /\ entries[p].state = "matched" =>
              IF at - entries[p].stamp >= result_ttl_ms
              THEN p \in DOMAIN es => es[p].state # "matched"
              ELSE p \in DOMAIN es /\ es[p] = entries[p]

\* Who leaves the queue, and what SweepLocked leaves of the entries.
LEMMA SweptFields ==
    ASSUME Inv, NEW at \in Int, NEW es, es = SweptEntries(at)
    PROVE  /\ DOMAIN es \subseteq DOMAIN entries /\ EntriesOK(es)
           /\ TimedOut(at) \subseteq DOMAIN es
           /\ \A p \in TimedOut(at) : es[p].state = "timeout" /\ Queued(entries, p)
           /\ \A p \in DOMAIN es :
                /\ es[p] \in EntryType /\ es[p].match = entries[p].match
                /\ es[p].allocating = entries[p].allocating
                /\ es[p].cancelRequested = entries[p].cancelRequested
                /\ p \notin TimedOut(at) => es[p] = entries[p]
           /\ \A p \in DOMAIN entries :
                /\ entries[p].state = "queued" => p \in DOMAIN es
                /\ entries[p].state = "matched" =>
                     (p \in DOMAIN es <=> at - entries[p].stamp < result_ttl_ms)
<1> DEFINE marked == [p \in DOMAIN entries |->
                        IF p \in TimedOut(at)
                        THEN [entries[p] EXCEPT !.state = "timeout", !.stamp = at]
                        ELSE entries[p]]
           gone == {p \in DOMAIN marked :
                      /\ marked[p].state \in {"matched", "timeout"}
                      /\ at - marked[p].stamp >= result_ttl_ms}
<1>1. \A p \in DOMAIN entries : p \in Player /\ entries[p] \in EntryType
  BY DEF Inv, TypeInv, EntriesOK
<1>2. ASSUME NEW p \in TimedOut(at)
      PROVE  Queued(entries, p)
  BY DEF TimedOut, Inv, QueueInv, QueueOK, Range
<1>3. es = [p \in DOMAIN entries \ gone |-> marked[p]]
  BY DEF SweptEntries, Without
<1>4. \A p \in DOMAIN entries :
        IF p \in TimedOut(at)
        THEN marked[p] = [entries[p] EXCEPT !.state = "timeout", !.stamp = at]
        ELSE marked[p] = entries[p]
  OBVIOUS
<1>5. \A p \in DOMAIN entries :
        p \in gone <=> /\ marked[p].state \in {"matched", "timeout"}
                       /\ at - marked[p].stamp >= result_ttl_ms
  OBVIOUS
<1> HIDE DEF marked, gone
<1>6. ASSUME NEW p \in TimedOut(at)
      PROVE  /\ p \in DOMAIN entries /\ p \notin gone
             /\ marked[p].state = "timeout"
  <2>1. p \in DOMAIN entries /\ entries[p] \in EntryType
    BY <1>1, <1>2 DEF Queued
  <2>2. marked[p].state = "timeout" /\ marked[p].stamp = at
    BY <1>4, <2>1 DEF EntryType
  <2> QED BY <1>5, <2>1, <2>2, MatchAssumption
<1>7. ASSUME NEW p \in DOMAIN entries
      PROVE  /\ marked[p] \in EntryType /\ marked[p].match = entries[p].match
             /\ marked[p].allocating = entries[p].allocating
             /\ marked[p].cancelRequested = entries[p].cancelRequested
             /\ p \notin TimedOut(at) => marked[p] = entries[p]
  BY <1>1, <1>4, ZenonT(60) DEF EntryType
<1>8. DOMAIN es = DOMAIN entries \ gone /\ \A p \in DOMAIN es : es[p] = marked[p]
  BY <1>3
<1>9. EntriesOK(es)
  <2>1. IsFiniteSet(DOMAIN es)
    BY <1>8, FS_Subset DEF Inv, TypeInv, EntriesOK
  <2>2. es \in [DOMAIN es -> EntryType]
    BY <1>3, <1>7, <1>8
  <2> QED BY <1>1, <1>8, <2>1, <2>2 DEF EntriesOK
<1>10. ASSUME NEW p \in DOMAIN entries
       PROVE  /\ entries[p].state = "queued" => p \in DOMAIN es
              /\ entries[p].state = "matched" =>
                   (p \in DOMAIN es <=> at - entries[p].stamp < result_ttl_ms)
  <2>1. CASE p \in TimedOut(at)
    BY <1>2, <1>6, <1>8, <2>1 DEF Queued
  <2>2. CASE p \notin TimedOut(at)
    <3>1. marked[p] = entries[p] /\ entries[p].stamp \in Int
      BY <1>1, <1>7, <2>2 DEF EntryType
    <3> QED BY <1>5, <1>8, <3>1, MatchAssumption
  <2> QED BY <2>1, <2>2
<1> QED BY <1>2, <1>6, <1>7, <1>8, <1>9, <1>10

\* Who stays in the queue.
LEMMA SweptQueueOK ==
    ASSUME Inv, NEW S, NEW q, q = Filtered(queue, Range(queue) \ S)
    PROVE  /\ q \in Seq(Player) /\ IsInjective(q)
           /\ \A p : p \in Range(q) <=> p \in Range(queue) /\ p \notin S
<1>1. queue \in Seq(Player) /\ IsInjective(queue)
  BY DEF Inv, QueueInv, QueueOK
<1>2. PICK X : X = Range(queue) \ S
  OBVIOUS
<1>3. /\ q \in Seq(Player) /\ IsInjective(q)
      /\ \A x : x \in Range(q) <=> x \in Range(queue) /\ x \in X
  BY <1>1, <1>2, FilteredOK
<1> QED BY <1>2, <1>3

\* The sweep is such a section.
LEMMA SweepTurns ==
    ASSUME Inv, NEW at \in Int
    PROVE  Turns(SweptEntries(at), SweptQueue(at), at)
<1>1. PICK es : es = SweptEntries(at)
  OBVIOUS
<1>2. PICK q : q = SweptQueue(at)
  OBVIOUS
<1>3. PICK S : S = TimedOut(at)
  OBVIOUS
<1>4. /\ q \in Seq(Player) /\ IsInjective(q)
      /\ \A p : p \in Range(q) <=> p \in Range(queue) /\ p \notin S
  <2>1. q = Filtered(queue, Range(queue) \ S)
    BY <1>2, <1>3 DEF SweptQueue
  <2> QED BY <2>1, SweptQueueOK
<1>5. /\ DOMAIN es \subseteq DOMAIN entries /\ EntriesOK(es)
      /\ S \subseteq DOMAIN es
      /\ \A p \in S : es[p].state = "timeout" /\ Queued(entries, p)
      /\ \A p \in DOMAIN es :
           /\ es[p] \in EntryType /\ es[p].match = entries[p].match
           /\ es[p].allocating = entries[p].allocating
           /\ es[p].cancelRequested = entries[p].cancelRequested
           /\ p \notin S => es[p] = entries[p]
      /\ \A p \in DOMAIN entries :
           /\ entries[p].state = "queued" => p \in DOMAIN es
           /\ entries[p].state = "matched" =>
                (p \in DOMAIN es <=> at - entries[p].stamp < result_ttl_ms)
  BY <1>1, <1>3, SweptFields
<1>6. \A p \in Player : p \in Range(queue) <=> Queued(entries, p)
  BY DEF Inv, QueueInv, QueueOK
<1>7. QueueOK(es, q)
  <2>1. ASSUME NEW p \in Player
        PROVE  p \in Range(q) <=> Queued(es, p)
    BY <1>4, <1>5, <1>6 DEF Queued
  <2> QED BY <1>4, <2>1 DEF QueueOK
<1>8. ASSUME NEW p \in DOMAIN es
      PROVE  /\ es[p].match <= matches
             /\ es[p].cancelRequested => es[p].allocating
             /\ es[p].state = "matched" => es[p] = entries[p]
  BY <1>5 DEF Inv, EntryInv
<1>9. ASSUME NEW p \in DOMAIN entries
      PROVE  /\ entries[p].allocating =>
                  /\ p \in DOMAIN es /\ es[p].allocating
                  /\ es[p].match = entries[p].match /\ es[p].state = "queued"
             /\ entries[p].state = "matched" =>
                  IF at - entries[p].stamp >= result_ttl_ms
                  THEN p \in DOMAIN es => es[p].state # "matched"
                  ELSE p \in DOMAIN es /\ es[p] = entries[p]
  <2>1. /\ entries[p].allocating => entries[p].state = "queued"
        /\ entries[p].stamp \in Int
    BY DEF Inv, EntryInv, TypeInv, EntriesOK, EntryType
  <2>2. p \in S => entries[p].state = "queued" /\ ~entries[p].allocating
    BY <1>5 DEF Queued
  <2> QED BY <1>5, <2>1, <2>2, MatchAssumption
<1>10. Turns(es, q, at)
  BY <1>5, <1>7, <1>8, <1>9 DEF Turns
<1> QED BY <1>1, <1>2, <1>10

-----------------------------------------------------------------------------
(* What every step of a request has in common.                             *)

\* Groups under way stay so when nobody begins or ends being allocated.
LEMMA HandKept ==
    ASSUME Inv, HandInv, matches \in Int, matches' \in Int, matches <= matches',
           UNCHANGED created,
           \A r \in Thread : /\ Hand(r)' = Hand(r)
                             /\ call'[r].pc = "commit" <=> call[r].pc = "commit",
           \A p \in DOMAIN entries : entries[p].allocating =>
               /\ p \in DOMAIN entries' /\ entries'[p].allocating
               /\ entries'[p].match = entries[p].match,
           \A p \in DOMAIN entries' : entries'[p].allocating =>
               p \in DOMAIN entries /\ entries[p].allocating
    PROVE  HandInv'
<1>1. ASSUME NEW r \in Thread, NEW k \in DOMAIN Hand(r)
      PROVE  GroupOK(r, k)'
  <2>1. GroupOK(r, k) /\ Hand(r)' = Hand(r)
    BY DEF HandInv
  <2>2. PICK g : g = Hand(r)[k]
    OBVIOUS
  <2>3. \A p \in Range(g.players) :
             /\ p \in DOMAIN entries' /\ entries'[p].allocating
             /\ entries'[p].match = g.match
    BY <2>1, <2>2 DEF GroupOK
  <2>4. g.match \in 1..matches'
    BY <2>1, <2>2 DEF GroupOK
  <2> QED BY <2>1, <2>2, <2>3, <2>4 DEF GroupOK
<1>2. \A r, s \in Thread : \A k \in DOMAIN Hand(r)', l \in DOMAIN Hand(s)' :
         Hand(r)'[k].match = Hand(s)'[l].match => r = s /\ k = l
  BY DEF HandInv
<1>3. \A p \in DOMAIN entries' : entries'[p].allocating =>
         \E r \in Thread : \E k \in DOMAIN Hand(r)' :
             p \in Range(Hand(r)'[k].players)
  BY DEF HandInv
<1> QED BY <1>1, <1>2, <1>3 DEF HandInv

\* A thread that holds no group before and after leaves all hands as they are.
LEMMA OtherHands ==
    ASSUME Inv, NEW r \in Thread, NEW c, call' = [call EXCEPT ![r] = c]
    PROVE  /\ DOMAIN call' = Thread /\ call'[r] = c
           /\ \A s \in Thread \ {r} :
                call'[s] = call[s] /\ Hand(s)' = Hand(s)
           /\ Hand(r)' = IF c.pc \in Holding THEN c.groups ELSE <<>>
<1>1. DOMAIN call = Thread
  BY DEF Inv, CallInv
<1> QED BY <1>1 DEF Hand

\* A room that is there stays as it is.
Grows ==
    /\ matches \in Int /\ matches' \in Int /\ matches <= matches'
    /\ \A m \in DOMAIN created :
         m \in DOMAIN created' /\ created'[m] = created[m]

\* A snapshot stays readable.
LEMMA SnapshotKept ==
    ASSUME NEW s, SnapshotOK(s), Grows
    PROVE  SnapshotOK(s)'
<1>1. ASSUME NEW m \in s.matched
      PROVE  /\ m.match <= matches'
             /\ m.room \in DOMAIN created' /\ created'[m.room] = m.group
             /\ \A i \in DOMAIN s.queued : s.queued[i].player \notin Range(m.group)
  <2>1. m.match \in Int
    BY DEF SnapshotOK, RecordType
  <2> QED BY <2>1 DEF SnapshotOK, Grows
<1> QED BY <1>1 DEF SnapshotOK, Covered

\* A step of request thread r preserves the invariant if it does so for the
\* parts about entries, queue, groups and rooms, and if it owes the mark of
\* every change.
LEMMA RequestInv ==
    ASSUME Inv, NEW r \in Thread, NEW c, call' = [call EXCEPT ![r] = c], Up,
           UNCHANGED <<now, main, flush, stored, late, unsaved>>,
           CallOK(c)', Grows, TypeInv', EntryInv', QueueInv', HandInv', RoomInv',
           \/ dirty'
           \/ dirty' = dirty /\ (HasStore => Unmarked(c))
           \/ /\ dirty' = dirty /\ entries' = entries
              /\ HasStore /\ Unmarked(call[r]) => Unmarked(c)
    PROVE  Inv'
<1>1. /\ DOMAIN call' = Thread /\ call'[r] = c
      /\ \A s \in Thread \ {r} : call'[s] = call[s] /\ Hand(s)' = Hand(s)
  BY OtherHands
<1>2. CallInv'
  <2>1. ASSUME NEW s \in Thread \ {r}
        PROVE  CallOK(call[s])'
    <3>1. CallOK(call[s]) /\ call'[s] = call[s]
      BY <1>1 DEF Inv, CallInv
    <3> QED BY <3>1 DEF CallOK, Grows
  <2>2. CallOK(call[r])'
    BY <1>1 DEF CallOK
  <2> QED BY <1>1, <2>1, <2>2 DEF CallInv
<1>3. SnapshotInv'
  <2>1. PICK s : s = stored
    OBVIOUS
  <2>2. SnapshotOK(s)'
    BY <2>1, SnapshotKept DEF Inv, SnapshotInv
  <2>3. SnapshotOK(stored)'
    BY <2>1, <2>2, ZenonT(60) DEF SnapshotOK, Covered
  <2>4. /\ \A f \in flush : SnapshotOK(f)'
        /\ \A f \in late : SnapshotOK(f)'
    BY SnapshotKept DEF Inv, SnapshotInv
  <2> QED BY <2>3, <2>4 DEF Inv, SnapshotInv
<1>4. DownInv'
  BY DEF DownInv, Up
<1>5. CurrentInv'
  <2>1. SUFFICES ASSUME HasStore, ~dirty', \A s \in Thread : ~Unmarked(call'[s])
                 PROVE  IF flush = {} THEN unsaved \/ Reflects(stored)'
                        ELSE \A s \in flush : Reflects(s)'
    BY DEF CurrentInv, Unmarked
  <2>2. ~Unmarked(c)
    BY <1>1, <2>1
  <2>3. dirty' = dirty /\ entries' = entries /\ ~Unmarked(call[r])
    BY <2>1, <2>2
  <2>4. \A s \in Thread : ~Unmarked(call[s])
    BY <1>1, <2>1, <2>3
  <2>5. IF flush = {} THEN unsaved \/ Reflects(stored)
        ELSE \A s \in flush : Reflects(s)
    BY <2>1, <2>3, <2>4 DEF Inv, CurrentInv
  <2> QED BY <2>3, <2>5 DEF Reflects, Fresh, Kept, Lines, Records
<1> QED BY <1>2, <1>3, <1>4, <1>5 DEF Inv

-----------------------------------------------------------------------------
(* Enqueue, Cancel and GetStatus.                                          *)

\* Enqueue puts a player with no entry, or whose time was up, at the end.
LEMMA TurnsAdd ==
    ASSUME Inv, NEW at \in Int, NEW es, NEW q, Turns(es, q, at), NEW p \in Player,
           p \in DOMAIN es => es[p].state = "timeout",
           NEW fs, fs = With(es, [x \in {p} |-> NewEntry(at)])
    PROVE  Turns(fs, Append(q, p), at)
<1>1. PICK n : n = NewEntry(at)
  OBVIOUS
<1>2. /\ n \in EntryType /\ n.state = "queued" /\ n.match = 0
      /\ ~n.allocating /\ ~n.cancelRequested
  BY <1>1 DEF NewEntry, EntryType, NoRoom
<1>3. /\ fs = [x \in DOMAIN es \cup {p} |-> IF x = p THEN n ELSE es[x]]
      /\ DOMAIN fs = DOMAIN es \cup {p} /\ fs[p] = n
      /\ \A x \in DOMAIN es : x # p => fs[x] = es[x]
  BY <1>1 DEF With
<1>4. EntriesOK(fs)
  <2>1. IsFiniteSet(DOMAIN fs)
    BY <1>3, FS_AddElement DEF Turns, EntriesOK
  <2>2. \A x \in DOMAIN fs : fs[x] \in EntryType
    BY <1>2, <1>3 DEF Turns, EntriesOK
  <2> QED BY <1>3, <2>1, <2>2 DEF Turns, EntriesOK
<1>5. QueueOK(fs, Append(q, p))
  <2>1. /\ q \in Seq(Player) /\ IsInjective(q) /\ p \notin Range(q)
        /\ \A x \in Player : x \in Range(q) <=> Queued(es, x)
    BY DEF Turns, QueueOK, Queued
  <2>2. PICK a : a = Append(q, p)
    OBVIOUS
  <2>3. /\ a \in Seq(Player) /\ DOMAIN a = 1..(Len(q) + 1) /\ Len(q) \in Nat
        /\ DOMAIN q = 1..Len(q) /\ a[Len(q) + 1] = p
        /\ \A i \in 1..Len(q) : a[i] = q[i]
    BY <2>1, <2>2
  <2>4. \A x : x \in Range(a) <=> x \in Range(q) \/ x = p
    BY <2>3 DEF Range
  <2>5. \A i \in 1..Len(q) : q[i] # p
    BY <2>1, <2>3 DEF Range
  <2>6. IsInjective(a)
    BY <2>1, <2>3, <2>5 DEF IsInjective
  <2>7. \A x \in Player : x \in Range(a) <=> Queued(fs, x)
    BY <1>2, <1>3, <2>1, <2>4 DEF Queued
  <2> QED BY <2>2, <2>3, <2>6, <2>7 DEF QueueOK
<1>6. ASSUME NEW x \in DOMAIN fs
      PROVE  /\ fs[x].match <= matches
             /\ fs[x].cancelRequested => fs[x].allocating
             /\ fs[x].allocating \/ fs[x].state = "matched" => x \in DOMAIN entries
             /\ fs[x].allocating => entries[x].allocating
             /\ fs[x].state = "matched" => fs[x] = entries[x]
  <2>1. matches >= 0
    BY DEF Inv, TypeInv
  <2>2. CASE x = p
    BY <1>2, <1>3, <2>1, <2>2
  <2>3. CASE x # p
    BY <1>3, <2>3 DEF Turns
  <2> QED BY <2>2, <2>3
<1>7. ASSUME NEW x \in DOMAIN entries
      PROVE  /\ entries[x].allocating =>
                  /\ x \in DOMAIN fs /\ fs[x].allocating
                  /\ fs[x].match = entries[x].match /\ fs[x].state = "queued"
             /\ entries[x].state = "matched" =>
                  IF at - entries[x].stamp >= result_ttl_ms
                  THEN x \in DOMAIN fs => fs[x].state # "matched"
                  ELSE x \in DOMAIN fs /\ fs[x] = entries[x]
  BY <1>2, <1>3 DEF Turns
<1> QED BY <1>4, <1>5, <1>6, <1>7 DEF Turns

\* Cancel of a player whose room is being allocated is only noted.
LEMMA TurnsNote ==
    ASSUME Inv, NEW at \in Int, NEW es, NEW q, Turns(es, q, at),
           NEW p \in DOMAIN es, es[p].allocating,
           NEW fs, fs = [es EXCEPT ![p].cancelRequested = TRUE]
    PROVE  Turns(fs, q, at)
<1>1. PICK e : e = [es[p] EXCEPT !.cancelRequested = TRUE]
  OBVIOUS
<1>2. es[p] \in EntryType /\ es[p].state = "queued"
  BY DEF Turns, EntriesOK
<1>3. /\ e \in EntryType /\ e.state = "queued" /\ e.match = es[p].match
      /\ e.allocating = es[p].allocating
  BY <1>1, <1>2 DEF EntryType
<1>4. /\ DOMAIN fs = DOMAIN es /\ fs[p] = e
      /\ \A x \in DOMAIN es : x # p => fs[x] = es[x]
  BY <1>1
<1>5. EntriesOK(fs)
  <2>1. \A x \in DOMAIN fs : fs[x] \in EntryType
    BY <1>3, <1>4 DEF Turns, EntriesOK
  <2>2. fs = [x \in DOMAIN fs |-> fs[x]]
    OBVIOUS
  <2> QED BY <1>4, <2>1, <2>2 DEF Turns, EntriesOK
<1>6. QueueOK(fs, q)
  BY <1>2, <1>3, <1>4 DEF Turns, QueueOK, Queued
<1>7. ASSUME NEW x \in DOMAIN fs
      PROVE  /\ fs[x].match <= matches
             /\ fs[x].cancelRequested => fs[x].allocating
             /\ fs[x].allocating \/ fs[x].state = "matched" => x \in DOMAIN entries
             /\ fs[x].allocating => entries[x].allocating
             /\ fs[x].state = "matched" => fs[x] = entries[x]
  BY <1>3, <1>4 DEF Turns
<1>8. ASSUME NEW x \in DOMAIN entries
      PROVE  /\ entries[x].allocating =>
                  /\ x \in DOMAIN fs /\ fs[x].allocating
                  /\ fs[x].match = entries[x].match /\ fs[x].state = "queued"
             /\ entries[x].state = "matched" =>
                  IF at - entries[x].stamp >= result_ttl_ms
                  THEN x \in DOMAIN fs => fs[x].state # "matched"
                  ELSE x \in DOMAIN fs /\ fs[x] = entries[x]
  BY <1>2, <1>3, <1>4 DEF Turns
<1> QED BY <1>5, <1>6, <1>7, <1>8 DEF Turns

\* Cancel of a player in the queue removes him.
LEMMA TurnsLeave ==
    ASSUME Inv, NEW at \in Int, NEW es, NEW q, Turns(es, q, at),
           NEW p, Queued(es, p), NEW fs, fs = Without(es, {p}),
           NEW t, t \in Seq(Player), IsInjective(t),
           \A x : x \in Range(t) <=> x \in Range(q) /\ x # p
    PROVE  Turns(fs, t, at)
<1>1. /\ DOMAIN fs = DOMAIN es \ {p}
      /\ \A x \in DOMAIN fs : fs[x] = es[x]
      /\ fs = [x \in DOMAIN fs |-> fs[x]]
  BY DEF Without
<1>2. EntriesOK(fs)
  <2>1. IsFiniteSet(DOMAIN fs)
    BY <1>1, FS_Subset DEF Turns, EntriesOK
  <2>2. \A x \in DOMAIN fs : fs[x] \in EntryType
    BY <1>1 DEF Turns, EntriesOK
  <2> QED BY <1>1, <2>1, <2>2 DEF Turns, EntriesOK
<1>3. QueueOK(fs, t)
  <2>1. ASSUME NEW x \in Player
        PROVE  x \in Range(t) <=> Queued(fs, x)
    <3>1. x \in Range(q) <=> Queued(es, x)
      BY DEF Turns, QueueOK
    <3> QED BY <1>1, <3>1 DEF Queued
  <2> QED BY <2>1 DEF QueueOK
<1>4. ASSUME NEW x \in DOMAIN fs
      PROVE  /\ fs[x].match <= matches
             /\ fs[x].cancelRequested => fs[x].allocating
             /\ fs[x].allocating \/ fs[x].state = "matched" => x \in DOMAIN entries
             /\ fs[x].allocating => entries[x].allocating
             /\ fs[x].state = "matched" => fs[x] = entries[x]
  BY <1>1 DEF Turns
<1>5. ASSUME NEW x \in DOMAIN entries
      PROVE  /\ entries[x].allocating =>
                  /\ x \in DOMAIN fs /\ fs[x].allocating
                  /\ fs[x].match = entries[x].match /\ fs[x].state = "queued"
             /\ entries[x].state = "matched" =>
                  IF at - entries[x].stamp >= result_ttl_ms
                  THEN x \in DOMAIN fs => fs[x].state # "matched"
                  ELSE x \in DOMAIN fs /\ fs[x] = entries[x]
  BY <1>1, ZenonT(60) DEF Turns, Queued
<1> QED BY <1>2, <1>3, <1>4, <1>5 DEF Turns

\* Such a section preserves the invariant.
LEMMA TurnsInv ==
    ASSUME Inv, NEW r \in Thread, NEW c, NEW at, Turns(entries', queue', at),
           call' = [call EXCEPT ![r] = c], Up,
           UNCHANGED <<now, retry_pairing, allocation_queue, dirty, room, main,
                       flush, stored, late, unsaved>>,
           CallOK(c)', call[r].pc \notin Holding, c.pc \notin Holding,
           ~Unmarked(call[r]), entries' = entries \/ (HasStore => Unmarked(c))
    PROVE  Inv'
<1>1. matches' = matches /\ created' = created /\ matches \in Int
  BY DEF room, Inv, TypeInv
<1>2. TypeInv'
  BY <1>1 DEF Inv, TypeInv, Turns, EntriesOK
<1>3. EntryInv'
  <2>1. ASSUME NEW p \in DOMAIN entries', entries'[p].state = "matched"
        PROVE  MatchOK(p)'
    <3>1. /\ p \in DOMAIN entries /\ entries'[p] = entries[p]
          /\ ~(at - entries[p].stamp >= result_ttl_ms)
      BY <2>1 DEF Turns
    <3>2. MatchOK(p)
      BY <2>1, <3>1 DEF Inv, EntryInv
    <3>3. \A q \in Range(entries[p].group) :
            q \in DOMAIN entries' /\ entries'[q] = entries[q]
      BY <3>1, <3>2 DEF Turns, MatchOK
    <3> QED BY <1>1, <3>1, <3>2, <3>3 DEF MatchOK
  <2>2. \A p \in DOMAIN entries' :
            /\ entries'[p].match <= matches
            /\ entries'[p].allocating => entries'[p].state = "queued"
            /\ entries'[p].cancelRequested => entries'[p].allocating
    BY DEF Turns
  <2> QED BY <1>1, <2>1, <2>2 DEF EntryInv
<1>4. QueueInv'
  BY DEF Turns, QueueInv, QueueOK, Queued
<1>5. HandInv'
  <2>1. \A s \in Thread : /\ Hand(s)' = Hand(s)
                          /\ call'[s].pc = "commit" <=> call[s].pc = "commit"
    <3>1. Hand(r) = <<>> /\ Hand(r)' = <<>>
      BY OtherHands DEF Hand
    <3> QED BY <3>1, OtherHands DEF Holding
  <2>2. \A p \in DOMAIN entries : entries[p].allocating =>
               /\ p \in DOMAIN entries' /\ entries'[p].allocating
               /\ entries'[p].match = entries[p].match
    BY DEF Turns
  <2>3. \A p \in DOMAIN entries' : entries'[p].allocating =>
               p \in DOMAIN entries /\ entries[p].allocating
    BY DEF Turns
  <2> QED BY <1>1, <2>1, <2>2, <2>3, HandKept DEF Inv
<1>6. RoomInv'
  BY <1>1 DEF Inv, RoomInv, IsPair
<1>7. Grows
  BY <1>1 DEF Grows
<1> QED BY <1>2, <1>3, <1>4, <1>5, <1>6, <1>7, RequestInv

\* A thread at work means that the process is up.
LEMMA BusyIsUp ==
    ASSUME Inv, NEW r \in Thread, call[r].pc # "idle"
    PROVE  Up /\ CallOK(call[r]) /\ call[r].at \in Int /\ call[r].at <= now
BY DEF Inv, DownInv, CallInv, CallOK, Idle

\* Insert.
LEMMA InsertInv ==
    ASSUME Inv, NEW r \in Thread, Insert(r)
    PROVE  Inv' /\ Turns(entries', queue', call[r].at)
<1>1. PICK at : at = call[r].at
  OBVIOUS
<1>2. PICK p : p = call[r].player
  OBVIOUS
<1>3. PICK es : es = SweptEntries(at)
  OBVIOUS
<1>4. PICK q : q = SweptQueue(at)
  OBVIOUS
<1>5. Up /\ at \in Int /\ at <= now /\ p \in Player
  BY <1>1, <1>2, BusyIsUp DEF Insert, CallOK
<1>6. Turns(es, q, at)
  BY <1>3, <1>4, <1>5, SweepTurns
<1>7. PICK new \in BOOLEAN : new = Inserts(p, es, q)
  BY DEF Inserts
<1>8. PICK polls : polls = IF new THEN 2
                           ELSE IF p \in DOMAIN es /\ es[p].state # "timeout"
                                THEN 1 ELSE 0
  OBVIOUS
<1>9. PICK changed \in BOOLEAN : changed = Noted(new \/ SweepChanges(at))
  BY MatchAssumption DEF Noted, SweepChanges
<1>10. PICK c : c = [pc |-> "pair", at |-> at, changed |-> changed,
                     polls |-> polls]
  OBVIOUS
<1>11. /\ entries' = IF new THEN With(es, [x \in {p} |-> NewEntry(at)]) ELSE es
       /\ queue' = IF new THEN Append(q, p) ELSE q
       /\ call' = [call EXCEPT ![r] = c]
  BY <1>1, <1>2, <1>3, <1>4, <1>7, <1>8, <1>9, <1>10 DEF Insert, Goto
<1>12. Turns(entries', queue', at)
  <2>1. CASE new
    <3>1. PICK fs : fs = With(es, [x \in {p} |-> NewEntry(at)])
      OBVIOUS
    <3>2. p \in DOMAIN es => es[p].state = "timeout"
      BY <1>7, <2>1 DEF Inserts
    <3>3. Turns(fs, Append(q, p), at)
      BY <1>5, <1>6, <3>1, <3>2, TurnsAdd
    <3> QED BY <1>11, <2>1, <3>1, <3>3
  <2>2. CASE ~new
    BY <1>6, <1>11, <2>2
  <2> QED BY <2>1, <2>2
<1>13. CallOK(c)'
  BY <1>5, <1>9, <1>10 DEF CallOK, Pcs, Insert
<1>14. entries' = entries \/ (HasStore => Unmarked(c))
  BY <1>3, <1>9, <1>10, <1>11, <1>7 DEF Unmarked, Noted, SweepChanges
<1>15. Inv'
  <2>1. call[r].pc \notin Holding /\ ~Unmarked(call[r]) /\ c.pc \notin Holding
    BY <1>10 DEF Insert, Holding, Unmarked
  <2> QED BY <1>5, <1>11, <1>12, <1>13, <1>14, <2>1, TurnsInv DEF Insert
<1> QED BY <1>1, <1>12, <1>15

\* The end of a call leaves a request that may go on.
LEMMA ClosingOK ==
    ASSUME NEW changed \in BOOLEAN, NEW at \in Int, at <= now', NEW polls, NEW c,
           c = Closing(changed, at, polls)
    PROVE  /\ CallOK(c)' /\ c.pc \notin Holding
           /\ HasStore /\ changed => Unmarked(c)
<1>1. c \in {Idle, [pc |-> "status", at |-> at, polls |-> polls],
             [pc |-> "dirty", at |-> at, polls |-> polls]}
  BY DEF Closing, Polling
<1>2. CallOK(c)' /\ c.pc \notin Holding
  BY <1>1 DEF CallOK, Pcs, Idle, Holding
<1>3. HasStore /\ changed => c.pc = "dirty"
  BY DEF Closing, Noted
<1> QED BY <1>2, <1>3 DEF Unmarked

\* Cancel.
LEMMA CancelInv ==
    ASSUME Inv, NEW r \in Thread, NEW p \in Player, Cancel(r, p)
    PROVE  Inv' /\ Turns(entries', queue', now)
<1>1. PICK at : at = now
  OBVIOUS
<1>2. PICK es : es = SweptEntries(at)
  OBVIOUS
<1>3. PICK q : q = SweptQueue(at)
  OBVIOUS
<1>4. Up /\ at \in Int /\ at <= now
  BY <1>1 DEF Cancel, Inv, TypeInv
<1>5. Turns(es, q, at)
  BY <1>2, <1>3, <1>4, SweepTurns
<1>6. \A x \in DOMAIN es : es[x].allocating \in BOOLEAN
  BY <1>5 DEF Turns, EntriesOK, EntryType
<1>7. PICK noted \in BOOLEAN : noted = (p \in DOMAIN es /\ es[p].allocating)
  BY <1>6
<1>8. PICK waiting \in BOOLEAN :
         waiting = (p \in DOMAIN es /\ es[p].state = "queued" /\ ~noted)
  BY <1>7
<1>9. PICK changed \in BOOLEAN : changed = (noted \/ waiting \/ SweepChanges(at))
  BY <1>7, <1>8 DEF SweepChanges
<1>10. PICK c : c = Closing(changed, at, 1)
  OBVIOUS
<1>11. PICK S : S = TimedOut(at) \cup {p}
  OBVIOUS
<1>12. /\ entries' = IF noted THEN [es EXCEPT ![p].cancelRequested = TRUE]
                     ELSE IF waiting THEN Without(es, {p}) ELSE es
       /\ queue' = IF waiting THEN Filtered(queue, Range(queue) \ S) ELSE q
       /\ call' = [call EXCEPT ![r] = c]
  BY <1>1, <1>2, <1>3, <1>7, <1>8, <1>9, <1>10, <1>11 DEF Cancel, Goto
<1>13. Turns(entries', queue', at)
  <2>1. CASE noted
    <3>1. PICK fs : fs = [es EXCEPT ![p].cancelRequested = TRUE]
      OBVIOUS
    <3>2. Turns(fs, q, at)
      BY <1>4, <1>5, <1>7, <2>1, <3>1, TurnsNote
    <3> QED BY <1>8, <1>12, <2>1, <3>1, <3>2
  <2>2. CASE waiting
    <3>1. PICK fs : fs = Without(es, {p})
      OBVIOUS
    <3>2. PICK t : t = Filtered(queue, Range(queue) \ S)
      OBVIOUS
    <3>3. Queued(es, p)
      BY <1>7, <1>8, <2>2 DEF Queued
    <3>4. /\ t \in Seq(Player) /\ IsInjective(t)
          /\ \A x : x \in Range(t) <=> x \in Range(queue) /\ x \notin S
      BY <3>2, SweptQueueOK
    <3>5. PICK T : T = TimedOut(at)
      OBVIOUS
    <3>6. \A x : x \in Range(q) <=> x \in Range(queue) /\ x \notin T
      <4>1. q = Filtered(queue, Range(queue) \ T)
        BY <1>3, <3>5 DEF SweptQueue
      <4> QED BY <4>1, SweptQueueOK
    <3>7. \A x : x \in Range(t) <=> x \in Range(q) /\ x # p
      BY <1>11, <3>4, <3>5, <3>6
    <3>8. Turns(fs, t, at)
      BY <1>4, <1>5, <3>1, <3>3, <3>4, <3>7, TurnsLeave
    <3> QED BY <1>8, <1>12, <2>2, <3>1, <3>2, <3>8
  <2>3. CASE ~noted /\ ~waiting
    BY <1>5, <1>12, <2>3
  <2> QED BY <1>7, <1>8, <2>1, <2>2, <2>3
<1>14. now' = now
  BY DEF Cancel
<1>15. CallOK(c)' /\ c.pc \notin Holding /\ (HasStore /\ changed => Unmarked(c))
  BY <1>4, <1>10, <1>14, ClosingOK
<1>16. entries' = entries \/ (HasStore => Unmarked(c))
  BY <1>2, <1>7, <1>8, <1>9, <1>12, <1>15 DEF SweepChanges
<1>17. Inv'
  <2>1. call[r].pc \notin Holding /\ ~Unmarked(call[r])
    BY DEF Cancel, Idle, Holding, Unmarked
  <2> QED BY <1>4, <1>12, <1>13, <1>15, <1>16, <2>1, TurnsInv DEF Cancel
<1> QED BY <1>1, <1>13, <1>17

\* The section of GetStatus.
LEMMA StatusInv ==
    ASSUME Inv, NEW r \in Thread, NEW at \in Int, at <= now, NEW polls, Up,
           call[r].pc \in {"idle", "status"}, StatusSection(r, at, polls)
    PROVE  Inv' /\ Turns(entries', queue', at)
<1>1. Turns(entries', queue', at)
  <2>1. PICK es : es = SweptEntries(at)
    OBVIOUS
  <2>2. PICK q : q = SweptQueue(at)
    OBVIOUS
  <2>3. Turns(es, q, at)
    BY <2>1, <2>2, SweepTurns
  <2> QED BY <2>1, <2>2, <2>3 DEF StatusSection
<1>2. PICK changed \in BOOLEAN : changed = Noted(SweepChanges(at))
  BY MatchAssumption DEF Noted, SweepChanges
<1>3. PICK c : c = [pc |-> "retry", at |-> at, changed |-> changed,
                    polls |-> polls]
  OBVIOUS
<1>4. call' = [call EXCEPT ![r] = c]
  BY <1>2, <1>3 DEF StatusSection, Goto
<1>5. CallOK(c)'
  BY <1>2, <1>3 DEF CallOK, Pcs, StatusSection
<1>6. entries' = entries \/ (HasStore => Unmarked(c))
  BY <1>2, <1>3 DEF Unmarked, Noted, SweepChanges, StatusSection
<1>7. call[r].pc \notin Holding /\ ~Unmarked(call[r]) /\ c.pc \notin Holding
  BY <1>3 DEF Holding, Unmarked
<1> QED BY <1>1, <1>4, <1>5, <1>6, <1>7, TurnsInv DEF StatusSection

\* A client's GetStatus.
LEMMA GetStatusInv ==
    ASSUME Inv, NEW r \in Thread, GetStatus(r)
    PROVE  Inv' /\ Turns(entries', queue', now)
<1>1. PICK at : at = now
  OBVIOUS
<1>2. Up /\ at \in Int /\ at <= now /\ call[r].pc \in {"idle", "status"}
  BY <1>1 DEF GetStatus, Inv, TypeInv, Idle
<1>3. StatusSection(r, at, 0)
  BY <1>1 DEF GetStatus
<1> QED BY <1>1, <1>2, <1>3, StatusInv

\* A handler's GetStatus.
LEMMA PollStatusInv ==
    ASSUME Inv, NEW r \in Thread, PollStatus(r)
    PROVE  Inv' /\ Turns(entries', queue', call[r].at)
<1>1. PICK at : at = call[r].at
  OBVIOUS
<1>2. PICK polls : polls = call[r].polls - 1
  OBVIOUS
<1>3. Up /\ at \in Int /\ at <= now /\ call[r].pc \in {"idle", "status"}
  BY <1>1, BusyIsUp DEF PollStatus
<1>4. StatusSection(r, at, polls)
  BY <1>1, <1>2 DEF PollStatus
<1> QED BY <1>1, <1>3, <1>4, StatusInv

-----------------------------------------------------------------------------
(* Steps that change nothing but the request.                              *)

\* Nobody moves and no group changes hands.
LEMMA QuietInv ==
    ASSUME Inv, NEW r \in Thread, NEW c, call' = [call EXCEPT ![r] = c], Up,
           UNCHANGED <<now, entries, queue, allocation_queue, room, main, flush,
                       stored, late, unsaved>>,
           retry_pairing' \in BOOLEAN, dirty' \in BOOLEAN,
           CallOK(c)', call[r].pc \notin Holding, c.pc \notin Holding,
           \/ dirty'
           \/ dirty' = dirty /\ (HasStore /\ Unmarked(call[r]) => Unmarked(c))
    PROVE  Inv'
<1>1. matches' = matches /\ created' = created /\ matches \in Int
  BY DEF room, Inv, TypeInv
<1>2. TypeInv' /\ QueueInv' /\ RoomInv'
  BY <1>1 DEF Inv, TypeInv, EntriesOK, QueueInv, QueueOK, Queued, RoomInv, IsPair
<1>3. EntryInv'
  BY <1>1 DEF Inv, EntryInv, MatchOK
<1>4. HandInv'
  <2>1. \A s \in Thread : /\ Hand(s)' = Hand(s)
                          /\ call'[s].pc = "commit" <=> call[s].pc = "commit"
    <3>1. Hand(r) = <<>> /\ Hand(r)' = <<>>
      BY OtherHands DEF Hand
    <3> QED BY <3>1, OtherHands DEF Holding
  <2> QED BY <1>1, <2>1, HandKept DEF Inv
<1>5. Grows
  BY <1>1 DEF Grows
<1> QED BY <1>2, <1>3, <1>4, <1>5, RequestInv

\* Enqueue.
LEMMA EnqueueInv ==
    ASSUME Inv, NEW r \in Thread, NEW p \in Player, Enqueue(r, p)
    PROVE  Inv'
<1>1. PICK c : c = [pc |-> "insert", player |-> p, at |-> now]
  OBVIOUS
<1>2. CallOK(c)' /\ call' = [call EXCEPT ![r] = c]
  BY <1>1 DEF Enqueue, Goto, CallOK, Pcs, Inv, TypeInv
<1>3. call[r].pc \notin Holding /\ ~Unmarked(call[r]) /\ c.pc \notin Holding
  BY <1>1 DEF Enqueue, Idle, Holding, Unmarked
<1>4. Up /\ retry_pairing' \in BOOLEAN /\ dirty' = dirty /\ dirty' \in BOOLEAN
  BY DEF Enqueue, memory, Inv, TypeInv
<1> QED BY <1>2, <1>3, <1>4, QuietInv DEF Enqueue, memory

\* RetryPairingIfNeeded.
LEMMA RetryInv ==
    ASSUME Inv, NEW r \in Thread, RetryPairingIfNeeded(r)
    PROVE  Inv'
<1>1. Up /\ CallOK(call[r]) /\ call[r].at \in Int /\ call[r].at <= now
  BY BusyIsUp DEF RetryPairingIfNeeded
<1>2. call[r].changed \in BOOLEAN /\ now' = now
  BY <1>1 DEF CallOK, RetryPairingIfNeeded
<1>3. PICK at \in Int : at = call[r].at
  BY <1>1
<1>4. PICK changed \in BOOLEAN : changed = call[r].changed
  BY <1>2
<1>5. PICK polls : polls = call[r].polls
  OBVIOUS
<1>6. PICK d : d = Closing(changed, at, polls)
  OBVIOUS
<1>7. CallOK(d)' /\ d.pc \notin Holding /\ (HasStore /\ changed => Unmarked(d))
  BY <1>1, <1>2, <1>3, <1>6, ClosingOK
<1>8. PICK e : e = [pc |-> "pair", at |-> at, changed |-> changed, polls |-> polls]
  OBVIOUS
<1>9. CallOK(e)' /\ e.pc \notin Holding /\ (changed => Unmarked(e))
  BY <1>1, <1>2, <1>3, <1>8 DEF CallOK, Pcs, Holding, Unmarked
<1>10. PICK c : c = IF retry_pairing THEN e ELSE d
  OBVIOUS
<1>11. call' = [call EXCEPT ![r] = c]
  BY <1>3, <1>4, <1>5, <1>6, <1>8, <1>10 DEF RetryPairingIfNeeded, Goto
<1>12. CallOK(c)' /\ c.pc \notin Holding
  BY <1>7, <1>9, <1>10
<1>13. HasStore /\ Unmarked(call[r]) => Unmarked(c)
  <2>1. Unmarked(call[r]) => changed
    BY <1>4 DEF Unmarked, RetryPairingIfNeeded
  <2> QED BY <1>7, <1>9, <1>10, <2>1
<1>14. /\ call[r].pc \notin Holding /\ retry_pairing' \in BOOLEAN
       /\ dirty' = dirty /\ dirty' \in BOOLEAN
  BY DEF RetryPairingIfNeeded, Holding, Inv, TypeInv
<1> QED BY <1>1, <1>11, <1>12, <1>13, <1>14, QuietInv DEF RetryPairingIfNeeded

\* MarkSnapshotDirty.
LEMMA MarkInv ==
    ASSUME Inv, NEW r \in Thread, MarkSnapshotDirty(r)
    PROVE  Inv'
<1>1. Up /\ CallOK(call[r]) /\ call[r].at \in Int /\ call[r].at <= now
  BY BusyIsUp DEF MarkSnapshotDirty
<1>2. PICK at : at = call[r].at
  OBVIOUS
<1>3. PICK polls : polls = call[r].polls
  OBVIOUS
<1>4. PICK c : c = Polling(at, polls)
  OBVIOUS
<1>5. c \in {Idle, [pc |-> "status", at |-> at, polls |-> polls]}
  BY <1>4 DEF Polling
<1>6. CallOK(c)' /\ c.pc \notin Holding
  BY <1>1, <1>2, <1>5 DEF MarkSnapshotDirty, CallOK, Pcs, Idle, Holding
<1>7. call' = [call EXCEPT ![r] = c]
  BY <1>2, <1>3, <1>4 DEF MarkSnapshotDirty, Goto
<1>8. /\ call[r].pc \notin Holding /\ retry_pairing' \in BOOLEAN
      /\ dirty' = TRUE
  BY DEF MarkSnapshotDirty, Holding, Inv, TypeInv
<1> QED BY <1>1, <1>6, <1>7, <1>8, QuietInv DEF MarkSnapshotDirty

-----------------------------------------------------------------------------
(* Pairing.                                                                *)

\* The groups taken are pairs from the front of the queue, with new matches.
Taken(n, groups) ==
    /\ n \in Nat /\ matches + n <= MaxMatches /\ 2 * n <= Len(queue)
    /\ groups \in Seq(GroupType) /\ Len(groups) = n
    /\ \A k \in 1..n :
         /\ groups[k].match = matches + k /\ IsPair(groups[k].players)
         /\ groups[k].players[1] = queue[2 * k - 1]
         /\ groups[k].players[2] = queue[2 * k]
         /\ \A p : p \in Range(groups[k].players) <=>
                     p = queue[2 * k - 1] \/ p = queue[2 * k]

LEMMA TakenGroups ==
    ASSUME Inv, NEW n, n = Pairs, NEW groups, groups = TakePairGroups
    PROVE  Taken(n, groups)
<1>1. /\ matches \in Nat /\ MaxMatches \in Nat /\ matches <= MaxMatches
      /\ queue \in Seq(Player) /\ IsInjective(queue)
  BY MatchAssumption DEF Inv, TypeInv, QueueInv, QueueOK
<1>2. PICK L \in Nat : L = Len(queue) /\ DOMAIN queue = 1..L
  BY <1>1
<1>3. n \in Nat /\ matches + n <= MaxMatches /\ 2 * n <= L
  <2>1. PICK h : h = L \div 2
    OBVIOUS
  <2>2. h \in Nat /\ 2 * h <= L
    BY <1>2, <2>1
  <2>3. n = IF h <= MaxMatches - matches THEN h ELSE MaxMatches - matches
    BY <1>2, <2>1 DEF Pairs, kPlayersPerMatch
  <2> QED BY <1>1, <2>2, <2>3
<1>4. groups = [k \in 1..n |-> [match |-> matches + k,
                                players |-> SubSeq(queue, 2 * k - 1, 2 * k)]]
  BY DEF TakePairGroups
<1>5. ASSUME NEW k \in 1..n
      PROVE  /\ groups[k] \in GroupType
             /\ groups[k].match = matches + k /\ IsPair(groups[k].players)
             /\ groups[k].players[1] = queue[2 * k - 1]
             /\ groups[k].players[2] = queue[2 * k]
             /\ \A p : p \in Range(groups[k].players) <=>
                         p = queue[2 * k - 1] \/ p = queue[2 * k]
  <2>1. PICK a \in Int, b \in Int : a = 2 * k - 1 /\ b = 2 * k
    BY <1>3
  <2>2. a \in 1..L /\ b \in 1..L /\ b = a + 1
    BY <1>2, <1>3, <2>1
  <2>3. PICK t : t = SubSeq(queue, a, b)
    OBVIOUS
  <2>4. \A i \in a..b : queue[i] \in Player
    BY <1>1, <1>2, <2>2
  <2>5. /\ t \in Seq(Player) /\ Len(t) = 2
        /\ \A i \in 1..2 : t[i] = queue[a + i - 1]
    BY <2>2, <2>3, <2>4, SubSeqProperties
  <2>6. t[1] = queue[a] /\ t[2] = queue[b] /\ DOMAIN t = 1..2
    BY <2>2, <2>5
  <2>7. t[1] # t[2]
    BY <1>1, <1>2, <2>2, <2>6 DEF IsInjective
  <2>8. \A p : p \in Range(t) <=> p = queue[a] \/ p = queue[b]
    BY <2>6 DEF Range
  <2>9. groups[k].match = matches + k /\ groups[k].players = t
        /\ groups[k] = [match |-> matches + k, players |-> t]
    BY <1>4, <2>1, <2>3
  <2>10. matches + k \in Nat
    BY <1>1, <1>3
  <2> QED BY <2>1, <2>5, <2>6, <2>7, <2>8, <2>9, <2>10
             DEF GroupType, IsPair, kPlayersPerMatch
<1>6. groups \in Seq(GroupType) /\ Len(groups) = n
  <2>1. groups \in [1..n -> GroupType]
    BY <1>4, <1>5
  <2> QED BY <1>3, <2>1, SeqDef
<1> QED BY <1>2, <1>3, <1>5, <1>6 DEF Taken

\* Each player taken is in one group, and his entry gets it.
Allocates(n, groups, a) ==
    /\ \A p : p \in DOMAIN a <=> \E i \in 1..(2 * n) : p = queue[i]
    /\ \A k \in 1..n : \A p \in Range(groups[k].players) :
         /\ p \in DOMAIN a
         /\ a[p] = [entries[p] EXCEPT !.allocating = TRUE,
                                      !.match = matches + k,
                                      !.group = groups[k].players]
    /\ \A p \in DOMAIN a : \E k \in 1..n : p \in Range(groups[k].players)
    /\ \A k, l \in 1..n : \A p : p \in Range(groups[k].players)
         /\ p \in Range(groups[l].players) => k = l

LEMMA AllocatingOK ==
    ASSUME Inv, NEW n, n = Pairs, NEW groups, groups = TakePairGroups,
           NEW a, a = Allocating(groups)
    PROVE  Allocates(n, groups, a)
<1>1. /\ n \in Nat /\ matches + n <= MaxMatches /\ 2 * n <= Len(queue)
      /\ groups \in Seq(GroupType) /\ Len(groups) = n
      /\ \A k \in 1..n :
           /\ groups[k].match = matches + k /\ IsPair(groups[k].players)
           /\ groups[k].players[1] = queue[2 * k - 1]
           /\ groups[k].players[2] = queue[2 * k]
           /\ \A p : p \in Range(groups[k].players) <=>
                       p = queue[2 * k - 1] \/ p = queue[2 * k]
  <2>1. Taken(n, groups)
    BY TakenGroups
  <2> QED BY <2>1 DEF Taken
<1>2. queue \in Seq(Player) /\ IsInjective(queue) /\ DOMAIN groups = 1..n
  BY <1>1 DEF Inv, QueueInv, QueueOK
<1>3. \A i, j \in 1..(2 * n) : queue[i] = queue[j] => i = j
  <2>1. DOMAIN queue = 1..Len(queue) /\ Len(queue) \in Nat
    BY <1>2
  <2>2. 1..(2 * n) \subseteq DOMAIN queue
    BY <1>1, <2>1
  <2> QED BY <1>2, <2>2 DEF IsInjective
<1>4. ASSUME NEW k \in 1..n, NEW l \in 1..n, NEW p,
             p \in Range(groups[k].players), p \in Range(groups[l].players)
      PROVE  k = l
  <2>1. PICK i \in {2 * k - 1, 2 * k} : p = queue[i]
    BY <1>1, <1>4
  <2>2. PICK j \in {2 * l - 1, 2 * l} : p = queue[j]
    BY <1>1, <1>4
  <2>3. i \in 1..(2 * n) /\ j \in 1..(2 * n)
    BY <1>1, <2>1, <2>2
  <2>4. i = j
    BY <1>3, <2>1, <2>2, <2>3
  <2> QED BY <1>1, <2>4
<1>5. PICK D : D = UNION {Range(groups[k].players) : k \in DOMAIN groups}
  OBVIOUS
<1>6. \A p : p \in D <=> \E k \in 1..n : p \in Range(groups[k].players)
  BY <1>2, <1>5
<1>7. a = [p \in D |->
             [entries[p] EXCEPT
                !.allocating = TRUE,
                !.match = (CHOOSE g \in Range(groups) : p \in Range(g.players)).match,
                !.group = (CHOOSE g \in Range(groups) : p \in Range(g.players)).players]]
  BY <1>5 DEF Allocating
<1>8. ASSUME NEW k \in 1..n, NEW p \in Range(groups[k].players)
      PROVE  /\ p \in DOMAIN a
             /\ a[p] = [entries[p] EXCEPT !.allocating = TRUE,
                                          !.match = matches + k,
                                          !.group = groups[k].players]
  <2>1. p \in D
    BY <1>6
  <2>2. groups[k] \in Range(groups)
    BY <1>2 DEF Range
  <2>3. ASSUME NEW g \in Range(groups), p \in Range(g.players)
        PROVE  g = groups[k]
    <3>1. PICK l \in 1..n : g = groups[l]
      BY <1>2 DEF Range
    <3> QED BY <1>4, <2>3, <3>1
  <2>4. (CHOOSE g \in Range(groups) : p \in Range(g.players)) = groups[k]
    BY <2>2, <2>3
  <2>5. PICK h : h = (CHOOSE g \in Range(groups) : p \in Range(g.players))
    OBVIOUS
  <2>6. a[p] = [entries[p] EXCEPT !.allocating = TRUE, !.match = h.match,
                                  !.group = h.players]
    BY <1>7, <2>1, <2>5
  <2> QED BY <1>1, <1>7, <2>1, <2>4, <2>5, <2>6
<1>9. ASSUME NEW p
      PROVE  p \in DOMAIN a <=> \E i \in 1..(2 * n) : p = queue[i]
  <2>1. p \in DOMAIN a <=> p \in D
    BY <1>7
  <2>2. ASSUME NEW k \in 1..n, p \in Range(groups[k].players)
        PROVE  \E i \in 1..(2 * n) : p = queue[i]
    <3>1. 2 * k - 1 \in 1..(2 * n) /\ 2 * k \in 1..(2 * n)
      BY <1>1
    <3> QED BY <1>1, <2>2, <3>1
  <2>3. ASSUME NEW i \in 1..(2 * n), p = queue[i]
        PROVE  \E k \in 1..n : p \in Range(groups[k].players)
    <3>1. PICK k \in 1..n : i = 2 * k - 1 \/ i = 2 * k
      <4>1. PICK h : h = i + 1
        OBVIOUS
      <4>2. PICK k : k = h \div 2
        OBVIOUS
      <4>3. h \in Int /\ k \in Int /\ 2 * k <= h /\ h <= 2 * k + 1
        BY <1>1, <4>1, <4>2
      <4>4. k \in 1..n /\ (i = 2 * k - 1 \/ i = 2 * k)
        BY <1>1, <4>1, <4>3
      <4> QED BY <4>4
    <3> QED BY <1>1, <2>3, <3>1
  <2> QED BY <1>6, <2>1, <2>2, <2>3
<1>10. \A p \in DOMAIN a : \E k \in 1..n : p \in Range(groups[k].players)
  BY <1>6, <1>7
<1> QED BY <1>4, <1>8, <1>9, <1>10, ZenonT(60) DEF Allocates

\* Nobody's result appears, goes or changes.
IsMatched(es, p) == p \in DOMAIN es /\ es[p].state = "matched"

KeepsMatches ==
    \A p : /\ IsMatched(entries, p) <=> IsMatched(entries', p)
           /\ IsMatched(entries, p) => entries'[p] = entries[p]

\* What Pair does: the worker is not busy, and there is room in its queue.
LEMMA PairStep ==
    ASSUME Inv, NEW r \in Thread, Pair(r), NEW groups, groups = TakePairGroups
    PROVE  /\ entries' = With(entries, Allocating(groups))
           /\ queue' = SubSeq(queue, 2 * Len(groups) + 1, Len(queue))
           /\ matches' = matches + Len(groups)
           /\ allocation_queue' = allocation_queue
           /\ call' = [call EXCEPT ![r] =
                IF groups = <<>>
                THEN Closing(call[r].changed, call[r].at, call[r].polls)
                ELSE [pc |-> "allocate", at |-> call[r].at,
                      groups |-> groups, polls |-> call[r].polls]]
<1>1. allocation_queue = <<>> /\ ~worker_busy
  BY DEF Inv, TypeInv, worker_busy
<1>2. ~(Len(allocation_queue) >= max_pending_allocations)
  BY <1>1, MatchAssumption
<1> QED BY <1>1, <1>2 DEF Pair, Goto

\* Pair when nobody can be paired.
LEMMA PairNobody ==
    ASSUME Inv, NEW r \in Thread, Pair(r), Pairs = 0
    PROVE  Inv' /\ KeepsMatches
<1>1. PICK groups : groups = TakePairGroups
  OBVIOUS
<1>2. PICK n : n = Pairs
  OBVIOUS
<1>3. PICK a : a = Allocating(groups)
  OBVIOUS
<1>4. groups \in Seq(GroupType) /\ Len(groups) = 0
  BY <1>1, <1>2, TakenGroups DEF Taken
<1>5. groups = <<>>
  BY <1>4, EmptySeq
<1>6. entries' = entries
  <2>1. \A p : p \in DOMAIN a <=> \E i \in 1..(2 * n) : p = queue[i]
    <3>1. Allocates(n, groups, a)
      BY <1>1, <1>2, <1>3, AllocatingOK
    <3> QED BY <3>1 DEF Allocates
  <2>2. DOMAIN a = {}
    <3>1. 1..(2 * n) = {}
      BY <1>2
    <3> QED BY <2>1, <3>1
  <2>3. entries = [p \in DOMAIN entries |-> entries[p]]
    BY DEF Inv, TypeInv, EntriesOK
  <2>4. entries' = With(entries, a)
    BY <1>1, <1>3, PairStep
  <2> QED BY <2>2, <2>3, <2>4 DEF With
<1>7. queue' = queue
  <2>1. queue \in Seq(Player) /\ Len(queue) \in Nat
    BY DEF Inv, QueueInv, QueueOK
  <2>2. queue' = SubSeq(queue, 1, Len(queue))
    BY <1>1, <1>4, PairStep
  <2>3. \A i \in 1..Len(queue) : queue[i] \in Player
    BY <2>1
  <2>4. PICK t : t = SubSeq(queue, 1, Len(queue))
    OBVIOUS
  <2>5. /\ t \in Seq(Player)
        /\ Len(t) = IF 1 <= Len(queue) THEN Len(queue) - 1 + 1 ELSE 0
        /\ \A i \in 1..(Len(queue) - 1 + 1) : t[i] = queue[1 + i - 1]
    BY <2>1, <2>3, <2>4, SubSeqProperties
  <2>6. Len(t) = Len(queue) /\ \A i \in 1..Len(queue) : t[i] = queue[i]
    BY <2>1, <2>5
  <2>7. t = queue
    BY <2>1, <2>5, <2>6, SeqEqual
  <2> QED BY <2>2, <2>4, <2>7
<1>8. matches' = matches
  BY <1>1, <1>4, PairStep DEF Inv, TypeInv
<1>9. Up /\ CallOK(call[r]) /\ call[r].at \in Int /\ call[r].at <= now
  BY BusyIsUp DEF Pair
<1>10. call[r].changed \in BOOLEAN /\ now' = now
  BY <1>9 DEF CallOK, Pair
<1>11. PICK at \in Int : at = call[r].at
  BY <1>9
<1>12. PICK changed \in BOOLEAN : changed = call[r].changed
  BY <1>10
<1>13. PICK polls : polls = call[r].polls
  OBVIOUS
<1>14. PICK c : c = Closing(changed, at, polls)
  OBVIOUS
<1>15. CallOK(c)' /\ c.pc \notin Holding /\ (HasStore /\ changed => Unmarked(c))
  BY <1>9, <1>10, <1>11, <1>14, ClosingOK
<1>16. call' = [call EXCEPT ![r] = c]
  BY <1>1, <1>5, <1>11, <1>12, <1>13, <1>14, PairStep
<1>17. HasStore /\ Unmarked(call[r]) => Unmarked(c)
  BY <1>12, <1>15 DEF Unmarked, Pair
<1>18. /\ call[r].pc \notin Holding /\ retry_pairing' \in BOOLEAN
       /\ dirty' = dirty /\ dirty' \in BOOLEAN /\ allocation_queue' = allocation_queue
  BY <1>1, PairStep DEF Pair, Holding, Inv, TypeInv
<1>19. Inv'
  BY <1>6, <1>7, <1>8, <1>9, <1>15, <1>16, <1>17, <1>18, QuietInv DEF Pair, room
<1> QED BY <1>6, <1>19 DEF KeepsMatches

\* What Pair makes of the entries.
LEMMA PairEntries ==
    ASSUME Inv, NEW n, n = Pairs, NEW groups, groups = TakePairGroups,
           NEW es, es = With(entries, Allocating(groups))
    PROVE  /\ DOMAIN es = DOMAIN entries /\ EntriesOK(es)
           /\ \A k \in 1..n : \A p \in Range(groups[k].players) :
                /\ Queued(entries, p)
                /\ es[p].allocating /\ es[p].match = matches + k
                /\ es[p].state = "queued" /\ ~es[p].cancelRequested
                /\ es[p].queuedAt = entries[p].queuedAt
           /\ \A p \in DOMAIN entries :
                \/ \E k \in 1..n : p \in Range(groups[k].players)
                \/ es[p] = entries[p]
<1>1. PICK a : a = Allocating(groups)
  OBVIOUS
<1>2. /\ \A p : p \in DOMAIN a <=> \E i \in 1..(2 * n) : p = queue[i]
      /\ \A k \in 1..n : \A p \in Range(groups[k].players) :
           /\ p \in DOMAIN a
           /\ a[p] = [entries[p] EXCEPT !.allocating = TRUE,
                                        !.match = matches + k,
                                        !.group = groups[k].players]
      /\ \A p \in DOMAIN a : \E k \in 1..n : p \in Range(groups[k].players)
      /\ \A k, l \in 1..n : \A p : p \in Range(groups[k].players)
           /\ p \in Range(groups[l].players) => k = l
  <2>1. Allocates(n, groups, a)
    BY <1>1, AllocatingOK
  <2> QED BY <2>1, Zenon DEF Allocates
<1>3. /\ n \in Nat /\ matches + n <= MaxMatches /\ 2 * n <= Len(queue)
      /\ groups \in Seq(GroupType) /\ Len(groups) = n
      /\ \A k \in 1..n :
           /\ groups[k].match = matches + k /\ IsPair(groups[k].players)
           /\ groups[k].players[1] = queue[2 * k - 1]
           /\ groups[k].players[2] = queue[2 * k]
           /\ \A p : p \in Range(groups[k].players) <=>
                       p = queue[2 * k - 1] \/ p = queue[2 * k]
  <2>1. Taken(n, groups)
    BY TakenGroups
  <2> QED BY <2>1 DEF Taken
<1>4. ASSUME NEW p \in DOMAIN a
      PROVE  Queued(entries, p) /\ entries[p] \in EntryType /\ ~entries[p].cancelRequested
  <2>1. queue \in Seq(Player) /\ \A x \in Player : x \in Range(queue) <=> Queued(entries, x)
    BY DEF Inv, QueueInv, QueueOK
  <2>2. PICK i \in 1..(2 * n) : p = queue[i]
    BY <1>2
  <2>3. i \in DOMAIN queue
    BY <1>3, <2>1, <2>2
  <2>4. p \in Range(queue) /\ p \in Player
    BY <2>1, <2>2, <2>3 DEF Range
  <2>5. Queued(entries, p)
    BY <2>1, <2>4
  <2> QED BY <2>5 DEF Queued, Inv, TypeInv, EntriesOK, EntryInv
<1>5. /\ DOMAIN es = DOMAIN entries
      /\ \A p \in DOMAIN es : es[p] = IF p \in DOMAIN a THEN a[p] ELSE entries[p]
      /\ es = [p \in DOMAIN es |-> es[p]]
  BY <1>1, <1>4 DEF With, Queued
<1>6. matches \in Nat
  BY DEF Inv, TypeInv
<1>7. ASSUME NEW k \in 1..n, NEW p \in Range(groups[k].players)
      PROVE  /\ Queued(entries, p) /\ es[p] \in EntryType
             /\ es[p].allocating /\ es[p].match = matches + k
             /\ es[p].state = "queued" /\ ~es[p].cancelRequested
             /\ es[p].queuedAt = entries[p].queuedAt
  <2>1. /\ p \in DOMAIN a /\ p \in DOMAIN es /\ es[p] = a[p]
        /\ entries[p] \in EntryType /\ Queued(entries, p) /\ ~entries[p].cancelRequested
    BY <1>2, <1>4, <1>5 DEF Queued
  <2>2. a[p] = [entries[p] EXCEPT !.allocating = TRUE, !.match = matches + k,
                                  !.group = groups[k].players]
    BY <1>2
  <2>3. PICK m \in Nat, g \in Seq(Player) : m = matches + k /\ g = groups[k].players
    BY <1>3, <1>6 DEF IsPair
  <2>4. PICK e \in EntryType : e = entries[p]
    BY <2>1
  <2>5. es[p] = [e EXCEPT !.allocating = TRUE, !.match = m, !.group = g]
    BY <2>1, <2>2, <2>3, <2>4
  <2>6. e.state = "queued" /\ ~e.cancelRequested
    BY <2>1, <2>4 DEF Queued
  <2>7. PICK f : f = [e EXCEPT !.allocating = TRUE, !.match = m, !.group = g]
    OBVIOUS
  <2>8. /\ f \in EntryType /\ f.allocating /\ f.match = m
        /\ f.state = "queued" /\ ~f.cancelRequested
        /\ f.queuedAt = e.queuedAt
    BY <2>6, <2>7 DEF EntryType
  <2> QED BY <2>1, <2>3, <2>4, <2>5, <2>7, <2>8
<1>8. \A p \in DOMAIN entries :
        \/ \E k \in 1..n : p \in Range(groups[k].players)
        \/ es[p] = entries[p]
  BY <1>2, <1>5
<1>9. EntriesOK(es)
  <2>1. \A p \in DOMAIN es : es[p] \in EntryType
    BY <1>5, <1>7, <1>8 DEF Inv, TypeInv, EntriesOK
  <2> QED BY <1>5, <2>1 DEF Inv, TypeInv, EntriesOK
<1> QED BY <1>5, <1>7, <1>8, <1>9

\* Those taken, and only those, are no longer in the queue.
LEMMA PairQueue ==
    ASSUME Inv, NEW n, n = Pairs, NEW groups, groups = TakePairGroups,
           NEW es, es = With(entries, Allocating(groups)),
           NEW t, t = SubSeq(queue, 2 * n + 1, Len(queue))
    PROVE  QueueOK(es, t)
<1>1. PICK a : a = Allocating(groups)
  OBVIOUS
<1>2. /\ \A p : p \in DOMAIN a <=> \E i \in 1..(2 * n) : p = queue[i]
      /\ \A k \in 1..n : \A p \in Range(groups[k].players) : p \in DOMAIN a
      /\ \A p \in DOMAIN a : \E k \in 1..n : p \in Range(groups[k].players)
  <2>1. Allocates(n, groups, a)
    BY <1>1, AllocatingOK
  <2> QED BY <2>1, Zenon DEF Allocates
<1>3. n \in Nat /\ 2 * n <= Len(queue)
  <2>1. Taken(n, groups)
    BY TakenGroups
  <2> QED BY <2>1 DEF Taken
<1>4. /\ DOMAIN es = DOMAIN entries
      /\ \A k \in 1..n : \A p \in Range(groups[k].players) : es[p].allocating
      /\ \A p \in DOMAIN entries :
           \/ \E k \in 1..n : p \in Range(groups[k].players)
           \/ es[p] = entries[p]
  BY PairEntries
<1>5. /\ queue \in Seq(Player) /\ IsInjective(queue)
      /\ \A p \in Player : p \in Range(queue) <=> Queued(entries, p)
  BY DEF Inv, QueueInv, QueueOK
<1>6. PICK L \in Nat : L = Len(queue) /\ DOMAIN queue = 1..L
  BY <1>5
<1>7. PICK f \in Nat : f = 2 * n /\ f <= L
  BY <1>3, <1>6
<1>8. /\ t \in Seq(Player) /\ DOMAIN t = 1..(L - f)
      /\ \A i \in 1..(L - f) : t[i] = queue[f + i]
  <2>1. \A i \in (f + 1)..L : queue[i] \in Player
    BY <1>5, <1>6, <1>7
  <2>2. t = SubSeq(queue, f + 1, L)
    BY <1>6, <1>7
  <2>3. /\ t \in Seq(Player)
        /\ Len(t) = IF f + 1 <= L THEN L - (f + 1) + 1 ELSE 0
        /\ \A i \in 1..(L - (f + 1) + 1) : t[i] = queue[f + 1 + i - 1]
    BY <1>6, <1>7, <2>1, <2>2, SubSeqProperties
  <2>4. Len(t) = L - f /\ DOMAIN t = 1..Len(t)
    BY <1>6, <1>7, <2>3
  <2>5. \A i \in 1..(L - f) : t[i] = queue[f + i]
    BY <1>6, <1>7, <2>3, SMTT(30)
  <2> QED BY <2>3, <2>4, <2>5
<1>9. IsInjective(t)
  <2>1. ASSUME NEW i \in 1..(L - f), NEW j \in 1..(L - f), t[i] = t[j]
        PROVE  i = j
    <3>1. f + i \in DOMAIN queue /\ f + j \in DOMAIN queue
      BY <1>6, <1>7
    <3>2. queue[f + i] = queue[f + j]
      BY <1>8, <2>1
    <3>3. f + i = f + j
      BY <1>5, <3>1, <3>2 DEF IsInjective
    <3> QED BY <1>7, <3>3
  <2> QED BY <1>8, <2>1, ZenonT(60) DEF IsInjective
<1>10. ASSUME NEW p
       PROVE  p \in Range(t) <=> p \in Range(queue) /\ p \notin DOMAIN a
  <2>1. ASSUME NEW i \in DOMAIN t, p = t[i]
        PROVE  p \in Range(queue) /\ p \notin DOMAIN a
    <3>1. f + i \in DOMAIN queue /\ p = queue[f + i]
      BY <1>6, <1>7, <1>8, <2>1, SMTT(30)
    <3>2. ASSUME NEW j \in 1..f, queue[j] = queue[f + i]
          PROVE  FALSE
      <4>1. j \in DOMAIN queue /\ j # f + i
        BY <1>6, <1>7, <1>8, SMTT(30)
      <4> QED BY <1>5, <3>1, <3>2, <4>1 DEF IsInjective
    <3> QED BY <1>2, <1>7, <3>1, <3>2 DEF Range
  <2>2. ASSUME NEW j \in DOMAIN queue, p = queue[j], p \notin DOMAIN a
        PROVE  p \in Range(t)
    <3>1. j > f
      BY <1>2, <1>6, <1>7, <2>2
    <3>2. PICK i \in Int : i = j - f
      BY <1>6, <1>7
    <3>3. i \in 1..(L - f) /\ f + i = j
      BY <1>6, <1>7, <3>1, <3>2
    <3>4. i \in DOMAIN t /\ t[i] = p
      BY <1>8, <2>2, <3>3
    <3> QED BY <3>4 DEF Range
  <2> QED BY <2>1, <2>2 DEF Range
<1>11. ASSUME NEW p \in Player
       PROVE  p \in Range(t) <=> Queued(es, p)
  <2>1. CASE p \in DOMAIN a
    BY <1>2, <1>4, <1>10, <2>1 DEF Queued
  <2>2. CASE p \notin DOMAIN a
    BY <1>2, <1>4, <1>5, <1>10, <2>2 DEF Queued
  <2> QED BY <2>1, <2>2
<1> QED BY <1>8, <1>9, <1>11 DEF QueueOK

\* Pair when somebody is paired.
LEMMA PairSome ==
    ASSUME Inv, NEW r \in Thread, Pair(r), Pairs # 0
    PROVE  Inv' /\ KeepsMatches
<1>1. PICK groups : groups = TakePairGroups
  OBVIOUS
<1>2. PICK n : n = Pairs
  OBVIOUS
<1>3. PICK es : es = With(entries, Allocating(groups))
  OBVIOUS
<1>4. Taken(n, groups) /\ n \in Nat /\ n # 0 /\ Len(groups) = n /\ groups # <<>>
  <2>1. Taken(n, groups)
    BY <1>1, <1>2, TakenGroups
  <2> QED BY <1>2, <2>1 DEF Taken
<1>5. Up /\ CallOK(call[r]) /\ call[r].at \in Int /\ call[r].at <= now
  BY BusyIsUp DEF Pair
<1>6. PICK c : c = [pc |-> "allocate", at |-> call[r].at, groups |-> groups,
                    polls |-> call[r].polls]
  OBVIOUS
<1>7. /\ entries' = es /\ queue' = SubSeq(queue, 2 * n + 1, Len(queue))
      /\ matches' = matches + n /\ allocation_queue' = allocation_queue
      /\ call' = [call EXCEPT ![r] = c] /\ created' = created
  BY <1>1, <1>3, <1>4, <1>6, PairStep DEF Pair
<1>8. /\ groups \in Seq(GroupType) /\ DOMAIN groups = 1..n
      /\ matches + n <= MaxMatches
      /\ \A k \in 1..n : groups[k].match = matches + k /\ IsPair(groups[k].players)
  BY <1>4 DEF Taken
<1>9. /\ DOMAIN es = DOMAIN entries /\ EntriesOK(es)
      /\ \A k \in 1..n : \A p \in Range(groups[k].players) :
           /\ Queued(entries, p)
           /\ es[p].allocating /\ es[p].match = matches + k
           /\ es[p].state = "queued" /\ ~es[p].cancelRequested
           /\ es[p].queuedAt = entries[p].queuedAt
      /\ \A p \in DOMAIN entries :
           \/ \E k \in 1..n : p \in Range(groups[k].players)
           \/ es[p] = entries[p]
  BY <1>1, <1>2, <1>3, PairEntries
<1>10. matches \in Nat /\ matches' \in Nat /\ matches' <= MaxMatches
  BY <1>4, <1>7, <1>8 DEF Inv, TypeInv
<1>11. \A p \in DOMAIN entries : ~Queued(entries, p) => es[p] = entries[p]
  BY <1>9
<1>12. TypeInv'
  BY <1>7, <1>9, <1>10 DEF Pair, Inv, TypeInv, EntriesOK
<1>13. QueueInv'
  <2>1. PICK t : t = SubSeq(queue, 2 * n + 1, Len(queue))
    OBVIOUS
  <2>2. QueueOK(es, t)
    BY <1>1, <1>2, <1>3, <2>1, PairQueue
  <2> QED BY <1>7, <2>1, <2>2 DEF QueueInv, QueueOK, Queued
<1>14. EntryInv'
  <2>1. ASSUME NEW p \in DOMAIN es, es[p].state = "matched"
        PROVE  MatchOK(p)'
    <3>1. es[p] = entries[p] /\ p \in DOMAIN entries
      BY <1>9, <2>1
    <3>2. MatchOK(p)
      BY <2>1, <3>1 DEF Inv, EntryInv
    <3>3. \A q \in Range(entries[p].group) : q \in DOMAIN es /\ es[q] = entries[q]
      BY <1>9, <1>11, <3>2 DEF MatchOK, Queued
    <3> QED BY <1>7, <3>1, <3>2, <3>3 DEF MatchOK
  <2>2. ASSUME NEW p \in DOMAIN es
        PROVE  /\ es[p].match <= matches'
               /\ es[p].allocating => es[p].state = "queued"
               /\ es[p].cancelRequested => es[p].allocating
    <3>1. CASE es[p] = entries[p]
      <4>1. /\ entries[p].match <= matches /\ entries[p].match \in Nat
            /\ entries[p].allocating => entries[p].state = "queued"
            /\ entries[p].cancelRequested => entries[p].allocating
        BY <1>9 DEF Inv, EntryInv, TypeInv, EntriesOK, EntryType
      <4> QED BY <1>4, <1>7, <1>10, <3>1, <4>1
    <3>2. ASSUME NEW k \in 1..n, p \in Range(groups[k].players)
          PROVE  /\ es[p].match <= matches'
                 /\ es[p].allocating => es[p].state = "queued"
                 /\ es[p].cancelRequested => es[p].allocating
      BY <1>4, <1>7, <1>9, <1>10, <3>2
    <3> QED BY <1>9, <3>1, <3>2
  <2> QED BY <1>7, <2>1, <2>2 DEF EntryInv
<1>15. /\ \A s \in Thread \ {r} : call'[s] = call[s] /\ Hand(s)' = Hand(s)
       /\ Hand(r) = <<>> /\ Hand(r)' = groups /\ call'[r] = c
  <2>1. Hand(r) = <<>>
    BY DEF Hand, Pair, Holding
  <2>2. /\ call'[r] = c
        /\ \A s \in Thread \ {r} : call'[s] = call[s] /\ Hand(s)' = Hand(s)
        /\ Hand(r)' = IF c.pc \in Holding THEN c.groups ELSE <<>>
    BY <1>7, OtherHands
  <2>3. c.pc \in Holding /\ c.groups = groups
    BY <1>6 DEF Holding
  <2> QED BY <2>1, <2>2, <2>3
<1>16. ASSUME NEW s \in Thread, NEW k \in DOMAIN Hand(s)
       PROVE  /\ s # r /\ GroupOK(s, k) /\ GroupOK(s, k)'
              /\ Hand(s)[k].match \in 1..matches
  <2>1. s # r /\ GroupOK(s, k) /\ Hand(s)' = Hand(s) /\ call'[s] = call[s]
    BY <1>15 DEF Inv, HandInv
  <2>2. PICK g : g = Hand(s)[k]
    OBVIOUS
  <2>3. \A p \in Range(g.players) :
             /\ p \in DOMAIN entries' /\ entries'[p].allocating
             /\ entries'[p].match = g.match
    BY <1>7, <1>9, <1>11, <2>1, <2>2 DEF GroupOK, Queued
  <2>4. g.match \in 1..matches /\ g.match \in 1..matches'
    BY <1>4, <1>7, <1>10, <2>1, <2>2 DEF GroupOK
  <2> QED BY <1>7, <2>1, <2>2, <2>3, <2>4 DEF GroupOK
<1>17. ASSUME NEW k \in 1..n
       PROVE  GroupOK(r, k)'
  <2>1. PICK g : g = groups[k]
    OBVIOUS
  <2>2. g.match = matches + k /\ IsPair(g.players) /\ g = Hand(r)'[k]
    BY <1>8, <1>15, <2>1
  <2>3. \A p \in Range(g.players) :
             /\ p \in DOMAIN entries' /\ entries'[p].allocating
             /\ entries'[p].match = g.match
    BY <1>7, <1>9, <2>1, <2>2 DEF Queued
  <2>4. g.match \in 1..matches' /\ g.match \notin DOMAIN created'
    BY <1>4, <1>7, <1>10, <2>2 DEF Inv, RoomInv
  <2> QED BY <2>2, <2>3, <2>4 DEF GroupOK, IsPair
<1>18. HandInv'
  <2>1. ASSUME NEW s \in Thread
        PROVE  \A k \in DOMAIN Hand(s)' : GroupOK(s, k)'
    <3>1. CASE s = r
      <4>1. \A k \in DOMAIN Hand(r)' : GroupOK(r, k)'
        BY <1>8, <1>15, <1>17
      <4> QED BY <3>1, <4>1
    <3>2. CASE s # r
      BY <1>15, <1>16, <3>2
    <3> QED BY <3>1, <3>2
  <2>2. ASSUME NEW p \in DOMAIN entries', entries'[p].allocating
        PROVE  \E s \in Thread : \E k \in DOMAIN Hand(s)' :
                 p \in Range(Hand(s)'[k].players)
    <3>1. CASE \E k \in 1..n : p \in Range(groups[k].players)
      BY <1>8, <1>15, <3>1
    <3>2. CASE es[p] = entries[p]
      <4>1. PICK s \in Thread : \E k \in DOMAIN Hand(s) :
                                  p \in Range(Hand(s)[k].players)
        BY <1>7, <1>9, <2>2, <3>2 DEF Inv, HandInv
      <4> QED BY <1>15, <1>16, <4>1
    <3> QED BY <1>7, <1>9, <2>2, <3>1, <3>2
  <2>3. ASSUME NEW s \in Thread, NEW u \in Thread
        PROVE  \A k \in DOMAIN Hand(s)', l \in DOMAIN Hand(u)' :
                 Hand(s)'[k].match = Hand(u)'[l].match => s = u /\ k = l
    <3>1. CASE s = r /\ u = r
      BY <1>8, <1>10, <1>15, <3>1
    <3>2. CASE s # r /\ u # r
      BY <1>15, <3>2 DEF Inv, HandInv
    <3>3. CASE s # r /\ u = r
      <4>1. \A k \in DOMAIN Hand(s)' : Hand(s)'[k].match \in 1..matches
        BY <1>15, <1>16, <3>3
      <4>2. \A l \in DOMAIN Hand(u)' : l \in 1..n /\ Hand(u)'[l].match = matches + l
        BY <1>8, <1>15, <3>3
      <4> QED BY <1>4, <1>10, <4>1, <4>2
    <3>4. CASE s = r /\ u # r
      <4>1. \A l \in DOMAIN Hand(u)' : Hand(u)'[l].match \in 1..matches
        BY <1>15, <1>16, <3>4
      <4>2. \A k \in DOMAIN Hand(s)' : k \in 1..n /\ Hand(s)'[k].match = matches + k
        BY <1>8, <1>15, <3>4
      <4> QED BY <1>4, <1>10, <4>1, <4>2
    <3> QED BY <3>1, <3>2, <3>3, <3>4
  <2> QED BY <2>1, <2>2, <2>3 DEF HandInv
<1>19. RoomInv'
  BY <1>4, <1>7, <1>10 DEF Inv, RoomInv, IsPair
<1>20. Grows
  BY <1>4, <1>7, <1>10 DEF Grows
<1>21. CallOK(c)' /\ Unmarked(c)
  BY <1>4, <1>5, <1>6, <1>8 DEF CallOK, Pcs, Unmarked, Pair
<1>22. Inv'
  BY <1>5, <1>7, <1>12, <1>13, <1>14, <1>18, <1>19, <1>20, <1>21, RequestInv DEF Pair
<1>23. KeepsMatches
  BY <1>7, <1>9, <1>11 DEF KeepsMatches, IsMatched, Queued
<1> QED BY <1>22, <1>23

\* Pair.
LEMMA PairInv ==
    ASSUME Inv, NEW r \in Thread, Pair(r)
    PROVE  Inv' /\ KeepsMatches
BY PairNobody, PairSome

-----------------------------------------------------------------------------
(* Allocation and commit.                                                  *)

\* The group a thread asks a room for, or commits.
First(r, g) ==
    /\ Hand(r) = call[r].groups /\ Hand(r) \in Seq(GroupType)
    /\ 1 \in DOMAIN Hand(r) /\ g = Hand(r)[1] /\ g \in GroupType
    /\ g.match \in 1..matches /\ IsPair(g.players)
    /\ \A p \in Range(g.players) :
         /\ p \in DOMAIN entries /\ entries[p] \in EntryType
         /\ entries[p].allocating /\ entries[p].state = "queued"
         /\ entries[p].match = g.match
    /\ g.match \in DOMAIN created =>
         call[r].pc = "commit" /\ created[g.match] = g.players
    /\ \A s \in Thread : \A k \in DOMAIN Hand(s) :
         \/ s = r /\ k = 1
         \/ /\ Hand(s)[k].match # g.match
            /\ \A p \in Range(Hand(s)[k].players) : p \notin Range(g.players)

LEMMA FirstGroup ==
    ASSUME Inv, NEW r \in Thread, call[r].pc \in Holding,
           NEW g, g = Head(call[r].groups)
    PROVE  First(r, g)
<1>1. CallOK(call[r])
  BY DEF Inv, CallInv
<1>2. /\ Hand(r) = call[r].groups /\ Hand(r) \in Seq(GroupType)
      /\ Hand(r) # <<>>
  BY <1>1 DEF Hand, CallOK, Holding
<1>3. 1 \in DOMAIN Hand(r) /\ g = Hand(r)[1] /\ g \in GroupType
  BY <1>2
<1>4. GroupOK(r, 1)
  BY <1>3 DEF Inv, HandInv
<1>5. /\ g.match \in 1..matches /\ IsPair(g.players)
      /\ \A p \in Range(g.players) :
           p \in DOMAIN entries /\ entries[p].allocating /\ entries[p].match = g.match
      /\ g.match \in DOMAIN created =>
           call[r].pc = "commit" /\ created[g.match] = g.players
  BY <1>3, <1>4 DEF GroupOK
<1>6. \A p \in DOMAIN entries : entries[p] \in EntryType /\
        (entries[p].allocating => entries[p].state = "queued")
  BY DEF Inv, TypeInv, EntriesOK, EntryInv
<1>7. ASSUME NEW s \in Thread, NEW k \in DOMAIN Hand(s), ~(s = r /\ k = 1)
      PROVE  /\ Hand(s)[k].match # g.match
             /\ \A p \in Range(Hand(s)[k].players) : p \notin Range(g.players)
  <2>1. Hand(s)[k].match # g.match
    BY <1>3, <1>7 DEF Inv, HandInv
  <2>2. GroupOK(s, k)
    BY DEF Inv, HandInv
  <2>3. \A p \in Range(Hand(s)[k].players) : entries[p].match = Hand(s)[k].match
    BY <2>2 DEF GroupOK
  <2> QED BY <1>5, <2>1, <2>3
<1> QED BY <1>2, <1>3, <1>5, <1>6, <1>7 DEF First

\* Allocate.
LEMMA AllocateInv ==
    ASSUME Inv, NEW r \in Thread, Allocate(r)
    PROVE  Inv' /\ Grows
<1>1. PICK g : g = Head(call[r].groups)
  OBVIOUS
<1>2. /\ Hand(r) = call[r].groups /\ Hand(r) \in Seq(GroupType)
      /\ 1 \in DOMAIN Hand(r) /\ g = Hand(r)[1] /\ g \in GroupType
      /\ g.match \in 1..matches /\ IsPair(g.players)
      /\ g.match \in DOMAIN created =>
           call[r].pc = "commit" /\ created[g.match] = g.players
      /\ \A s \in Thread : \A k \in DOMAIN Hand(s) :
           (s = r /\ k = 1) \/ Hand(s)[k].match # g.match
  <2>1. call[r].pc \in Holding
    BY DEF Allocate, Holding
  <2>2. First(r, g)
    BY <1>1, <2>1, FirstGroup
  <2> QED BY <2>2 DEF First
<1>3. g.match \notin DOMAIN created
  BY <1>2 DEF Allocate
<1>4. PICK made : made = [m \in DOMAIN created \cup {g.match} |->
                            IF m = g.match THEN g.players ELSE created[m]]
  OBVIOUS
<1>5. PICK o \in {[rooms |-> made, answer |-> g.match],
                  [rooms |-> made, answer |-> NoRoom],
                  [rooms |-> created, answer |-> NoRoom]} :
         /\ created' = o.rooms
         /\ call' = [call EXCEPT ![r] =
              [pc |-> "commit", at |-> call[r].at, groups |-> call[r].groups,
               polls |-> call[r].polls, room |-> o.answer]]
  BY <1>1, <1>4 DEF Allocate, CreateRoomOutcomes, Goto
<1>6. PICK c : c = [pc |-> "commit", at |-> call[r].at, groups |-> call[r].groups,
                    polls |-> call[r].polls, room |-> o.answer]
  OBVIOUS
<1>7. Up /\ CallOK(call[r]) /\ call[r].at \in Int /\ call[r].at <= now
  BY BusyIsUp DEF Allocate
<1>8. /\ created' = made \/ created' = created
      /\ o.answer = NoRoom \/ (o.answer = g.match /\ created' = made)
  BY <1>5
<1>9. /\ \A m \in DOMAIN created : m \in DOMAIN created' /\ created'[m] = created[m]
      /\ \A m \in DOMAIN created' : m \in DOMAIN created \/
           (m = g.match /\ created'[m] = g.players)
      /\ created' = made => g.match \in DOMAIN created'
  BY <1>3, <1>4, <1>8
<1>10. matches' = matches /\ matches \in Nat /\ Grows
  BY <1>9 DEF Allocate, Inv, TypeInv, Grows
<1>11. CallOK(c)' /\ Unmarked(c)
  <2>1. call[r].groups \in Seq(GroupType) /\ call[r].groups # <<>>
        /\ g = call[r].groups[1]
    BY <1>2, <1>7 DEF CallOK, Allocate
  <2> QED BY <1>6, <1>7, <1>8, <1>9, <2>1 DEF CallOK, Pcs, Unmarked, Allocate
<1>12. TypeInv' /\ QueueInv'
  BY DEF Allocate, memory, Inv, TypeInv, EntriesOK, QueueInv, QueueOK, Queued
<1>13. EntryInv'
  <2>1. ASSUME NEW p \in DOMAIN entries, entries[p].state = "matched"
        PROVE  MatchOK(p)'
    <3>1. MatchOK(p)
      BY <2>1 DEF Inv, EntryInv
    <3> QED BY <1>9, <3>1 DEF MatchOK, Allocate, memory
  <2> QED BY <1>10, <2>1 DEF Allocate, memory, Inv, EntryInv
<1>14. RoomInv'
  <2>1. ASSUME NEW m \in DOMAIN created'
        PROVE  m \in 1..matches /\ IsPair(created'[m])
    BY <1>2, <1>9 DEF Inv, RoomInv
  <2> QED BY <1>10, <2>1 DEF RoomInv, IsPair
<1>15. /\ \A s \in Thread : Hand(s)' = Hand(s)
       /\ \A s \in Thread \ {r} : call'[s] = call[s]
       /\ call'[r].pc = "commit"
  <2>1. call' = [call EXCEPT ![r] = c]
    BY <1>5, <1>6
  <2>2. /\ call'[r] = c
        /\ \A s \in Thread \ {r} : call'[s] = call[s] /\ Hand(s)' = Hand(s)
        /\ Hand(r)' = IF c.pc \in Holding THEN c.groups ELSE <<>>
    BY <2>1, OtherHands
  <2>3. c.pc = "commit" /\ c.groups = call[r].groups /\ c.pc \in Holding
    BY <1>6 DEF Holding
  <2> QED BY <1>2, <2>2, <2>3
<1>16. HandInv'
  <2>1. ASSUME NEW s \in Thread, NEW k \in DOMAIN Hand(s)
        PROVE  GroupOK(s, k)'
    <3>1. PICK h : h = Hand(s)[k]
      OBVIOUS
    <3>2. GroupOK(s, k) /\ Hand(s)'[k] = h
      BY <1>15, <3>1 DEF Inv, HandInv
    <3>3. /\ h.match \in 1..matches' /\ IsPair(h.players)
          /\ \A p \in Range(h.players) :
               /\ p \in DOMAIN entries' /\ entries'[p].allocating
               /\ entries'[p].match = h.match
      BY <1>10, <3>1, <3>2 DEF GroupOK, Allocate, memory
    <3>4. ASSUME h.match \in DOMAIN created'
          PROVE  k = 1 /\ call'[s].pc = "commit" /\ created'[h.match] = h.players
      <4>1. CASE s = r /\ k = 1
        BY <1>2, <1>3, <1>9, <1>15, <3>1, <3>4, <4>1
      <4>2. CASE ~(s = r /\ k = 1)
        <5>1. h.match \in DOMAIN created /\ created'[h.match] = created[h.match]
          BY <1>2, <1>9, <3>1, <3>4, <4>2
        <5>2. k = 1 /\ call[s].pc = "commit" /\ created[h.match] = h.players
          BY <3>1, <3>2, <5>1 DEF GroupOK
        <5> QED BY <1>15, <4>2, <5>1, <5>2
      <4> QED BY <4>1, <4>2
    <3> QED BY <3>2, <3>3, <3>4 DEF GroupOK, IsPair
  <2>2. \A s \in Thread : \A k \in DOMAIN Hand(s)' : GroupOK(s, k)'
    BY <1>15, <2>1
  <2>3. \A p \in DOMAIN entries' : entries'[p].allocating =>
           \E s \in Thread : \E k \in DOMAIN Hand(s)' :
               p \in Range(Hand(s)'[k].players)
    BY <1>15 DEF Inv, HandInv, Allocate, memory
  <2>4. \A s, u \in Thread : \A k \in DOMAIN Hand(s)', l \in DOMAIN Hand(u)' :
           Hand(s)'[k].match = Hand(u)'[l].match => s = u /\ k = l
    BY <1>15 DEF Inv, HandInv
  <2> QED BY <2>2, <2>3, <2>4 DEF HandInv
<1>17. dirty' = dirty
  BY DEF Allocate, memory
<1> QED BY <1>5, <1>6, <1>7, <1>10, <1>11, <1>12, <1>13, <1>14, <1>16, <1>17,
           RequestInv DEF Allocate

\* The players of created[m] get its result; nobody else's changes.
MakesMatch(m) ==
    /\ m \in DOMAIN created
    /\ \A p \in Range(created[m]) :
         /\ p \in DOMAIN entries /\ entries[p].state = "queued"
         /\ ~entries[p].cancelRequested
         /\ p \in DOMAIN entries' /\ entries'[p].state = "matched"
         /\ entries'[p].room = m /\ entries'[p].group = created[m]
    /\ \A p : p \notin Range(created[m]) =>
         /\ IsMatched(entries, p) <=> IsMatched(entries', p)
         /\ IsMatched(entries, p) => entries'[p] = entries[p]

\* A commit takes the first group out of the thread's hand, and the others
\* are not touched, whatever becomes of the players of the first.
LEMMA CommitHands ==
    ASSUME Inv, NEW r \in Thread, call[r].pc = "commit",
           NEW g, g = Head(call[r].groups), UNCHANGED room,
           NEW c, call' = [call EXCEPT ![r] = c],
           c.pc # "commit",
           IF c.pc = "allocate" THEN c.groups = Tail(call[r].groups)
           ELSE Len(call[r].groups) = 1,
           \A p \in DOMAIN entries : p \notin Range(g.players) =>
               p \in DOMAIN entries' /\ entries'[p] = entries[p],
           \A p \in DOMAIN entries' :
               \/ p \in DOMAIN entries /\ entries'[p] = entries[p] /\ p \notin Range(g.players)
               \/ ~entries'[p].allocating
    PROVE  HandInv'
<1>1. /\ Hand(r) = call[r].groups /\ Hand(r) \in Seq(GroupType)
      /\ 1 \in DOMAIN Hand(r) /\ g = Hand(r)[1] /\ g \in GroupType
      /\ g.match \in 1..matches /\ IsPair(g.players)
      /\ \A p \in Range(g.players) :
           /\ p \in DOMAIN entries /\ entries[p] \in EntryType
           /\ entries[p].allocating /\ entries[p].state = "queued"
           /\ entries[p].match = g.match
      /\ g.match \in DOMAIN created =>
           call[r].pc = "commit" /\ created[g.match] = g.players
      /\ \A s \in Thread : \A k \in DOMAIN Hand(s) :
           \/ s = r /\ k = 1
           \/ /\ Hand(s)[k].match # g.match
              /\ \A p \in Range(Hand(s)[k].players) : p \notin Range(g.players)
  <2>1. call[r].pc \in Holding
    BY DEF Holding
  <2>2. First(r, g)
    BY <2>1, FirstGroup
  <2> QED BY <2>2 DEF First
<1>2. matches' = matches /\ created' = created
  BY DEF room
<1>3. PICK n \in Nat : n = Len(Hand(r)) /\ DOMAIN Hand(r) = 1..n /\ n >= 1
  BY <1>1
<1>4. /\ call'[r] = c
      /\ \A s \in Thread \ {r} : call'[s] = call[s] /\ Hand(s)' = Hand(s)
      /\ Hand(r)' = IF c.pc \in Holding THEN c.groups ELSE <<>>
  BY OtherHands
<1>5. /\ DOMAIN Hand(r)' = 1..(n - 1)
      /\ \A k \in 1..(n - 1) : Hand(r)'[k] = Hand(r)[k + 1]
  <2>1. CASE c.pc = "allocate"
    <3>1. Hand(r)' = Tail(Hand(r))
      BY <1>1, <1>4, <2>1 DEF Holding
    <3>2. Hand(r) # <<>>
      BY <1>3
    <3>3. PICK h \in Seq(GroupType) : h = Hand(r) /\ h # <<>>
      BY <1>1, <3>2
    <3>4. /\ Tail(h) \in Seq(GroupType) /\ Len(Tail(h)) = Len(h) - 1
          /\ \A i \in 1..Len(Tail(h)) : Tail(h)[i] = h[i + 1]
      BY <3>3, HeadTailProperties
    <3> QED BY <1>3, <3>1, <3>3, <3>4
  <2>2. CASE c.pc # "allocate"
    <3>1. Hand(r)' = <<>> /\ n = 1
      BY <1>1, <1>3, <1>4, <2>2 DEF Holding
    <3>2. DOMAIN <<>> = {} /\ 1..(n - 1) = {}
      BY <3>1
    <3> QED BY <3>1, <3>2
  <2> QED BY <2>1, <2>2
<1>6. ASSUME NEW s \in Thread, NEW k \in DOMAIN Hand(s), ~(s = r /\ k = 1)
      PROVE  \A p \in Range(Hand(s)[k].players) :
               p \in DOMAIN entries' /\ entries'[p] = entries[p]
  <2>1. GroupOK(s, k)
    BY DEF Inv, HandInv
  <2> QED BY <1>1, <1>6, <2>1 DEF GroupOK
<1>7. ASSUME NEW s \in Thread, s # r, NEW k \in DOMAIN Hand(s)
      PROVE  GroupOK(s, k)'
  <2>1. /\ GroupOK(s, k) /\ Hand(s)' = Hand(s) /\ call'[s] = call[s]
    BY <1>4, <1>7 DEF Inv, HandInv
  <2>2. PICK h : h = Hand(s)[k]
    OBVIOUS
  <2>3. \A p \in Range(h.players) : /\ p \in DOMAIN entries' /\ entries'[p].allocating
                                    /\ entries'[p].match = h.match
    BY <1>6, <1>7, <2>1, <2>2 DEF GroupOK
  <2> QED BY <1>2, <2>1, <2>2, <2>3 DEF GroupOK, IsPair
<1>8. ASSUME NEW k \in 1..(n - 1)
      PROVE  GroupOK(r, k)'
  <2>1. k + 1 \in DOMAIN Hand(r) /\ k + 1 # 1
    BY <1>3
  <2>2. GroupOK(r, k + 1)
    BY <2>1 DEF Inv, HandInv
  <2>3. PICK h : h = Hand(r)[k + 1]
    OBVIOUS
  <2>4. /\ h.match \in 1..matches /\ IsPair(h.players) /\ h.match \notin DOMAIN created
        /\ \A p \in Range(h.players) :
             p \in DOMAIN entries /\ entries[p].allocating /\ entries[p].match = h.match
    BY <2>1, <2>2, <2>3 DEF GroupOK
  <2>5. \A p \in Range(h.players) : /\ p \in DOMAIN entries' /\ entries'[p].allocating
                                    /\ entries'[p].match = h.match
    BY <1>6, <2>1, <2>3, <2>4
  <2>6. h = Hand(r)'[k]
    BY <1>5, <2>3
  <2> QED BY <1>2, <2>4, <2>5, <2>6 DEF GroupOK, IsPair
<1>9. ASSUME NEW s \in Thread
      PROVE  \A k \in DOMAIN Hand(s)' : GroupOK(s, k)'
  <2>1. CASE s = r
    <3>1. \A k \in DOMAIN Hand(r)' : GroupOK(r, k)'
      BY <1>5, <1>8
    <3> QED BY <2>1, <3>1
  <2>2. CASE s # r
    BY <1>4, <1>7, <2>2
  <2> QED BY <2>1, <2>2
<1>10. ASSUME NEW p \in DOMAIN entries', entries'[p].allocating
       PROVE  \E s \in Thread : \E k \in DOMAIN Hand(s)' :
                p \in Range(Hand(s)'[k].players)
  <2>1. p \in DOMAIN entries /\ entries[p].allocating /\ p \notin Range(g.players)
    BY <1>10
  <2>2. PICK s \in Thread : \E k \in DOMAIN Hand(s) : p \in Range(Hand(s)[k].players)
    BY <2>1 DEF Inv, HandInv
  <2>3. PICK k \in DOMAIN Hand(s) : p \in Range(Hand(s)[k].players)
    BY <2>2
  <2>4. CASE s = r
    <3>1. k \in 1..n /\ k # 1
      BY <1>1, <1>3, <2>1, <2>3, <2>4
    <3>2. PICK j \in 1..(n - 1) : k = j + 1
      <4>1. k - 1 \in 1..(n - 1) /\ k = (k - 1) + 1
        BY <1>3, <3>1
      <4> QED BY <4>1
    <3>3. j \in DOMAIN Hand(r)' /\ p \in Range(Hand(r)'[j].players)
      BY <1>5, <2>3, <2>4, <3>2
    <3> QED BY <3>3
  <2>5. CASE s # r
    BY <1>4, <2>3, <2>5
  <2> QED BY <2>4, <2>5
<1>11. ASSUME NEW s \in Thread
       PROVE  \A k \in DOMAIN Hand(s)' :
                \E i \in DOMAIN Hand(s) : /\ Hand(s)'[k] = Hand(s)[i]
                                          /\ i = IF s = r THEN k + 1 ELSE k
  <2>1. CASE s = r
    <3>1. \A k \in DOMAIN Hand(r)' :
             k + 1 \in DOMAIN Hand(r) /\ Hand(r)'[k] = Hand(r)[k + 1]
      BY <1>3, <1>5
    <3> QED BY <2>1, <3>1
  <2>2. CASE s # r
    BY <1>4, <2>2
  <2> QED BY <2>1, <2>2
<1>12. ASSUME NEW s \in Thread, NEW u \in Thread
       PROVE  \A k \in DOMAIN Hand(s)', l \in DOMAIN Hand(u)' :
                Hand(s)'[k].match = Hand(u)'[l].match => s = u /\ k = l
  <2>1. \A i \in DOMAIN Hand(s), j \in DOMAIN Hand(u) :
          Hand(s)[i].match = Hand(u)[j].match => s = u /\ i = j
    BY DEF Inv, HandInv
  <2>2. \A k \in DOMAIN Hand(r)' : k \in Int
    BY <1>3, <1>5
  <2> QED BY <1>11, <2>1, <2>2
<1> QED BY <1>9, <1>10, <1>12 DEF HandInv

\* The request after a commit.
GoesOn(r) ==
    \E c : /\ call' = [call EXCEPT ![r] = c] /\ CallOK(c)'
           /\ c.pc # "commit" /\ (HasStore => Unmarked(c))
           /\ IF c.pc = "allocate" THEN c.groups = Tail(call[r].groups)
              ELSE Len(call[r].groups) = 1

LEMMA CommitCall ==
    ASSUME Inv, NEW r \in Thread, Commit(r)
    PROVE  GoesOn(r)
<1>1. /\ Up /\ CallOK(call[r]) /\ call[r].at \in Int /\ call[r].at <= now
      /\ now' = now
  BY BusyIsUp DEF Commit
<1>2. PICK at \in Int : at = call[r].at
  BY <1>1
<1>3. PICK polls : polls = call[r].polls
  OBVIOUS
<1>4. PICK G \in Seq(GroupType) : G = call[r].groups /\ G # <<>>
  BY <1>1 DEF CallOK, Commit
<1>5. CASE Len(G) = 1
  <2>1. PICK c : c = Closing(TRUE, at, polls)
    OBVIOUS
  <2>2. CallOK(c)' /\ c.pc \notin Holding /\ (HasStore => Unmarked(c))
    BY <1>1, <1>2, <2>1, ClosingOK
  <2>3. call' = [call EXCEPT ![r] = c]
    BY <1>2, <1>3, <1>4, <1>5, <2>1 DEF Commit, Goto
  <2> QED BY <1>4, <1>5, <2>2, <2>3 DEF Holding, GoesOn
<1>6. CASE Len(G) # 1
  <2>1. PICK T : T = Tail(G)
    OBVIOUS
  <2>2. T \in Seq(GroupType) /\ Len(T) = Len(G) - 1
    <3>1. Tail(G) \in Seq(GroupType) /\ Len(Tail(G)) = Len(G) - 1
      BY <1>4, HeadTailProperties
    <3> QED BY <2>1, <3>1
  <2>3. T # <<>>
    <3>1. Len(G) \in Nat /\ Len(G) # 0
      BY <1>4, EmptySeq
    <3>2. Len(T) # 0
      BY <1>6, <2>2, <3>1
    <3> QED BY <3>2
  <2>4. PICK c : c = [pc |-> "allocate", at |-> at, groups |-> T, polls |-> polls]
    OBVIOUS
  <2>5. call' = [call EXCEPT ![r] = c]
    BY <1>2, <1>3, <1>4, <1>6, <2>1, <2>4 DEF Commit, Goto
  <2>6. CallOK(c)' /\ Unmarked(c)
    BY <1>1, <1>2, <2>2, <2>3, <2>4 DEF CallOK, Pcs, Unmarked
  <2>7. c.pc = "allocate" /\ c.groups = Tail(call[r].groups)
    BY <1>4, <2>1, <2>4
  <2> QED BY <2>5, <2>6, <2>7 DEF GoesOn
<1> QED BY <1>5, <1>6

\* What a match makes of the entries of its players.
GivesResult(g, rm, at, es) ==
    /\ DOMAIN es = DOMAIN entries /\ EntriesOK(es)
    /\ \A p \in DOMAIN entries : p \notin Range(g.players) => es[p] = entries[p]
    /\ \A p \in Range(g.players) :
         /\ es[p].state = "matched" /\ es[p].room = rm
         /\ es[p].group = g.players /\ es[p].stamp = at
         /\ es[p].match = entries[p].match /\ ~es[p].allocating
         /\ es[p].cancelRequested = entries[p].cancelRequested

LEMMA MatchedEntries ==
    ASSUME Inv, NEW g, NEW rm \in Nat, NEW at \in Int, IsPair(g.players),
           \A p \in Range(g.players) :
               p \in DOMAIN entries /\ entries[p] \in EntryType,
           NEW es, es = With(entries, Matched(g, rm, at))
    PROVE  GivesResult(g, rm, at, es)
<1>1. PICK players \in Seq(Player) : players = g.players
  BY DEF IsPair
<1>2. PICK f : f = Matched(g, rm, at)
  OBVIOUS
<1>3. /\ DOMAIN f = Range(players)
      /\ \A p \in Range(players) :
           f[p] = [entries[p] EXCEPT !.state = "matched", !.allocating = FALSE,
                                     !.room = rm, !.group = players, !.stamp = at]
  BY <1>1, <1>2 DEF Matched
<1>4. /\ DOMAIN es = DOMAIN entries
      /\ \A p \in DOMAIN es :
           es[p] = IF p \in Range(players) THEN f[p] ELSE entries[p]
      /\ es = [p \in DOMAIN es |-> es[p]]
  BY <1>1, <1>2, <1>3 DEF With
<1>5. ASSUME NEW p \in Range(players)
      PROVE  /\ es[p] \in EntryType
             /\ es[p].state = "matched" /\ es[p].room = rm
             /\ es[p].group = players /\ es[p].stamp = at
             /\ es[p].match = entries[p].match /\ ~es[p].allocating
             /\ es[p].cancelRequested = entries[p].cancelRequested
  <2>1. PICK e \in EntryType : e = entries[p]
    BY <1>1
  <2>2. PICK h : h = [e EXCEPT !.state = "matched", !.allocating = FALSE,
                               !.room = rm, !.group = players, !.stamp = at]
    OBVIOUS
  <2>3. es[p] = h
    BY <1>1, <1>3, <1>4, <2>1, <2>2
  <2>4. /\ h \in EntryType
        /\ h.state = "matched" /\ h.room = rm
        /\ h.group = players /\ h.stamp = at
        /\ h.match = e.match /\ ~h.allocating
        /\ h.cancelRequested = e.cancelRequested
    BY <2>2 DEF EntryType
  <2> QED BY <2>1, <2>3, <2>4
<1>6. EntriesOK(es)
  <2>1. \A p \in DOMAIN es : es[p] \in EntryType
    BY <1>4, <1>5 DEF Inv, TypeInv, EntriesOK
  <2> QED BY <1>4, <2>1 DEF Inv, TypeInv, EntriesOK
<1> QED BY <1>1, <1>4, <1>5, <1>6 DEF GivesResult

\* What a failed allocation makes of the entries of the players.
PutBack(g, gone, es) ==
    /\ DOMAIN es = DOMAIN entries \ gone /\ EntriesOK(es)
    /\ gone \subseteq Range(g.players)
    /\ \A p \in DOMAIN entries : p \notin Range(g.players) => es[p] = entries[p]
    /\ \A p \in Range(g.players) \ gone :
         /\ es[p].state = "queued" /\ ~es[p].allocating
         /\ ~es[p].cancelRequested /\ es[p].match = NoRoom

LEMMA RequeuedEntries ==
    ASSUME Inv, NEW g, IsPair(g.players),
           \A p \in Range(g.players) :
               p \in DOMAIN entries /\ entries[p] \in EntryType
               /\ entries[p].state = "queued",
           NEW gone, gone = Cancelled(g),
           NEW es, es = With(Without(entries, gone), Requeued(g))
    PROVE  PutBack(g, gone, es)
<1>1. PICK R : R = Range(g.players)
  OBVIOUS
<1>2. gone \subseteq R /\ \A p \in R \ gone : ~entries[p].cancelRequested
  BY <1>1 DEF Cancelled
<1>3. PICK f : f = Requeued(g)
  OBVIOUS
<1>4. /\ DOMAIN f = R \ gone
      /\ \A p \in R \ gone :
           f[p] = [entries[p] EXCEPT !.allocating = FALSE, !.match = NoRoom,
                                     !.group = <<>>]
  BY <1>1, <1>3 DEF Requeued
<1>5. /\ DOMAIN es = DOMAIN entries \ gone
      /\ \A p \in DOMAIN es : es[p] = IF p \in R THEN f[p] ELSE entries[p]
      /\ es = [p \in DOMAIN es |-> es[p]]
  BY <1>1, <1>2, <1>3, <1>4 DEF With, Without
<1>6. ASSUME NEW p \in R \ gone
      PROVE  /\ es[p] \in EntryType
             /\ es[p].state = "queued" /\ ~es[p].allocating
             /\ ~es[p].cancelRequested /\ es[p].match = NoRoom
  <2>1. PICK e \in EntryType : e = entries[p] /\ e.state = "queued" /\ ~e.cancelRequested
    BY <1>1, <1>2
  <2>2. PICK h : h = [e EXCEPT !.allocating = FALSE, !.match = NoRoom,
                               !.group = <<>>]
    OBVIOUS
  <2>3. es[p] = h
    BY <1>1, <1>4, <1>5, <2>1, <2>2
  <2>4. /\ h \in EntryType
        /\ h.state = "queued" /\ ~h.allocating
        /\ ~h.cancelRequested /\ h.match = NoRoom
    <3>1. PICK z \in Nat, none \in Seq(Player) : z = NoRoom /\ none = <<>>
      BY EmptySeq DEF NoRoom
    <3>2. h = [e EXCEPT !.allocating = FALSE, !.match = z, !.group = none]
      BY <2>2, <3>1
    <3>3. /\ h \in EntryType
          /\ h.state = "queued" /\ ~h.allocating
          /\ ~h.cancelRequested /\ h.match = z
      BY <2>1, <3>2 DEF EntryType
    <3> QED BY <3>1, <3>3
  <2> QED BY <2>3, <2>4
<1>7. EntriesOK(es)
  <2>1. \A p \in DOMAIN es : es[p] \in EntryType
    BY <1>5, <1>6 DEF Inv, TypeInv, EntriesOK
  <2>2. IsFiniteSet(DOMAIN es)
    BY <1>5, FS_Subset DEF Inv, TypeInv, EntriesOK
  <2> QED BY <1>5, <2>1, <2>2 DEF Inv, TypeInv, EntriesOK
<1> QED BY <1>1, <1>2, <1>5, <1>6, <1>7 DEF PutBack

\* Commit that makes a match.
LEMMA CommitMatch ==
    ASSUME Inv, NEW r \in Thread, Commit(r), NEW g, g = Head(call[r].groups),
           call[r].room # NoRoom, Cancelled(g) = {}
    PROVE  Inv' /\ MakesMatch(g.match)
<1>1. First(r, g)
  BY FirstGroup DEF Commit, Holding
<1>2. /\ g.match \in 1..matches /\ IsPair(g.players)
      /\ \A p \in Range(g.players) :
           /\ p \in DOMAIN entries /\ entries[p] \in EntryType
           /\ entries[p].allocating /\ entries[p].state = "queued"
           /\ entries[p].match = g.match
      /\ g.match \in DOMAIN created => created[g.match] = g.players
      /\ g = Hand(r)[1] /\ Hand(r) = call[r].groups
  BY <1>1 DEF First
<1>3. /\ Up /\ CallOK(call[r]) /\ call[r].at \in Int /\ call[r].at <= now
  BY BusyIsUp DEF Commit
<1>4. PICK rm \in Nat : rm = call[r].room /\ rm = g.match /\ rm \in DOMAIN created
  BY <1>2, <1>3 DEF CallOK, Commit, Inv, TypeInv
<1>5. PICK at \in Int : at = call[r].at
  BY <1>3
<1>6. PICK es : es = With(entries, Matched(g, rm, at))
  OBVIOUS
<1>7. /\ entries' = es /\ queue' = queue /\ retry_pairing' = retry_pairing
      /\ matches' = matches /\ created' = created
      /\ matches \in Nat
  BY <1>4, <1>5, <1>6 DEF Commit, CommitGroup, room, Inv, TypeInv
<1>8. /\ DOMAIN es = DOMAIN entries /\ EntriesOK(es)
      /\ \A p \in DOMAIN entries : p \notin Range(g.players) => es[p] = entries[p]
      /\ \A p \in Range(g.players) :
           /\ es[p].state = "matched" /\ es[p].room = rm
           /\ es[p].group = g.players /\ es[p].stamp = at
           /\ es[p].match = entries[p].match /\ ~es[p].allocating
           /\ es[p].cancelRequested = entries[p].cancelRequested
  <2>1. GivesResult(g, rm, at, es)
    BY <1>2, <1>6, MatchedEntries
  <2> QED BY <2>1 DEF GivesResult
<1>9. \A p \in Range(g.players) : ~entries[p].cancelRequested
  BY DEF Cancelled
<1>10. PICK c : /\ call' = [call EXCEPT ![r] = c] /\ CallOK(c)'
                /\ c.pc # "commit" /\ (HasStore => Unmarked(c))
                /\ IF c.pc = "allocate" THEN c.groups = Tail(call[r].groups)
                   ELSE Len(call[r].groups) = 1
  <2>1. GoesOn(r)
    BY CommitCall
  <2> QED BY <2>1 DEF GoesOn
<1>11. TypeInv'
  BY <1>7, <1>8 DEF Commit, Inv, TypeInv, EntriesOK
<1>12. QueueInv'
  <2>1. \A p \in Player : Queued(es, p) <=> Queued(entries, p)
    BY <1>2, <1>8 DEF Queued
  <2> QED BY <1>7, <2>1 DEF Inv, QueueInv, QueueOK, Queued
<1>13. HandInv'
  <2>1. \A p \in DOMAIN entries : p \notin Range(g.players) =>
          p \in DOMAIN entries' /\ entries'[p] = entries[p]
    BY <1>7, <1>8
  <2>2. \A p \in DOMAIN entries' :
          \/ p \in DOMAIN entries /\ entries'[p] = entries[p] /\ p \notin Range(g.players)
          \/ ~entries'[p].allocating
    BY <1>7, <1>8
  <2>3. call[r].pc = "commit" /\ UNCHANGED room
    BY DEF Commit
  <2> QED BY <1>10, <2>1, <2>2, <2>3, CommitHands
<1>14. EntryInv'
  <2>1. ASSUME NEW p \in DOMAIN es
        PROVE  /\ es[p].match <= matches
               /\ es[p].allocating => es[p].state = "queued"
               /\ es[p].cancelRequested => es[p].allocating
    BY <1>7, <1>8, <1>9 DEF Inv, EntryInv
  <2>2. ASSUME NEW p \in DOMAIN es, es[p].state = "matched", p \notin Range(g.players)
        PROVE  MatchOK(p)'
    <3>1. MatchOK(p) /\ es[p] = entries[p]
      BY <1>8, <2>2 DEF Inv, EntryInv
    <3>2. \A q \in Range(entries[p].group) : q \in DOMAIN es /\ es[q] = entries[q]
      BY <1>2, <1>8, <3>1 DEF MatchOK
    <3> QED BY <1>7, <3>1, <3>2 DEF MatchOK
  <2>3. ASSUME NEW p \in Range(g.players)
        PROVE  MatchOK(p)'
    BY <1>2, <1>4, <1>7, <1>8 DEF MatchOK
  <2> QED BY <1>7, <2>1, <2>2, <2>3 DEF EntryInv
<1>15. RoomInv' /\ Grows /\ dirty' = dirty
  BY <1>7 DEF Commit, Inv, RoomInv, IsPair, Grows
<1>16. Inv'
  BY <1>3, <1>10, <1>11, <1>12, <1>13, <1>14, <1>15, RequestInv DEF Commit
<1>17. MakesMatch(g.match)
  <2>1. \A p : p \notin Range(g.players) =>
          /\ IsMatched(entries, p) <=> IsMatched(es, p)
          /\ IsMatched(entries, p) => es[p] = entries[p]
    BY <1>8 DEF IsMatched
  <2> QED BY <1>2, <1>4, <1>7, <1>8, <1>9, <2>1 DEF MakesMatch, IsMatched
<1> QED BY <1>16, <1>17

\* Commit that makes none.
LEMMA CommitNoMatch ==
    ASSUME Inv, NEW r \in Thread, Commit(r), NEW g, g = Head(call[r].groups),
           ~(call[r].room # NoRoom /\ Cancelled(g) = {})
    PROVE  Inv' /\ KeepsMatches
<1>1. First(r, g)
  BY FirstGroup DEF Commit, Holding
<1>2. /\ IsPair(g.players)
      /\ \A p \in Range(g.players) :
           /\ p \in DOMAIN entries /\ entries[p] \in EntryType
           /\ entries[p].allocating /\ entries[p].state = "queued"
  BY <1>1 DEF First
<1>3. Up
  BY BusyIsUp DEF Commit
<1>4. PICK gone : gone = Cancelled(g)
  OBVIOUS
<1>5. PICK es : es = With(Without(entries, gone), Requeued(g))
  OBVIOUS
<1>6. PICK t : t = Filtered(g.players, Range(g.players) \ gone)
  OBVIOUS
<1>7. /\ entries' = es /\ queue' = t \o queue /\ retry_pairing' \in BOOLEAN
      /\ matches' = matches /\ created' = created /\ matches \in Nat
  <2>1. entries' = es /\ queue' = t \o queue
    BY <1>4, <1>5, <1>6 DEF Commit, CommitGroup
  <2>2. retry_pairing' = (retry_pairing \/ call[r].room = NoRoom)
    BY DEF Commit, CommitGroup
  <2>3. retry_pairing' \in BOOLEAN
    BY <2>2
  <2> QED BY <2>1, <2>3 DEF Commit, room, Inv, TypeInv
<1>8. /\ DOMAIN es = DOMAIN entries \ gone /\ EntriesOK(es)
      /\ gone \subseteq Range(g.players)
      /\ \A p \in DOMAIN entries : p \notin Range(g.players) => es[p] = entries[p]
      /\ \A p \in Range(g.players) \ gone :
           /\ es[p].state = "queued" /\ ~es[p].allocating
           /\ ~es[p].cancelRequested /\ es[p].match = NoRoom
  <2>1. PutBack(g, gone, es)
    BY <1>2, <1>4, <1>5, RequeuedEntries
  <2> QED BY <2>1 DEF PutBack
<1>9. PICK c : /\ call' = [call EXCEPT ![r] = c] /\ CallOK(c)'
               /\ c.pc # "commit" /\ (HasStore => Unmarked(c))
               /\ IF c.pc = "allocate" THEN c.groups = Tail(call[r].groups)
                  ELSE Len(call[r].groups) = 1
  <2>1. GoesOn(r)
    BY CommitCall
  <2> QED BY <2>1 DEF GoesOn
<1>10. TypeInv'
  BY <1>7, <1>8 DEF Commit, Inv, TypeInv, EntriesOK
<1>11. QueueInv'
  <2>1. /\ queue \in Seq(Player) /\ IsInjective(queue)
        /\ \A p \in Player : p \in Range(queue) <=> Queued(entries, p)
    BY DEF Inv, QueueInv, QueueOK
  <2>2. /\ t \in Seq(Player) /\ IsInjective(t)
        /\ \A p : p \in Range(t) <=> p \in Range(g.players) /\ p \notin gone
    <3>1. PICK s \in Seq(Player) : s = g.players /\ IsInjective(s)
      <4>1. DOMAIN g.players = 1..2 /\ g.players \in Seq(Player)
        BY <1>2 DEF IsPair, kPlayersPerMatch
      <4> QED BY <1>2, <4>1 DEF IsPair, IsInjective
    <3>2. PICK S : S = Range(s) \ gone
      OBVIOUS
    <3>3. t = Filtered(s, S)
      BY <1>6, <3>1, <3>2
    <3>4. /\ t \in Seq(Player)
          /\ \A x : x \in Range(t) <=> x \in Range(s) /\ x \in S
          /\ IsInjective(s) => IsInjective(t)
      BY <3>3, FilteredOK
    <3> QED BY <3>1, <3>2, <3>4
  <2>3. PICK u : u = t \o queue
    OBVIOUS
  <2>4. PICK a \in Nat, b \in Nat : /\ a = Len(t) /\ DOMAIN t = 1..a
                                    /\ b = Len(queue) /\ DOMAIN queue = 1..b
    BY <2>1, <2>2
  <2>5. /\ u \in Seq(Player) /\ DOMAIN u = 1..(a + b)
        /\ \A i \in 1..(a + b) : u[i] = IF i <= a THEN t[i] ELSE queue[i - a]
    BY <2>1, <2>2, <2>3, <2>4, ConcatProperties
  <2>6. ASSUME NEW p \in Range(t), p \in Range(queue)
        PROVE  FALSE
    <3>1. p \in Player
      BY <2>1, <2>6 DEF Range
    <3>2. entries[p].allocating /\ Queued(entries, p)
      BY <1>2, <2>1, <2>2, <2>6, <3>1
    <3> QED BY <3>2 DEF Queued
  <2>7. \A i \in 1..(a + b) : i <= a \/ (i - a \in 1..b)
    BY <2>4
  <2>8. \A i \in 1..(a + b) : IF i <= a THEN u[i] \in Range(t) ELSE u[i] \in Range(queue)
    <3>1. \A i \in 1..(a + b) : i <= a => i \in DOMAIN t /\ u[i] = t[i]
      BY <2>4, <2>5
    <3>2. \A i \in 1..(a + b) : ~(i <= a) => i - a \in DOMAIN queue /\ u[i] = queue[i - a]
      BY <2>4, <2>5, <2>7
    <3> QED BY <3>1, <3>2 DEF Range
  <2>9. ASSUME NEW i \in 1..(a + b), NEW j \in 1..(a + b), u[i] = u[j]
        PROVE  i = j
    <3>1. CASE i <= a /\ j <= a
      <4>1. i \in DOMAIN t /\ j \in DOMAIN t /\ t[i] = t[j]
        BY <2>4, <2>5, <2>9, <3>1
      <4> QED BY <2>2, <4>1 DEF IsInjective
    <3>2. CASE ~(i <= a) /\ ~(j <= a)
      <4>1. i - a \in DOMAIN queue /\ j - a \in DOMAIN queue
        BY <2>4, <2>7, <3>2
      <4>2. queue[i - a] = queue[j - a]
        BY <2>5, <2>9, <3>2
      <4>3. i - a = j - a
        BY <2>1, <4>1, <4>2 DEF IsInjective
      <4> QED BY <2>4, <4>3
    <3>3. CASE (i <= a /\ ~(j <= a)) \/ (j <= a /\ ~(i <= a))
      BY <2>6, <2>8, <2>9, <3>3
    <3> QED BY <3>1, <3>2, <3>3
  <2>10. IsInjective(u)
    BY <2>5, <2>9 DEF IsInjective
  <2>11. ASSUME NEW p \in Range(t)
         PROVE  p \in Range(u)
    <3>1. PICK i \in 1..a : t[i] = p
      BY <2>4 DEF Range
    <3>2. i \in DOMAIN u /\ u[i] = p
      BY <2>4, <2>5, <3>1
    <3> QED BY <3>2 DEF Range
  <2>12. ASSUME NEW p \in Range(queue)
         PROVE  p \in Range(u)
    <3>1. PICK i \in 1..b : queue[i] = p
      BY <2>4 DEF Range
    <3>2. a + i \in 1..(a + b) /\ ~(a + i <= a) /\ (a + i) - a = i
      BY <2>4, <3>1
    <3>3. a + i \in DOMAIN u /\ u[a + i] = p
      BY <2>5, <3>1, <3>2
    <3> QED BY <3>3 DEF Range
  <2>13. \A p : p \in Range(u) <=> p \in Range(t) \/ p \in Range(queue)
    <3>1. \A p \in Range(u) : p \in Range(t) \/ p \in Range(queue)
      BY <2>5, <2>8 DEF Range
    <3> QED BY <2>11, <2>12, <3>1
  <2>14. ASSUME NEW p \in Player
         PROVE  p \in Range(u) <=> Queued(es, p)
    <3>1. CASE p \in Range(g.players)
      BY <1>2, <1>8, <2>1, <2>2, <2>13, <3>1 DEF Queued
    <3>2. CASE p \notin Range(g.players)
      BY <1>8, <2>1, <2>2, <2>13, <3>2 DEF Queued
    <3> QED BY <3>1, <3>2
  <2>15. QueueOK(es, u)
    BY <2>5, <2>10, <2>14 DEF QueueOK
  <2> QED BY <1>7, <2>3, <2>15 DEF QueueInv, QueueOK, Queued
<1>12. HandInv'
  <2>1. \A p \in DOMAIN entries : p \notin Range(g.players) =>
          p \in DOMAIN entries' /\ entries'[p] = entries[p]
    BY <1>7, <1>8
  <2>2. \A p \in DOMAIN entries' :
          \/ p \in DOMAIN entries /\ entries'[p] = entries[p] /\ p \notin Range(g.players)
          \/ ~entries'[p].allocating
    BY <1>7, <1>8
  <2>3. call[r].pc = "commit" /\ UNCHANGED room
    BY DEF Commit
  <2> QED BY <1>9, <2>1, <2>2, <2>3, CommitHands
<1>13. EntryInv'
  <2>1. ASSUME NEW p \in DOMAIN es
        PROVE  /\ es[p].match <= matches
               /\ es[p].allocating => es[p].state = "queued"
               /\ es[p].cancelRequested => es[p].allocating
    BY <1>7, <1>8 DEF Inv, EntryInv, NoRoom
  <2>2. ASSUME NEW p \in DOMAIN es, es[p].state = "matched"
        PROVE  MatchOK(p)'
    <3>1. p \in DOMAIN entries /\ p \notin Range(g.players) /\ es[p] = entries[p]
      BY <1>8, <2>2
    <3>2. MatchOK(p)
      BY <2>2, <3>1 DEF Inv, EntryInv
    <3>3. \A q \in Range(entries[p].group) : q \in DOMAIN es /\ es[q] = entries[q]
      BY <1>2, <1>8, <3>2 DEF MatchOK
    <3> QED BY <1>7, <3>1, <3>2, <3>3 DEF MatchOK
  <2> QED BY <1>7, <2>1, <2>2 DEF EntryInv
<1>14. RoomInv' /\ Grows /\ dirty' = dirty
  BY <1>7 DEF Commit, Inv, RoomInv, IsPair, Grows
<1>15. Inv'
  BY <1>3, <1>9, <1>10, <1>11, <1>12, <1>13, <1>14, RequestInv DEF Commit
<1>16. KeepsMatches
  BY <1>2, <1>7, <1>8 DEF KeepsMatches, IsMatched
<1> QED BY <1>15, <1>16

-----------------------------------------------------------------------------
(* Snapshots.                                                              *)

\* The order in which a snapshot names the players who wait.
LEMMA SnapshotOrder ==
    ASSUME Inv, NEW A, A = {p \in DOMAIN entries :
                              entries[p].allocating /\ ~entries[p].cancelRequested},
           NEW order \in Injection(1..Cardinality(A), A),
           NEW w, w = queue \o order
    PROVE  /\ w \in Seq(Player) /\ IsInjective(w)
           /\ \A p : p \in Range(w) <=>
                /\ p \in DOMAIN entries /\ entries[p].state = "queued"
                /\ ~entries[p].cancelRequested
<1>1. /\ queue \in Seq(Player) /\ IsInjective(queue)
      /\ \A p \in Player : p \in Range(queue) <=> Queued(entries, p)
      /\ DOMAIN entries \subseteq Player /\ IsFiniteSet(DOMAIN entries)
  BY DEF Inv, TypeInv, EntriesOK, QueueInv, QueueOK
<1>2. A \subseteq DOMAIN entries
  OBVIOUS
<1>3. IsFiniteSet(A)
  BY <1>1, <1>2, FS_Subset
<1>4. PICK b \in Nat : b = Cardinality(A)
  BY <1>3, FS_CardinalityType
<1>5. IsFiniteSet(1..b) /\ Cardinality(1..b) = b
  BY <1>4, FS_Interval
<1>6. order \in Surjection(1..b, A)
  BY <1>3, <1>4, <1>5, FS_Injection
<1>7. /\ order \in [1..b -> A] /\ IsInjective(order) /\ DOMAIN order = 1..b
      /\ \A p \in A : \E i \in 1..b : order[i] = p
  BY <1>4, <1>6 DEF Injection, Surjection
<1>8. order \in Seq(Player) /\ Len(order) = b
  <2>1. order \in [1..b -> Player]
    BY <1>1, <1>2, <1>7
  <2>2. order \in Seq(Player)
    BY <1>4, <2>1, SeqDef
  <2>3. Len(order) \in Nat /\ 1..Len(order) = 1..b
    BY <1>7, <2>2, LenProperties
  <2>4. Len(order) = b
    <3>1. \A i \in Nat : i \in 1..Len(order) <=> i \in 1..b
      BY <2>3
    <3>2. Len(order) <= b /\ b <= Len(order)
      BY <1>4, <2>3, <3>1
    <3> QED BY <1>4, <2>3, <3>2
  <2> QED BY <2>2, <2>4
<1>9. PICK a \in Nat : a = Len(queue) /\ DOMAIN queue = 1..a
  BY <1>1
<1>10. /\ w \in Seq(Player) /\ DOMAIN w = 1..(a + b)
       /\ \A i \in 1..(a + b) : w[i] = IF i <= a THEN queue[i] ELSE order[i - a]
  <2>1. /\ queue \o order \in Seq(Player)
        /\ Len(queue \o order) = Len(queue) + Len(order)
        /\ \A i \in 1..(Len(queue) + Len(order)) : (queue \o order)[i] =
             IF i <= Len(queue) THEN queue[i] ELSE order[i - Len(queue)]
    BY <1>1, <1>8, ConcatProperties
  <2>2. w \in Seq(Player) /\ Len(w) = a + b
    BY <1>8, <1>9, <2>1
  <2>3. \A i \in 1..(a + b) : w[i] = IF i <= a THEN queue[i] ELSE order[i - a]
    BY <1>8, <1>9, <2>1
  <2> QED BY <2>2, <2>3, LenProperties
<1>11. ASSUME NEW p \in Range(queue)
       PROVE  /\ p \in DOMAIN entries /\ entries[p].state = "queued"
              /\ ~entries[p].cancelRequested /\ ~entries[p].allocating
  <2>1. p \in Player
    BY <1>1 DEF Range
  <2>2. Queued(entries, p)
    BY <1>1, <2>1
  <2> QED BY <2>2 DEF Queued, Inv, EntryInv
<1>12. ASSUME NEW p \in A
       PROVE  /\ p \in DOMAIN entries /\ entries[p].state = "queued"
              /\ ~entries[p].cancelRequested /\ entries[p].allocating
  BY DEF Inv, EntryInv
<1>13. ASSUME NEW p \in DOMAIN entries, entries[p].state = "queued",
              ~entries[p].cancelRequested, p \notin A
       PROVE  p \in Range(queue)
  <2>1. Queued(entries, p) /\ p \in Player
    BY <1>1, <1>13 DEF Queued
  <2> QED BY <1>1, <2>1
<1>14. \A i \in 1..(a + b) :
         /\ i <= a => i \in DOMAIN queue /\ w[i] = queue[i]
         /\ ~(i <= a) => i - a \in 1..b /\ w[i] = order[i - a]
  BY <1>4, <1>9, <1>10
<1>15. \A i \in 1..(a + b) :
         IF i <= a THEN w[i] \in Range(queue) ELSE w[i] \in A
  <2>1. \A i \in 1..b : order[i] \in A
    BY <1>7
  <2> QED BY <1>14, <2>1 DEF Range
<1>16. ASSUME NEW i \in 1..(a + b), NEW j \in 1..(a + b), w[i] = w[j]
       PROVE  i = j
  <2>1. CASE i <= a /\ j <= a
    BY <1>1, <1>14, <1>16, <2>1 DEF IsInjective
  <2>2. CASE ~(i <= a) /\ ~(j <= a)
    <3>1. i - a \in 1..b /\ j - a \in 1..b /\ order[i - a] = order[j - a]
      BY <1>14, <1>16, <2>2
    <3>2. i - a = j - a
      BY <1>7, <3>1 DEF IsInjective
    <3> QED BY <1>9, <3>2
  <2>3. CASE (i <= a /\ ~(j <= a)) \/ (j <= a /\ ~(i <= a))
    BY <1>11, <1>12, <1>15, <1>16, <2>3
  <2> QED BY <2>1, <2>2, <2>3
<1>17. IsInjective(w)
  BY <1>10, <1>16 DEF IsInjective
<1>18. ASSUME NEW p \in Range(queue)
       PROVE  p \in Range(w)
  <2>1. PICK i \in 1..a : queue[i] = p
    BY <1>9 DEF Range
  <2>2. i \in DOMAIN w /\ w[i] = p
    BY <1>4, <1>9, <1>10, <2>1
  <2> QED BY <2>2 DEF Range
<1>19. ASSUME NEW p \in A
       PROVE  p \in Range(w)
  <2>1. PICK i \in 1..b : order[i] = p
    BY <1>7
  <2>2. a + i \in 1..(a + b) /\ ~(a + i <= a) /\ (a + i) - a = i
    BY <1>4, <1>9, <2>1
  <2>3. a + i \in DOMAIN w /\ w[a + i] = p
    BY <1>10, <2>1, <2>2
  <2> QED BY <2>3 DEF Range
<1>20. ASSUME NEW p \in Range(w)
       PROVE  p \in Range(queue) \/ p \in A
  BY <1>10, <1>15 DEF Range
<1> QED BY <1>10, <1>11, <1>12, <1>13, <1>17, <1>18, <1>19, <1>20

\* A snapshot taken now can be restored, and holds what there is.
LEMMA SnapshotTaken ==
    ASSUME Inv, NEW s \in Snapshots
    PROVE  SnapshotOK(s) /\ Reflects(s)
<1>1. PICK A : A = {p \in DOMAIN entries :
                      entries[p].allocating /\ ~entries[p].cancelRequested}
  OBVIOUS
<1>2. PICK order \in Injection(1..Cardinality(A), A) :
        s = [queued |-> [i \in DOMAIN (queue \o order) |->
                           [player |-> (queue \o order)[i],
                            queuedAt |-> entries[(queue \o order)[i]].queuedAt]],
             matched |-> Records]
  BY <1>1 DEF Snapshots, Records
<1>3. PICK w : w = queue \o order
  OBVIOUS
<1>4. /\ w \in Seq(Player) /\ IsInjective(w)
      /\ \A p : p \in Range(w) <=>
           /\ p \in DOMAIN entries /\ entries[p].state = "queued"
           /\ ~entries[p].cancelRequested
  BY <1>1, <1>3, SnapshotOrder
<1>5. PICK n \in Nat : DOMAIN w = 1..n
  BY <1>4
<1>6. /\ s.queued = [i \in 1..n |-> [player |-> w[i],
                                     queuedAt |-> entries[w[i]].queuedAt]]
      /\ s.matched = Records
  BY <1>2, <1>3, <1>5
<1>7. \A i \in 1..n : /\ w[i] \in Player /\ w[i] \in DOMAIN entries
                      /\ entries[w[i]].state = "queued"
                      /\ ~entries[w[i]].cancelRequested
  BY <1>4, <1>5 DEF Range
<1>8. \A p \in DOMAIN entries : entries[p] \in EntryType
  BY DEF Inv, TypeInv, EntriesOK
<1>9. /\ s.queued \in Seq(LineType) /\ DOMAIN s.queued = 1..n
      /\ \A i \in 1..n : /\ s.queued[i].player = w[i]
                         /\ s.queued[i] = [player |-> w[i],
                                           queuedAt |-> entries[w[i]].queuedAt]
  <2>1. \A i \in 1..n : entries[w[i]].queuedAt \in Int
    BY <1>7, <1>8 DEF EntryType
  <2>2. s.queued \in [1..n -> LineType]
    BY <1>6, <1>7, <2>1 DEF LineType
  <2>3. s.queued \in Seq(LineType)
    BY <1>5, <2>2, SeqDef
  <2> QED BY <1>6, <2>3
<1>10. ASSUME NEW i \in DOMAIN s.queued
       PROVE  \E p \in DOMAIN entries :
                s.queued[i].player = p /\ entries[p].state = "queued"
  <2>1. i \in 1..n /\ s.queued[i].player = w[i]
    BY <1>9
  <2> QED BY <1>7, <2>1
<1>11. ASSUME NEW m \in s.matched
       PROVE  \E p \in DOMAIN entries :
                /\ entries[p].state = "matched" /\ MatchOK(p)
                /\ m = [match |-> entries[p].match, room |-> entries[p].room,
                        group |-> entries[p].group, stamp |-> entries[p].stamp]
  BY <1>6 DEF Records, Inv, EntryInv
<1>12. s.matched \subseteq RecordType
  <2>1. ASSUME NEW m \in s.matched
        PROVE  m \in RecordType
    <3>1. PICK p \in DOMAIN entries :
            m = [match |-> entries[p].match, room |-> entries[p].room,
                 group |-> entries[p].group, stamp |-> entries[p].stamp]
      BY <1>11
    <3> QED BY <1>8, <3>1 DEF EntryType, RecordType
  <2> QED BY <2>1
<1>13. ASSUME NEW m \in s.matched
       PROVE  /\ m.match <= matches
              /\ m.room \in DOMAIN created /\ created[m.room] = m.group
              /\ \A q \in Range(m.group) :
                   /\ q \in DOMAIN entries /\ entries[q].state = "matched"
                   /\ m = [match |-> entries[q].match, room |-> entries[q].room,
                           group |-> entries[q].group, stamp |-> entries[q].stamp]
  <2>1. PICK p \in DOMAIN entries :
          /\ entries[p].state = "matched" /\ MatchOK(p)
          /\ m = [match |-> entries[p].match, room |-> entries[p].room,
                  group |-> entries[p].group, stamp |-> entries[p].stamp]
    BY <1>11
  <2>2. entries[p].match <= matches
    BY DEF Inv, EntryInv
  <2> QED BY <2>1, <2>2 DEF MatchOK
<1>14. IsFiniteSet(Covered(s))
  <2>1. ASSUME NEW p \in Covered(s)
        PROVE  p \in DOMAIN entries
    <3>1. CASE \E i \in DOMAIN s.queued : p = s.queued[i].player
      BY <1>10, <3>1
    <3>2. CASE \E m \in s.matched : p \in Range(m.group)
      BY <1>13, <3>2
    <3> QED BY <3>1, <3>2 DEF Covered
  <2>2. IsFiniteSet(DOMAIN entries) /\ Covered(s) \subseteq DOMAIN entries
    BY <2>1 DEF Inv, TypeInv, EntriesOK
  <2> QED BY <2>2, FS_Subset
<1>15. \A i, j \in DOMAIN s.queued :
         s.queued[i].player = s.queued[j].player => i = j
  BY <1>4, <1>5, <1>9 DEF IsInjective
<1>16. ASSUME NEW m \in s.matched, NEW i \in DOMAIN s.queued
       PROVE  s.queued[i].player \notin Range(m.group)
  <2>1. entries[s.queued[i].player].state = "queued"
    BY <1>10
  <2>2. \A q \in Range(m.group) : entries[q].state = "matched"
    BY <1>13
  <2> QED BY <2>1, <2>2
<1>17. ASSUME NEW m \in s.matched, NEW k \in s.matched,
              Range(m.group) \cap Range(k.group) # {}
       PROVE  m = k
  <2>1. PICK q : q \in Range(m.group) /\ q \in Range(k.group)
    BY <1>17
  <2> QED BY <1>13, <2>1
<1>18. SnapshotOK(s)
  BY <1>9, <1>12, <1>13, <1>14, <1>15, <1>16, <1>17 DEF SnapshotOK
<1>19. Range(s.queued) = Lines
  <2>1. ASSUME NEW e \in Range(s.queued)
        PROVE  e \in Lines
    <3>1. PICK i \in 1..n : e = s.queued[i]
      BY <1>9 DEF Range
    <3> QED BY <1>7, <1>9, <3>1 DEF Lines
  <2>2. ASSUME NEW e \in Lines
        PROVE  e \in Range(s.queued)
    <3>1. PICK p \in DOMAIN entries :
            /\ entries[p].state = "queued" /\ ~entries[p].cancelRequested
            /\ e = [player |-> p, queuedAt |-> entries[p].queuedAt]
      BY DEF Lines
    <3>2. PICK i \in 1..n : p = w[i]
      BY <1>4, <1>5, <3>1 DEF Range
    <3>3. i \in DOMAIN s.queued /\ s.queued[i] = e
      BY <1>9, <3>1, <3>2
    <3> QED BY <3>3 DEF Range
  <2> QED BY <2>1, <2>2
<1> QED BY <1>6, <1>18, <1>19 DEF Reflects

-----------------------------------------------------------------------------
(* The main thread.                                                        *)

\* Nothing the requests work on changes.
LEMMA MainFrame ==
    ASSUME Inv, UNCHANGED <<now, entries, queue, retry_pairing, allocation_queue,
                            room, call>>,
           dirty' \in BOOLEAN, unsaved' \in BOOLEAN, main' \in Mains
    PROVE  /\ TypeInv' /\ CallInv' /\ EntryInv' /\ QueueInv' /\ HandInv' /\ RoomInv'
<1>1. matches' = matches /\ created' = created /\ matches \in Int
  BY DEF room, Inv, TypeInv
<1>2. TypeInv' /\ QueueInv' /\ RoomInv'
  BY <1>1 DEF Inv, TypeInv, EntriesOK, QueueInv, QueueOK, Queued, RoomInv, IsPair
<1>3. EntryInv'
  BY <1>1 DEF Inv, EntryInv, MatchOK
<1>4. CallInv'
  BY <1>1 DEF Inv, CallInv, CallOK
<1>5. HandInv'
  <2>1. \A s \in Thread : /\ Hand(s)' = Hand(s)
                          /\ call'[s].pc = "commit" <=> call[s].pc = "commit"
    BY DEF Hand
  <2> QED BY <1>1, <2>1, HandKept DEF Inv
<1> QED BY <1>2, <1>3, <1>4, <1>5

\* Snapshots stay readable where rooms do not change.
LEMMA SnapshotsKept ==
    ASSUME Inv, UNCHANGED room
    PROVE  \A s : SnapshotOK(s) => SnapshotOK(s)'
BY DEF room, SnapshotOK, Covered

\* What is readable is so in Redis.
LEMMA StoredOK ==
    ASSUME NEW s, SnapshotOK(s)', stored' = s
    PROVE  SnapshotOK(stored)'
BY DEF SnapshotOK, Covered

\* What a snapshot reflects depends on the clock and the entries only.
LEMMA ReflectsKept ==
    ASSUME UNCHANGED <<now, entries>>
    PROVE  \A s : Reflects(s) => Reflects(s)'
BY DEF Reflects, Fresh, Kept, Lines, Records

\* The snapshot is taken.
LEMMA TakeInv ==
    ASSUME Inv, TakeSnapshot, flush = {}, Up, main' \in Mains \ {"down"},
           UNCHANGED <<now, entries, queue, retry_pairing, allocation_queue,
                       room, call, stored, late, unsaved>>
    PROVE  Inv'
<1>1. PICK s \in Snapshots : flush' = (IF dirty THEN {s} ELSE {}) /\ dirty' = FALSE
  BY DEF TakeSnapshot
<1>2. SnapshotOK(s) /\ Reflects(s)
  BY SnapshotTaken
<1>3. SnapshotOK(s)' /\ Reflects(s)'
  BY <1>2, SnapshotsKept, ReflectsKept
<1>4. /\ TypeInv' /\ CallInv' /\ EntryInv' /\ QueueInv' /\ HandInv' /\ RoomInv'
  <2>1. dirty' \in BOOLEAN /\ unsaved' \in BOOLEAN /\ main' \in Mains
    BY <1>1 DEF Inv, TypeInv
  <2> QED BY <2>1, MainFrame
<1>5. PICK d : d = stored
  OBVIOUS
<1>6. SnapshotOK(d)'
  BY <1>5, SnapshotsKept DEF Inv, SnapshotInv
<1>7. SnapshotOK(stored)'
  BY <1>5, <1>6, ZenonT(60) DEF SnapshotOK, Covered
<1>8. SnapshotInv'
  <2>1. \A f \in late : SnapshotOK(f)'
    BY SnapshotsKept DEF Inv, SnapshotInv
  <2> QED BY <1>1, <1>3, <1>7, <2>1 DEF SnapshotInv
<1>9. DownInv'
  BY DEF DownInv, Up
<1>10. CurrentInv'
  <2>1. CASE dirty
    <3>1. flush' = {s} /\ flush' # {}
      BY <1>1, <2>1
    <3> QED BY <1>3, <3>1 DEF CurrentInv
  <2>2. CASE ~dirty
    <3>1. flush' = {}
      BY <1>1, <2>2
    <3>2. (HasStore /\ \A r \in Thread : ~Unmarked(call[r])) =>
            unsaved \/ Reflects(stored)
      BY <2>2 DEF Inv, CurrentInv
    <3>3. Reflects(stored) => Reflects(d)'
      BY <1>5, ReflectsKept
    <3>4. Reflects(d)' => Reflects(stored)'
      BY <1>5 DEF Reflects, Fresh, Kept, Lines, Records
    <3> QED BY <3>1, <3>2, <3>3, <3>4 DEF CurrentInv, Unmarked
  <2> QED BY <2>1, <2>2
<1> QED BY <1>4, <1>8, <1>9, <1>10 DEF Inv

\* SaveSnapshot.
LEMMA SaveInv ==
    ASSUME Inv, SaveSnapshot
    PROVE  Inv'
<1>1. PICK s \in flush : flush = {s}
  BY DEF SaveSnapshot, Inv, SnapshotInv
<1>2. PICK d : d = stored
  OBVIOUS
<1>3. SnapshotOK(s)' /\ SnapshotOK(d)'
  BY <1>2, SnapshotsKept DEF SaveSnapshot, Inv, SnapshotInv
<1>4. /\ flush' = {} /\ main' = main /\ Up /\ late' \subseteq late \cup {s}
      /\ \/ stored' = s /\ unsaved' \in BOOLEAN
         \/ stored' = d /\ unsaved' = TRUE
  BY <1>1, <1>2 DEF SaveSnapshot, Send
<1>5. /\ TypeInv' /\ CallInv' /\ EntryInv' /\ QueueInv' /\ HandInv' /\ RoomInv'
  <2>1. dirty' \in BOOLEAN /\ unsaved' \in BOOLEAN /\ main' \in Mains
    BY <1>4 DEF SaveSnapshot, memory, Inv, TypeInv
  <2> QED BY <2>1, MainFrame DEF SaveSnapshot, memory
<1>6. SnapshotInv'
  <2>1. SnapshotOK(stored)'
    BY <1>3, <1>4, StoredOK
  <2>2. \A f \in late : SnapshotOK(f)'
    BY SnapshotsKept DEF SaveSnapshot, Inv, SnapshotInv
  <2>3. \A f \in late' : SnapshotOK(f)'
    BY <1>3, <1>4, <2>2
  <2> QED BY <1>4, <2>1, <2>3 DEF SnapshotInv
<1>7. DownInv'
  BY <1>4 DEF DownInv, Up
<1>8. CurrentInv'
  <2>1. (HasStore /\ ~dirty /\ \A r \in Thread : ~Unmarked(call[r])) => Reflects(s)
    BY <1>1, <1>4 DEF Inv, CurrentInv
  <2>2. Reflects(s) => Reflects(s)'
    BY ReflectsKept DEF SaveSnapshot, memory
  <2>3. stored' = s /\ Reflects(s)' => Reflects(stored)'
    BY DEF Reflects, Fresh, Kept, Lines, Records
  <2> QED BY <1>4, <2>1, <2>2, <2>3 DEF CurrentInv, Unmarked, SaveSnapshot, memory
<1> QED BY <1>5, <1>6, <1>7, <1>8 DEF Inv

\* LateSave: what Redis stores late is readable, and nobody takes it for the
\* latest.
LEMMA LateInv ==
    ASSUME Inv, LateSave
    PROVE  Inv'
<1>1. PICK s \in late : stored' = s /\ late' = late \ {s}
  BY DEF LateSave
<1>2. /\ unsaved' = TRUE
      /\ UNCHANGED <<now, memory, room, call, main, flush, restarts>>
  BY DEF LateSave
<1>3. /\ TypeInv' /\ CallInv' /\ EntryInv' /\ QueueInv' /\ HandInv' /\ RoomInv'
  <2>1. dirty' \in BOOLEAN /\ unsaved' \in BOOLEAN /\ main' \in Mains
    BY <1>2 DEF memory, Inv, TypeInv
  <2> QED BY <1>2, <2>1, MainFrame DEF memory
<1>4. SnapshotInv'
  <2>1. /\ \A f \in flush : SnapshotOK(f)'
        /\ \A f \in late : SnapshotOK(f)'
    BY <1>2, SnapshotsKept DEF Inv, SnapshotInv
  <2>2. SnapshotOK(stored)'
    BY <1>1, <2>1, StoredOK
  <2> QED BY <1>1, <1>2, <2>1, <2>2 DEF Inv, SnapshotInv
<1>5. DownInv'
  BY <1>2 DEF Inv, DownInv, Up, memory
<1>6. CurrentInv'
  <2>1. \A f : Reflects(f) => Reflects(f)'
    BY <1>2, ReflectsKept DEF memory
  <2> QED BY <1>2, <2>1 DEF Inv, CurrentInv, Up, Unmarked, memory
<1> QED BY <1>3, <1>4, <1>5, <1>6 DEF Inv

\* BeginShutdown.
LEMMA ShutdownInv ==
    ASSUME Inv, BeginShutdown
    PROVE  Inv'
<1>1. /\ TypeInv' /\ CallInv' /\ EntryInv' /\ QueueInv' /\ HandInv' /\ RoomInv'
  <2>1. dirty' \in BOOLEAN /\ unsaved' \in BOOLEAN /\ main' \in Mains
    BY DEF BeginShutdown, memory, Inv, TypeInv, Mains
  <2> QED BY <2>1, MainFrame DEF BeginShutdown, memory
<1>2. SnapshotInv'
  BY ZenonT(60) DEF BeginShutdown, room, Inv, SnapshotInv, SnapshotOK, Covered
<1>3. DownInv'
  BY DEF BeginShutdown, DownInv, Up
<1>4. CurrentInv'
  <2>1. Up /\ Up'
    BY DEF BeginShutdown, Up
  <2> QED BY <2>1 DEF BeginShutdown, memory, Inv, CurrentInv, Unmarked, Reflects,
                      Fresh, Kept, Lines, Records
<1> QED BY <1>1, <1>2, <1>3, <1>4 DEF Inv

\* Tick and FinalFlush.
LEMMA TickInv ==
    ASSUME Inv, Tick \/ FinalFlush
    PROVE  Inv'
<1>1. CASE Tick
  <2>1. Up /\ main' \in Mains \ {"down"}
    BY <1>1 DEF Tick, Up, Mains
  <2> QED BY <1>1, <2>1, TakeInv DEF Tick
<1>2. CASE FinalFlush
  <2>1. Up /\ main' \in Mains \ {"down"}
    BY <1>2 DEF FinalFlush, Up, Mains
  <2> QED BY <1>2, <2>1, TakeInv DEF FinalFlush
<1> QED BY <1>1, <1>2

\* An empty memory: no entry, no queue, no request.
LEMMA NothingOK ==
    /\ EntriesOK(<<>>) /\ QueueOK(<<>>, <<>>)
<1>1. DOMAIN <<>> = {} /\ IsFiniteSet({})
  BY FS_EmptySet
<1>2. EntriesOK(<<>>)
  BY <1>1 DEF EntriesOK
<1>3. <<>> \in Seq(Player) /\ Range(<<>>) = {} /\ IsInjective(<<>>)
  BY <1>1, EmptySeq DEF Range, IsInjective
<1> QED BY <1>1, <1>2, <1>3 DEF QueueOK, Queued

\* The process ends, or dies.
LEMMA ForgetInv ==
    ASSUME Inv, Forget, UNCHANGED <<now, room, stored, late, restarts>>
    PROVE  Inv'
<1>1. /\ entries' = <<>> /\ queue' = <<>> /\ flush' = {} /\ main' = "down"
      /\ matches' = matches /\ created' = created /\ stored' = stored
      /\ call' = [r \in Thread |-> Idle] /\ dirty' = FALSE
  BY DEF Forget, room
<1>2. DOMAIN <<>> = {}
  OBVIOUS
<1>3. TypeInv'
  <2>1. EntriesOK(entries')
    BY <1>1, NothingOK
  <2> QED BY <1>1, <2>1 DEF Forget, Inv, TypeInv, EntriesOK, Mains
<1>4. CallInv'
  BY <1>1 DEF CallInv, CallOK, Idle, Pcs
<1>5. EntryInv'
  BY <1>1, <1>2 DEF EntryInv
<1>6. QueueInv'
  BY <1>1, NothingOK DEF QueueInv, QueueOK, Queued
<1>7. HandInv'
  <2>1. \A r \in Thread : Hand(r)' = <<>>
    BY <1>1 DEF Hand, Idle, Holding
  <2> QED BY <1>1, <1>2, <2>1 DEF HandInv
<1>8. RoomInv'
  BY <1>1 DEF Inv, RoomInv, IsPair
<1>9. SnapshotInv'
  <2>1. SnapshotOK(stored)
    BY DEF Inv, SnapshotInv
  <2>2. SnapshotOK(stored)'
    BY <1>1, <2>1 DEF SnapshotOK, Covered
  <2>3. \A f \in late : SnapshotOK(f)'
    BY SnapshotsKept DEF Inv, SnapshotInv
  <2> QED BY <1>1, <2>2, <2>3 DEF SnapshotInv
<1>10. DownInv' /\ CurrentInv'
  BY <1>1 DEF DownInv, CurrentInv, Up
<1> QED BY <1>3, <1>4, <1>5, <1>6, <1>7, <1>8, <1>9, <1>10 DEF Inv

\* The start with an empty Redis.
LEMMA InitInv ==
    Init => Inv
<1> SUFFICES ASSUME Init
             PROVE  Inv
  OBVIOUS
<1>1. DOMAIN <<>> = {}
  OBVIOUS
<1>2. TypeInv
  <2>1. EntriesOK(entries)
    BY NothingOK DEF Init
  <2>2. now \in Nat /\ matches \in 0..MaxMatches
    BY MatchAssumption DEF Init
  <2> QED BY <2>1, <2>2 DEF Init, TypeInv, Mains
<1>3. CallInv
  BY DEF Init, CallInv, CallOK, Idle, Pcs
<1>4. EntryInv /\ RoomInv
  BY <1>1 DEF Init, EntryInv, RoomInv
<1>5. QueueInv
  BY NothingOK DEF Init, QueueInv
<1>6. HandInv
  <2>1. \A r \in Thread : Hand(r) = <<>>
    BY DEF Init, Hand, Idle, Holding
  <2> QED BY <1>1, <2>1 DEF Init, HandInv
<1>7. SnapshotOK(Empty)
  <2>1. /\ Empty.queued \in Seq(LineType) /\ DOMAIN Empty.queued = {}
        /\ Empty.matched = {}
    BY EmptySeq DEF Empty
  <2>2. Covered(Empty) = {}
    BY <2>1 DEF Covered
  <2>3. IsFiniteSet(Covered(Empty))
    BY <2>2, FS_EmptySet
  <2> QED BY <2>1, <2>3 DEF SnapshotOK
<1>8. SnapshotInv /\ DownInv
  BY <1>7 DEF Init, SnapshotInv, DownInv, Up
<1>9. CurrentInv
  <2>1. Range(Empty.queued) = {} /\ Empty.matched = {}
    BY <1>1 DEF Empty, Range
  <2>2. Lines = {} /\ Records = {}
    BY <1>1 DEF Init, Lines, Records
  <2>3. Reflects(stored)
    BY <2>1, <2>2 DEF Init, Reflects
  <2> QED BY <2>3 DEF Init, CurrentInv
<1> QED BY <1>2, <1>3, <1>4, <1>5, <1>6, <1>8, <1>9 DEF Inv

\* ClockAdvances: what is fresh or kept only gets less, in the snapshot as in
\* memory.
LEMMA ClockInv ==
    ASSUME Inv, ClockAdvances
    PROVE  Inv'
<1>1. /\ now \in Nat /\ now' = now + 1 /\ matches' = matches /\ created' = created
      /\ UNCHANGED <<entries, queue, retry_pairing, allocation_queue, dirty, call,
                     main, flush, stored, late, unsaved>>
      /\ matches \in Int
  BY DEF ClockAdvances, memory, room, Inv, TypeInv
<1>2. TypeInv' /\ QueueInv' /\ RoomInv' /\ EntryInv'
  BY <1>1 DEF Inv, TypeInv, EntriesOK, QueueInv, QueueOK, Queued, RoomInv, IsPair,
              EntryInv, MatchOK
<1>3. CallInv'
  <2>1. ASSUME NEW r \in Thread
        PROVE  CallOK(call[r])'
    <3>1. CallOK(call[r])
      BY DEF Inv, CallInv
    <3> QED BY <1>1, <3>1 DEF CallOK
  <2> QED BY <1>1, <2>1 DEF Inv, CallInv
<1>4. HandInv'
  <2>1. \A s \in Thread : /\ Hand(s)' = Hand(s)
                          /\ call'[s].pc = "commit" <=> call[s].pc = "commit"
    BY <1>1 DEF Hand
  <2> QED BY <1>1, <2>1, HandKept DEF Inv
<1>5. SnapshotInv' /\ DownInv'
  BY <1>1, ZenonT(60) DEF Inv, SnapshotInv, SnapshotOK, Covered, DownInv, Up
<1>6. ASSUME NEW s, SnapshotOK(s), Reflects(s)
      PROVE  Reflects(s)'
  <2>1. \A p \in DOMAIN entries : entries[p].queuedAt \in Int /\ entries[p].stamp \in Int
    BY DEF Inv, TypeInv, EntriesOK, EntryType
  <2>2. PICK A : A = Range(s.queued)
    OBVIOUS
  <2>3. PICK B : B = Lines
    OBVIOUS
  <2>4. \A e \in A : e.queuedAt \in Int
    <3>1. PICK q \in Seq(LineType) : q = s.queued
      BY <1>6 DEF SnapshotOK
    <3>2. \A i \in DOMAIN q : q[i] \in LineType
      BY <3>1
    <3> QED BY <2>2, <3>1, <3>2 DEF LineType, Range
  <2>5. \A e \in B : e.queuedAt \in Int
    BY <2>1, <2>3 DEF Lines
  <2>6. PICK C : C = s.matched
    OBVIOUS
  <2>7. PICK D : D = Records
    OBVIOUS
  <2>8. \A m \in C : m.stamp \in Int
    BY <1>6, <2>6 DEF SnapshotOK, RecordType
  <2>9. \A m \in D : m.stamp \in Int
    BY <2>1, <2>7 DEF Records
  <2>10. {e \in A : now - e.queuedAt < match_timeout_ms}
           = {e \in B : now - e.queuedAt < match_timeout_ms}
    BY <1>6, <2>2, <2>3 DEF Reflects, Fresh
  <2>11. {m \in C : now - m.stamp < result_ttl_ms}
           = {m \in D : now - m.stamp < result_ttl_ms}
    BY <1>6, <2>6, <2>7 DEF Reflects, Kept
  <2>12. {e \in A : now' - e.queuedAt < match_timeout_ms}
           = {e \in B : now' - e.queuedAt < match_timeout_ms}
    BY <1>1, <2>4, <2>5, <2>10, MatchAssumption
  <2>13. {m \in C : now' - m.stamp < result_ttl_ms}
           = {m \in D : now' - m.stamp < result_ttl_ms}
    BY <1>1, <2>8, <2>9, <2>11, MatchAssumption
  <2>14. Lines' = B /\ Records' = D
    BY <1>1, <2>3, <2>7 DEF Lines, Records
  <2>15. Fresh(Range(s.queued))' = Fresh(Lines)'
    BY <2>2, <2>12, <2>14 DEF Fresh
  <2>16. Kept(s.matched)' = Kept(Records)'
    BY <2>6, <2>13, <2>14 DEF Kept
  <2> QED BY <2>15, <2>16 DEF Reflects
<1>7. CurrentInv'
  <2>1. PICK d : d = stored
    OBVIOUS
  <2>2. Reflects(stored) => Reflects(d)'
    BY <1>6, <2>1 DEF Inv, SnapshotInv
  <2>3. Reflects(d)' => Reflects(stored)'
    BY <1>1, <2>1 DEF Reflects, Fresh, Kept, Lines, Records
  <2>4. \A s \in flush : Reflects(s) => Reflects(s)'
    BY <1>6 DEF Inv, SnapshotInv
  <2> QED BY <1>1, <2>2, <2>3, <2>4 DEF Inv, CurrentInv, Up, Unmarked
<1> QED BY <1>2, <1>3, <1>4, <1>5, <1>7 DEF Inv

-----------------------------------------------------------------------------
(* Restore.  Nobody is named twice in a snapshot, so that the branches of  *)
(* the code that drop duplicates are never taken.                          *)

\* The queue restored: the lines still fresh, each player once.
QueueRead(q) ==
    /\ q \in Seq(LineType)
    /\ \A k, l \in DOMAIN q : q[k].player = q[l].player => k = l
    /\ \A e : e \in Range(q) <=> e \in Fresh(Range(stored.queued))

\* Restore's sort drops no line that is still fresh.
LEMMA RestoredQueueOK ==
    ASSUME Inv, NEW q, q = RestoredQueue
    PROVE  QueueRead(q)
<1>1. PICK s \in Seq(LineType) : s = stored.queued
  BY DEF Inv, SnapshotInv, SnapshotOK
<1>2. \A i, j \in DOMAIN s : s[i].player = s[j].player => i = j
  BY <1>1 DEF Inv, SnapshotInv, SnapshotOK
<1>3. PICK which : which = {i \in DOMAIN s : now - s[i].queuedAt < match_timeout_ms}
  OBVIOUS
<1>4. PICK key : key = [i \in DOMAIN s |-> s[i].queuedAt]
  OBVIOUS
<1>5. which \in SUBSET DOMAIN s /\ key \in [DOMAIN s -> Int]
  <2>1. \A i \in DOMAIN s : s[i] \in LineType
    OBVIOUS
  <2>2. \A i \in DOMAIN s : s[i].queuedAt \in Int
    BY <2>1 DEF LineType
  <2> QED BY <1>3, <1>4, <2>2
<1>6. q = Arranged(s, which, key)
  BY <1>1, <1>3, <1>4 DEF RestoredQueue
<1>7. q \in Seq(LineType) /\ Chooses(q, s, which)
  BY <1>5, <1>6, ArrangedOK
<1>8. PICK place \in [DOMAIN q -> which] :
        /\ \A k \in DOMAIN q : q[k] = s[place[k]]
        /\ \A k, l \in DOMAIN q : place[k] = place[l] => k = l
        /\ \A i \in which : \E k \in DOMAIN q : place[k] = i
  BY <1>7 DEF Chooses
<1>9. \A k \in DOMAIN q : place[k] \in DOMAIN s /\ place[k] \in which
  BY <1>3, <1>8
<1>10. \A k, l \in DOMAIN q : q[k].player = q[l].player => k = l
  BY <1>2, <1>8, <1>9
<1>11. ASSUME NEW e \in Range(q)
       PROVE  e \in Fresh(Range(s))
  <2>1. PICK k \in DOMAIN q : e = q[k]
    BY DEF Range
  <2>2. PICK i \in which : e = s[i]
    BY <1>8, <1>9, <2>1
  <2> QED BY <1>3, <2>2 DEF Fresh, Range
<1>12. ASSUME NEW e \in Fresh(Range(s))
       PROVE  e \in Range(q)
  <2>1. PICK i \in DOMAIN s : e = s[i] /\ now - s[i].queuedAt < match_timeout_ms
    BY DEF Fresh, Range
  <2>2. i \in which
    BY <1>3, <2>1
  <2>3. PICK k \in DOMAIN q : place[k] = i
    BY <1>8, <2>2
  <2>4. q[k] = e
    BY <1>8, <2>1, <2>3
  <2> QED BY <2>4 DEF Range
<1> QED BY <1>1, <1>7, <1>10, <1>11, <1>12 DEF QueueRead

\* The matches restored: each player has the result of his match.
MatchesRead(f) ==
    /\ \A p \in DOMAIN f : \E m \in Kept(stored.matched) : p \in Range(m.group)
    /\ \A m \in Kept(stored.matched) : \A p \in Range(m.group) :
         /\ p \in DOMAIN f /\ f[p] \in EntryType /\ f[p].state = "matched"
         /\ f[p].match = m.match /\ f[p].room = m.room
         /\ f[p].group = m.group /\ f[p].stamp = m.stamp
         /\ ~f[p].allocating /\ ~f[p].cancelRequested

\* Restore gives every member of a kept match the same result.
LEMMA RestoredMatchedOK ==
    ASSUME Inv, NEW f, f = RestoredMatched
    PROVE  MatchesRead(f)
<1>1. PICK K : K = Kept(stored.matched)
  OBVIOUS
<1>2. /\ \A m \in K : m \in RecordType /\ m \in stored.matched
      /\ \A m, n \in K : Range(m.group) \cap Range(n.group) # {} => m = n
  BY <1>1 DEF Kept, Inv, SnapshotInv, SnapshotOK
<1>3. PICK D : D = UNION {Range(m.group) : m \in K}
  OBVIOUS
<1>4. \A p : p \in D <=> \E m \in K : p \in Range(m.group)
  BY <1>3
<1>5. f = [p \in D |->
            [NewEntry(0) EXCEPT
               !.state = "matched",
               !.stamp = (CHOOSE m \in K : p \in Range(m.group)).stamp,
               !.match = (CHOOSE m \in K : p \in Range(m.group)).match,
               !.room = (CHOOSE m \in K : p \in Range(m.group)).room,
               !.group = (CHOOSE m \in K : p \in Range(m.group)).group]]
  BY <1>1, <1>3 DEF RestoredMatched, Kept
<1>6. ASSUME NEW m \in K, NEW p \in Range(m.group)
      PROVE  /\ p \in DOMAIN f /\ f[p] \in EntryType /\ f[p].state = "matched"
             /\ f[p].match = m.match /\ f[p].room = m.room
             /\ f[p].group = m.group /\ f[p].stamp = m.stamp
             /\ ~f[p].allocating /\ ~f[p].cancelRequested
  <2>1. p \in D
    BY <1>4
  <2>2. PICK c : c = CHOOSE n \in K : p \in Range(n.group)
    OBVIOUS
  <2>3. c \in K /\ p \in Range(c.group)
    BY <2>2
  <2>4. c = m
    BY <1>2, <2>3
  <2>5. PICK e : e = NewEntry(0)
    OBVIOUS
  <2>6. f[p] = [e EXCEPT !.state = "matched", !.stamp = m.stamp,
                         !.match = m.match, !.room = m.room, !.group = m.group]
    <3>1. f[p] = [e EXCEPT !.state = "matched", !.stamp = c.stamp,
                           !.match = c.match, !.room = c.room, !.group = c.group]
      BY <1>5, <2>1, <2>2, <2>5, Zenon
    <3> QED BY <2>4, <3>1
  <2>7. e \in EntryType /\ ~e.allocating /\ ~e.cancelRequested
    <3>1. <<>> \in Seq(Player)
      BY EmptySeq
    <3> QED BY <2>5, <3>1 DEF NewEntry, EntryType, NoRoom
  <2>8. PICK st \in Int, mt \in Nat, rm \in Nat, gr \in Seq(Player) :
          st = m.stamp /\ mt = m.match /\ rm = m.room /\ gr = m.group
    BY <1>2 DEF RecordType
  <2>9. PICK h : h = [e EXCEPT !.state = "matched", !.stamp = st, !.match = mt,
                               !.room = rm, !.group = gr]
    OBVIOUS
  <2>10. /\ h \in EntryType /\ h.state = "matched" /\ h.match = mt /\ h.room = rm
         /\ h.group = gr /\ h.stamp = st /\ ~h.allocating /\ ~h.cancelRequested
    BY <2>7, <2>9 DEF EntryType
  <2>11. f[p] = h
    BY <2>6, <2>8, <2>9
  <2> QED BY <1>5, <2>1, <2>8, <2>10, <2>11
<1>7. \A p \in DOMAIN f : \E m \in K : p \in Range(m.group)
  BY <1>4, <1>5
<1> QED BY <1>1, <1>6, <1>7 DEF MatchesRead

\* What Restore makes of the two.
Restored(q, f, players, es) ==
    /\ EntriesOK(es) /\ QueueOK(es, players)
    /\ \A p \in DOMAIN es :
         /\ ~es[p].allocating /\ ~es[p].cancelRequested /\ es[p].match <= matches
         /\ \/ es[p].state = "matched" /\ p \in DOMAIN f
            \/ /\ es[p].state = "queued"
               /\ [player |-> p, queuedAt |-> es[p].queuedAt] \in Range(q)
    /\ \A p \in DOMAIN f : p \in DOMAIN es /\ es[p] = f[p] /\ f[p].state = "matched"
    /\ \A e \in Range(q) :
         /\ e.player \in DOMAIN es /\ es[e.player].state = "queued"
         /\ e = [player |-> e.player, queuedAt |-> es[e.player].queuedAt]

\* A new entry waits.
LEMMA NewEntryOK ==
    ASSUME NEW t \in Int, NEW e, e = NewEntry(t)
    PROVE  /\ e \in EntryType /\ e.state = "queued" /\ e.queuedAt = t
           /\ e.match = 0 /\ ~e.allocating /\ ~e.cancelRequested
<1>1. <<>> \in Seq(Player)
  BY EmptySeq
<1> QED BY <1>1 DEF NewEntry, EntryType, NoRoom

\* A restored state has everybody once, waiting or with his result.
LEMMA RestoredOK ==
    ASSUME Inv, NEW q, QueueRead(q), NEW f, MatchesRead(f),
           NEW players, players = [i \in DOMAIN q |-> q[i].player],
           NEW es, es = With(f, [p \in Range(players) |->
               NewEntry((CHOOSE e \in Range(q) : e.player = p).queuedAt)])
    PROVE  Restored(q, f, players, es)
<1>1. SnapshotOK(stored)
  BY DEF Inv, SnapshotInv
<1>2. /\ q \in Seq(LineType)
      /\ \A k, l \in DOMAIN q : q[k].player = q[l].player => k = l
      /\ \A e : e \in Range(q) <=> e \in Fresh(Range(stored.queued))
  BY DEF QueueRead
<1>3. PICK n \in Nat : DOMAIN q = 1..n /\ \A k \in 1..n : q[k] \in LineType
  BY <1>2
<1>4. players \in Seq(Player) /\ DOMAIN players = 1..n
  <2>1. \A k \in 1..n : q[k].player \in Player
    BY <1>3 DEF LineType
  <2>2. players \in [1..n -> Player]
    BY <1>3, <2>1
  <2> QED BY <1>3, <2>2, SeqDef
<1>5. IsInjective(players)
  BY <1>2, <1>3, <1>4 DEF IsInjective
<1>6. PICK R : R = Range(players)
  OBVIOUS
<1>7. \A p : p \in R <=> \E k \in 1..n : p = q[k].player
  BY <1>3, <1>4, <1>6 DEF Range
<1>8. PICK g : g = [p \in R |-> NewEntry((CHOOSE e \in Range(q) : e.player = p).queuedAt)]
  OBVIOUS
<1>9. ASSUME NEW k \in 1..n
      PROVE  /\ q[k].player \in R /\ q[k] \in Range(q)
             /\ g[q[k].player] = NewEntry(q[k].queuedAt)
  <2>1. q[k].player \in R /\ q[k] \in Range(q)
    BY <1>3, <1>7 DEF Range
  <2>2. ASSUME NEW e \in Range(q), e.player = q[k].player
        PROVE  e = q[k]
    <3>1. PICK l \in 1..n : e = q[l]
      BY <1>3 DEF Range
    <3> QED BY <1>2, <1>3, <2>2, <3>1
  <2>3. (CHOOSE e \in Range(q) : e.player = q[k].player) = q[k]
    BY <2>1, <2>2
  <2> QED BY <1>8, <2>1, <2>3
<1>10. /\ DOMAIN es = DOMAIN f \cup R
       /\ \A p \in DOMAIN es : es[p] = IF p \in R THEN g[p] ELSE f[p]
       /\ es = [p \in DOMAIN es |-> es[p]]
  BY <1>6, <1>8 DEF With
<1>11. ASSUME NEW p \in DOMAIN f
       PROVE  /\ p \notin R /\ p \in Player /\ p \in Covered(stored)
              /\ f[p] \in EntryType /\ f[p].state = "matched" /\ f[p].match <= matches
              /\ ~f[p].allocating /\ ~f[p].cancelRequested
  <2>1. PICK m \in Kept(stored.matched) : p \in Range(m.group)
    BY DEF MatchesRead
  <2>2. m \in stored.matched /\ m \in RecordType
    BY <1>1, <2>1 DEF Kept, SnapshotOK
  <2>3. p \in Player
    <3>1. m.group \in Seq(Player)
      BY <2>2 DEF RecordType
    <3> QED BY <2>1, <3>1 DEF Range
  <2>4. p \in Covered(stored)
    BY <2>1, <2>2 DEF Covered
  <2>5. ASSUME p \in R
        PROVE  FALSE
    <3>1. PICK k \in 1..n : p = q[k].player
      BY <1>7, <2>5
    <3>2. q[k] \in Range(stored.queued)
      BY <1>2, <1>9 DEF Fresh
    <3>3. PICK i \in DOMAIN stored.queued : q[k] = stored.queued[i]
      BY <3>2 DEF Range
    <3> QED BY <1>1, <2>1, <2>2, <3>1, <3>3 DEF SnapshotOK
  <2>6. /\ f[p] \in EntryType /\ f[p].state = "matched" /\ f[p].match = m.match
        /\ ~f[p].allocating /\ ~f[p].cancelRequested
    BY <2>1 DEF MatchesRead
  <2>7. m.match <= matches
    BY <1>1, <2>2 DEF SnapshotOK
  <2> QED BY <2>3, <2>4, <2>5, <2>6, <2>7
<1>12. ASSUME NEW k \in 1..n, NEW p, p = q[k].player
       PROVE  /\ p \in DOMAIN es /\ p \in Player /\ p \in Covered(stored)
              /\ es[p] \in EntryType /\ es[p].state = "queued"
              /\ es[p].match = 0 /\ ~es[p].allocating
              /\ ~es[p].cancelRequested
              /\ q[k] = [player |-> p, queuedAt |-> es[p].queuedAt]
  <2>1. PICK t \in Int : /\ p \in Player /\ t = q[k].queuedAt
                         /\ q[k] = [player |-> p, queuedAt |-> t]
    BY <1>3, <1>12 DEF LineType
  <2>2. p \in DOMAIN es /\ es[p] = NewEntry(t)
    BY <1>9, <1>10, <1>12, <2>1
  <2>3. /\ es[p] \in EntryType /\ es[p].state = "queued" /\ es[p].queuedAt = t
        /\ es[p].match = 0 /\ ~es[p].allocating /\ ~es[p].cancelRequested
    <3>1. PICK e : e = es[p]
      OBVIOUS
    <3> QED BY <2>2, <3>1, NewEntryOK
  <2>4. p \in Covered(stored)
    <3>1. q[k] \in Range(stored.queued)
      BY <1>2, <1>9 DEF Fresh
    <3>2. PICK i \in DOMAIN stored.queued : q[k] = stored.queued[i]
      BY <3>1 DEF Range
    <3> QED BY <1>12, <3>2 DEF Covered
  <2> QED BY <2>1, <2>2, <2>3, <2>4
<1>13. ASSUME NEW p \in DOMAIN es
       PROVE  \/ p \in DOMAIN f /\ es[p] = f[p]
              \/ \E k \in 1..n : p = q[k].player
  BY <1>7, <1>10
<1>14. \A p \in DOMAIN f : p \in DOMAIN es /\ es[p] = f[p]
  BY <1>10, <1>11
<1>15. EntriesOK(es)
  <2>1. ASSUME NEW p \in DOMAIN es
        PROVE  p \in Player /\ p \in Covered(stored) /\ es[p] \in EntryType
    <3>1. CASE p \in DOMAIN f
      BY <1>11, <1>14, <3>1
    <3>2. CASE p \notin DOMAIN f
      <4>1. PICK k \in 1..n : p = q[k].player
        BY <1>13, <3>2
      <4> QED BY <1>12, <4>1
    <3> QED BY <3>1, <3>2
  <2>2. IsFiniteSet(DOMAIN es)
    BY <1>1, <2>1, FS_Subset DEF SnapshotOK
  <2> QED BY <1>10, <2>1, <2>2 DEF EntriesOK
<1>16. QueueOK(es, players)
  <2>1. ASSUME NEW p \in Player
        PROVE  p \in R <=> Queued(es, p)
    <3>1. CASE p \in R
      <4>1. PICK k \in 1..n : p = q[k].player
        BY <1>7, <3>1
      <4> QED BY <1>12, <3>1, <4>1 DEF Queued
    <3>2. CASE p \notin R
      BY <1>7, <1>11, <1>13, <3>2 DEF Queued
    <3> QED BY <3>1, <3>2
  <2> QED BY <1>4, <1>5, <1>6, <2>1 DEF QueueOK
<1>17. ASSUME NEW p \in DOMAIN es
       PROVE  /\ ~es[p].allocating /\ ~es[p].cancelRequested /\ es[p].match <= matches
              /\ \/ es[p].state = "matched" /\ p \in DOMAIN f
                 \/ /\ es[p].state = "queued"
                    /\ [player |-> p, queuedAt |-> es[p].queuedAt] \in Range(q)
  <2>1. CASE p \in DOMAIN f
    BY <1>11, <1>14, <2>1
  <2>2. CASE p \notin DOMAIN f
    <3>1. PICK k \in 1..n : p = q[k].player
      BY <1>13, <2>2
    <3>2. matches >= 0
      BY DEF Inv, TypeInv
    <3>3. q[k] = [player |-> p, queuedAt |-> es[p].queuedAt]
      BY <1>12, <3>1
    <3> QED BY <1>9, <1>12, <3>1, <3>2, <3>3
  <2> QED BY <2>1, <2>2
<1>18. ASSUME NEW e \in Range(q)
       PROVE  /\ e.player \in DOMAIN es /\ es[e.player].state = "queued"
              /\ e = [player |-> e.player, queuedAt |-> es[e.player].queuedAt]
  <2>1. PICK k \in 1..n : e = q[k]
    BY <1>3 DEF Range
  <2> QED BY <1>12, <2>1
<1> QED BY <1>11, <1>14, <1>15, <1>16, <1>17, <1>18 DEF Restored

\* The start of the process, whatever was restored.
LEMMA RestartFrame ==
    ASSUME Inv, Restart
    PROVE  /\ ~Up /\ entries = <<>> /\ queue = <<>> /\ flush = {} /\ ~dirty
           /\ \A r \in Thread : call[r] = Idle /\ call'[r] = Idle /\ Hand(r)' = <<>>
           /\ now' = now /\ matches' = matches /\ created' = created
           /\ flush' = {} /\ stored' = stored /\ main' = "serving"
           /\ CallInv' /\ RoomInv' /\ SnapshotInv' /\ DownInv'
           /\ TypeInv' <=> EntriesOK(entries')
<1>1. /\ ~Up /\ entries = <<>> /\ queue = <<>> /\ flush = {} /\ ~dirty
      /\ \A r \in Thread : call[r] = Idle
  BY DEF Restart, Inv, DownInv
<1>2. /\ now' = now /\ matches' = matches /\ created' = created
      /\ flush' = flush /\ stored' = stored /\ main' = "serving" /\ call' = call
      /\ retry_pairing' = retry_pairing /\ dirty' = dirty
      /\ allocation_queue' = allocation_queue /\ unsaved' \in BOOLEAN
  BY DEF Restart, room
<1>3. \A r \in Thread : Hand(r)' = <<>>
  BY <1>1, <1>2 DEF Hand, Idle, Holding
<1>4. CallInv'
  BY <1>1, <1>2 DEF Inv, CallInv, CallOK, Idle, Pcs
<1>5. RoomInv'
  BY <1>2 DEF Inv, RoomInv, IsPair
<1>6. SnapshotInv'
  <2>1. SnapshotOK(stored)
    BY DEF Inv, SnapshotInv
  <2>2. SnapshotOK(stored)'
    BY <1>2, <2>1 DEF SnapshotOK, Covered
  <2>3. \A f \in late : SnapshotOK(f)'
    BY SnapshotsKept DEF Restart, Inv, SnapshotInv
  <2>4. late' = late
    BY DEF Restart
  <2> QED BY <1>1, <1>2, <2>2, <2>3, <2>4 DEF SnapshotInv
<1>7. DownInv'
  BY <1>2 DEF DownInv, Up
<1>8. TypeInv' <=> EntriesOK(entries')
  BY <1>2 DEF Inv, TypeInv, EntriesOK, Mains
<1> QED BY <1>1, <1>2, <1>3, <1>4, <1>5, <1>6, <1>7, <1>8

\* Every member of a restored match has its result.
LEMMA RestoredMatchOK ==
    ASSUME Inv, Restart, NEW q, NEW f, NEW players,
           MatchesRead(f), Restored(q, f, players, entries'),
           NEW p \in DOMAIN entries', entries'[p].state = "matched"
    PROVE  MatchOK(p)'
<1>1. created' = created
  BY RestartFrame
<1>2. PICK es : es = entries'
  OBVIOUS
<1>3. p \in DOMAIN f /\ \A x \in DOMAIN f : x \in DOMAIN es /\ es[x] = f[x]
  BY <1>2 DEF Restored
<1>4. PICK m \in Kept(stored.matched) : p \in Range(m.group)
  BY <1>3 DEF MatchesRead
<1>5. m.room \in DOMAIN created /\ created[m.room] = m.group
  BY <1>4 DEF Kept, Inv, SnapshotInv, SnapshotOK
<1>6. ASSUME NEW x \in Range(m.group)
      PROVE  /\ x \in DOMAIN es /\ es[x].state = "matched" /\ es[x].match = m.match
             /\ es[x].room = m.room /\ es[x].group = m.group /\ es[x].stamp = m.stamp
  BY <1>3 DEF MatchesRead
<1>7. /\ es[p].match = m.match /\ es[p].room = m.room /\ es[p].group = m.group
      /\ es[p].stamp = m.stamp
  BY <1>4, <1>6
<1> QED BY <1>1, <1>2, <1>4, <1>5, <1>6, <1>7 DEF MatchOK

\* The restored state is what the snapshot holds.
LEMMA RestoredReflects ==
    ASSUME Inv, Restart, NEW q, NEW f, NEW players,
           QueueRead(q), MatchesRead(f), Restored(q, f, players, entries')
    PROVE  Reflects(stored)'
<1>1. now' = now /\ stored' = stored
  BY RestartFrame
<1>2. PICK es : es = entries'
  OBVIOUS
<1>3. /\ \A p \in DOMAIN es :
           /\ ~es[p].cancelRequested
           /\ \/ es[p].state = "matched" /\ p \in DOMAIN f
              \/ /\ es[p].state = "queued"
                 /\ [player |-> p, queuedAt |-> es[p].queuedAt] \in Range(q)
      /\ \A p \in DOMAIN f : p \in DOMAIN es /\ es[p] = f[p] /\ f[p].state = "matched"
      /\ \A e \in Range(q) :
           /\ e.player \in DOMAIN es /\ es[e.player].state = "queued"
           /\ e = [player |-> e.player, queuedAt |-> es[e.player].queuedAt]
  BY <1>2 DEF Restored
<1>4. Lines' = {[player |-> p, queuedAt |-> es[p].queuedAt] :
                  p \in {x \in DOMAIN es : es[x].state = "queued"
                                           /\ ~es[x].cancelRequested}}
  BY <1>2 DEF Lines
<1>5. Records' = {[match |-> es[p].match, room |-> es[p].room,
                   group |-> es[p].group, stamp |-> es[p].stamp] :
                     p \in {x \in DOMAIN es : es[x].state = "matched"}}
  BY <1>2 DEF Records
<1>6. \A e : e \in Lines' <=> e \in Range(q)
  <2>1. ASSUME NEW e \in Lines'
        PROVE  e \in Range(q)
    <3>1. PICK p \in DOMAIN es : /\ es[p].state = "queued"
                                 /\ e = [player |-> p, queuedAt |-> es[p].queuedAt]
      BY <1>4
    <3> QED BY <1>3, <3>1
  <2>2. ASSUME NEW e \in Range(q)
        PROVE  e \in Lines'
    BY <1>3, <1>4
  <2> QED BY <2>1, <2>2
<1>7. \A e : e \in Range(q) <=> e \in Fresh(Range(stored.queued))
  BY DEF QueueRead
<1>8. Fresh(Range(stored.queued))' = Fresh(Lines)'
  BY <1>1, <1>6, <1>7 DEF Fresh, Range
<1>9. PICK K : K = Kept(stored.matched)
  OBVIOUS
<1>10. ASSUME NEW m \in K
       PROVE  m \in Records'
  <2>1. m \in RecordType /\ m.room \in DOMAIN created /\ created[m.room] = m.group
    BY <1>9 DEF Kept, Inv, SnapshotInv, SnapshotOK
  <2>2. IsPair(m.group)
    BY <2>1 DEF Inv, RoomInv
  <2>3. PICK p : p \in Range(m.group)
    <3>1. 1 \in DOMAIN m.group
      BY <2>2 DEF IsPair, kPlayersPerMatch
    <3> QED BY <3>1 DEF Range
  <2>4. /\ p \in DOMAIN f /\ f[p].match = m.match /\ f[p].room = m.room
        /\ f[p].group = m.group /\ f[p].stamp = m.stamp
    BY <1>9, <2>3 DEF MatchesRead
  <2>5. p \in DOMAIN es /\ es[p] = f[p] /\ es[p].state = "matched"
    BY <1>3, <2>4
  <2>6. m = [match |-> es[p].match, room |-> es[p].room,
             group |-> es[p].group, stamp |-> es[p].stamp]
    BY <2>1, <2>4, <2>5 DEF RecordType
  <2> QED BY <1>5, <2>5, <2>6
<1>11. ASSUME NEW m \in Records'
       PROVE  m \in K
  <2>1. PICK p \in DOMAIN es : /\ es[p].state = "matched"
                               /\ m = [match |-> es[p].match, room |-> es[p].room,
                                       group |-> es[p].group, stamp |-> es[p].stamp]
    BY <1>5
  <2>2. p \in DOMAIN f /\ es[p] = f[p]
    BY <1>3, <2>1
  <2>3. PICK n \in K : p \in Range(n.group)
    BY <1>9, <2>2 DEF MatchesRead
  <2>4. /\ f[p].match = n.match /\ f[p].room = n.room
        /\ f[p].group = n.group /\ f[p].stamp = n.stamp
    BY <1>9, <2>3 DEF MatchesRead
  <2>5. n \in RecordType
    BY <1>9 DEF Kept, Inv, SnapshotInv, SnapshotOK
  <2>6. m = n
    BY <2>1, <2>2, <2>4, <2>5 DEF RecordType
  <2> QED BY <2>6
<1>12. Kept(stored.matched)' = Kept(Records)'
  <2>1. Records' = K
    BY <1>10, <1>11
  <2>2. \A m \in K : now - m.stamp < result_ttl_ms
    BY <1>9 DEF Kept
  <2> QED BY <1>1, <1>9, <2>1, <2>2 DEF Kept
<1> QED BY <1>8, <1>12 DEF Reflects

\* The start of the process, with or without its snapshot.
LEMMA RestartInv ==
    ASSUME Inv, Restart
    PROVE  Inv'
<1>1. CASE UNCHANGED <<entries, queue>> /\ unsaved' = TRUE
  <2>1. entries' = <<>> /\ queue' = <<>> /\ unsaved' /\ flush' = {} /\ DOMAIN <<>> = {}
    BY <1>1, RestartFrame
  <2>2. TypeInv'
    BY <2>1, RestartFrame, NothingOK
  <2>3. QueueInv'
    BY <2>1, NothingOK DEF QueueInv, QueueOK, Queued
  <2>4. EntryInv'
    BY <2>1 DEF EntryInv
  <2>5. HandInv'
    BY <2>1, RestartFrame DEF HandInv
  <2>6. CurrentInv'
    BY <2>1 DEF CurrentInv
  <2> QED BY <2>2, <2>3, <2>4, <2>5, <2>6, RestartFrame DEF Inv
<1>2. CASE ~(UNCHANGED <<entries, queue>> /\ unsaved' = TRUE)
  <2>1. PICK q : q = RestoredQueue
    OBVIOUS
  <2>2. PICK f : f = RestoredMatched
    OBVIOUS
  <2>3. QueueRead(q) /\ MatchesRead(f)
    BY <2>1, <2>2, RestoredQueueOK, RestoredMatchedOK
  <2>4. /\ queue' = [i \in DOMAIN q |-> q[i].player]
        /\ entries' = With(f, [p \in Range(queue') |->
               NewEntry((CHOOSE e \in Range(q) : e.player = p).queuedAt)])
    BY <1>2, <2>1, <2>2 DEF Restart
  <2>5. PICK players : players = queue'
    OBVIOUS
  <2>6. PICK es : es = entries'
    OBVIOUS
  <2>7. Restored(q, f, players, es)
    BY <2>3, <2>4, <2>5, <2>6, RestoredOK
  <2>8. TypeInv'
    BY <2>6, <2>7, RestartFrame DEF Restored
  <2>9. QueueInv'
    BY <2>5, <2>6, <2>7 DEF Restored, QueueInv, QueueOK, Queued
  <2>10. EntryInv'
    <3>1. ASSUME NEW p \in DOMAIN entries'
          PROVE  /\ entries'[p].match <= matches' /\ ~entries'[p].allocating
                 /\ ~entries'[p].cancelRequested
      BY <2>6, <2>7, RestartFrame DEF Restored
    <3>2. ASSUME NEW p \in DOMAIN entries', entries'[p].state = "matched"
          PROVE  MatchOK(p)'
      BY <2>3, <2>6, <2>7, <3>2, RestoredMatchOK
    <3> QED BY <3>1, <3>2 DEF EntryInv
  <2>11. HandInv'
    <3>1. \A p \in DOMAIN entries' : ~entries'[p].allocating
      BY <2>6, <2>7 DEF Restored
    <3>2. DOMAIN <<>> = {}
      OBVIOUS
    <3> QED BY <3>1, <3>2, RestartFrame DEF HandInv
  <2>12. CurrentInv'
    <3>1. Reflects(stored)'
      BY <2>3, <2>6, <2>7, RestoredReflects
    <3> QED BY <3>1, RestartFrame DEF CurrentInv
  <2> QED BY <2>8, <2>9, <2>10, <2>11, <2>12, RestartFrame DEF Inv
<1> QED BY <1>1, <1>2

-----------------------------------------------------------------------------
(* Every step.                                                             *)

\* What a step of a running process does to the matches: none is lost before
\* its time, and one may be made.
Serving ==
    /\ \A m \in DOMAIN created : m \in DOMAIN created' /\ created'[m] = created[m]
    /\ \/ \E at \in Int : at <= now /\ Turns(entries', queue', at)
       \/ KeepsMatches
       \/ \E m \in DOMAIN created : MakesMatch(m)

\* A step that leaves entries and rooms alone.
LEMMA StillServing ==
    ASSUME UNCHANGED <<entries, created>>
    PROVE  Serving
BY DEF Serving, KeepsMatches, IsMatched

\* A lock section that turns the entries.
LEMMA TurnsServing ==
    ASSUME NEW at \in Int, at <= now, Turns(entries', queue', at), created' = created
    PROVE  Serving
BY DEF Serving

\* A step of a request thread.
LEMMA ThreadStep ==
    ASSUME Inv, NEW r \in Thread, Step(r)
    PROVE  Inv' /\ Serving
<1>1. CASE Insert(r)
  <2>1. CallOK(call[r]) /\ call[r].pc # "idle"
    BY <1>1 DEF Insert, Inv, CallInv
  <2>2. call[r].at \in Int /\ call[r].at <= now /\ created' = created
    BY <1>1, <2>1 DEF CallOK, Insert, room
  <2>3. Inv' /\ Turns(entries', queue', call[r].at)
    BY <1>1, InsertInv
  <2> QED BY <2>2, <2>3, TurnsServing
<1>2. CASE Pair(r)
  <2>1. created' = created
    BY <1>2 DEF Pair
  <2> QED BY <1>2, <2>1, PairInv DEF Serving
<1>3. CASE Allocate(r)
  <2>1. Inv' /\ Grows
    BY <1>3, AllocateInv
  <2>2. entries' = entries
    BY <1>3 DEF Allocate, memory
  <2> QED BY <2>1, <2>2 DEF Serving, Grows, KeepsMatches, IsMatched
<1>4. CASE Commit(r)
  <2>1. PICK g : g = Head(call[r].groups)
    OBVIOUS
  <2>2. created' = created
    BY <1>4 DEF Commit, room
  <2>3. CASE call[r].room # NoRoom /\ Cancelled(g) = {}
    <3>1. Inv' /\ MakesMatch(g.match)
      BY <1>4, <2>1, <2>3, CommitMatch
    <3>2. g.match \in DOMAIN created
      BY <3>1 DEF MakesMatch
    <3> QED BY <2>2, <3>1, <3>2 DEF Serving
  <2>4. CASE ~(call[r].room # NoRoom /\ Cancelled(g) = {})
    BY <1>4, <2>1, <2>2, <2>4, CommitNoMatch DEF Serving
  <2> QED BY <2>3, <2>4
<1>5. CASE PollStatus(r)
  <2>1. CallOK(call[r]) /\ call[r].pc # "idle"
    BY <1>5 DEF PollStatus, Inv, CallInv
  <2>2. call[r].at \in Int /\ call[r].at <= now /\ created' = created
    BY <1>5, <2>1 DEF CallOK, PollStatus, StatusSection, room
  <2>3. Inv' /\ Turns(entries', queue', call[r].at)
    BY <1>5, PollStatusInv
  <2> QED BY <2>2, <2>3, TurnsServing
<1>6. CASE RetryPairingIfNeeded(r)
  <2>1. UNCHANGED <<entries, created>>
    BY <1>6 DEF RetryPairingIfNeeded, room
  <2> QED BY <1>6, <2>1, StillServing, RetryInv
<1>7. CASE MarkSnapshotDirty(r)
  <2>1. UNCHANGED <<entries, created>>
    BY <1>7 DEF MarkSnapshotDirty, room
  <2> QED BY <1>7, <2>1, StillServing, MarkInv
<1> QED BY <1>1, <1>2, <1>3, <1>4, <1>5, <1>6, <1>7 DEF Step

\* A new request.
LEMMA NewRequest ==
    ASSUME Inv, NEW r \in Thread,
           GetStatus(r) \/ \E p \in Player : Enqueue(r, p) \/ Cancel(r, p)
    PROVE  Inv' /\ Serving
<1>1. now \in Int /\ now <= now
  BY DEF Inv, TypeInv
<1>2. CASE GetStatus(r)
  <2>1. created' = created
    BY <1>2 DEF GetStatus, StatusSection, room
  <2> QED BY <1>1, <1>2, <2>1, GetStatusInv, TurnsServing
<1>3. ASSUME NEW p \in Player, Enqueue(r, p)
      PROVE  Inv' /\ Serving
  <2>1. UNCHANGED <<entries, created>>
    BY <1>3 DEF Enqueue, memory, room
  <2> QED BY <1>3, <2>1, StillServing, EnqueueInv
<1>4. ASSUME NEW p \in Player, Cancel(r, p)
      PROVE  Inv' /\ Serving
  <2>1. created' = created
    BY <1>4 DEF Cancel, room
  <2> QED BY <1>1, <1>4, <2>1, CancelInv, TurnsServing
<1> QED BY <1>2, <1>3, <1>4

\* A step of the main thread while the process runs, or of the clock.
LEMMA MainStep ==
    ASSUME Inv,
           \/ Tick \/ SaveSnapshot \/ LateSave \/ BeginShutdown
           \/ FinalFlush \/ ClockAdvances
    PROVE  Inv' /\ Serving
<1>1. UNCHANGED <<entries, created>>
  BY DEF Tick, SaveSnapshot, LateSave, BeginShutdown, FinalFlush, ClockAdvances,
         memory, room
<1> QED BY <1>1, StillServing, TickInv, SaveInv, LateInv, ShutdownInv, ClockInv

\* The process ends.
Ending == Forget /\ UNCHANGED <<now, room, stored, late, restarts>>

\* Every step keeps the invariant, and is of one of three kinds.
LEMMA StepKinds ==
    ASSUME Inv, [Next]_vars
    PROVE  Inv' /\ (Serving \/ Ending \/ Restart)
<1>1. CASE \E r \in Thread :
             \/ \E p \in Player : Enqueue(r, p) \/ Cancel(r, p)
             \/ GetStatus(r) \/ Step(r)
  BY <1>1, NewRequest, ThreadStep
<1>2. CASE \/ Tick \/ SaveSnapshot \/ LateSave \/ BeginShutdown
           \/ FinalFlush \/ ClockAdvances
  BY <1>2, MainStep
<1>3. CASE Exit \/ Crash
  <2>1. Ending
    BY <1>3 DEF Exit, Crash, Ending
  <2>2. Inv'
    BY <2>1, ForgetInv DEF Ending
  <2> QED BY <2>1, <2>2
<1>4. CASE Restart
  BY <1>4, RestartInv
<1>5. CASE UNCHANGED vars
  <2>1. UNCHANGED <<now, entries, queue, retry_pairing, allocation_queue, dirty,
                    matches, created, call, main, flush, stored, late, unsaved>>
    BY <1>5 DEF vars, memory, room
  <2>2. Serving
    BY <2>1, StillServing
  <2>3. /\ TypeInv' /\ CallInv' /\ EntryInv' /\ QueueInv' /\ RoomInv'
        /\ SnapshotInv' /\ DownInv'
    <3>1. TypeInv' /\ CallInv'
      BY <2>1 DEF Inv, TypeInv, EntriesOK, CallInv, CallOK
    <3>2. EntryInv' /\ RoomInv' /\ DownInv'
      BY <2>1 DEF Inv, EntryInv, MatchOK, RoomInv, IsPair, DownInv, Up
    <3>3. QueueInv'
      BY <2>1 DEF Inv, QueueInv, QueueOK, Queued
    <3>4. SnapshotInv'
      BY <2>1, ZenonT(60) DEF Inv, SnapshotInv, SnapshotOK, Covered
    <3> QED BY <3>1, <3>2, <3>3, <3>4
  <2>4. HandInv'
    <3>1. matches \in Int
      BY DEF Inv, TypeInv
    <3>2. \A s \in Thread : /\ Hand(s)' = Hand(s)
                            /\ call'[s].pc = "commit" <=> call[s].pc = "commit"
      BY <2>1 DEF Hand
    <3> QED BY <2>1, <3>1, <3>2, HandKept DEF Inv
  <2>5. CurrentInv'
    BY <2>1 DEF Inv, CurrentInv, Up, Unmarked, Reflects, Fresh, Kept, Lines, Records
  <2> QED BY <2>2, <2>3, <2>4, <2>5 DEF Inv
<1> QED BY <1>1, <1>2, <1>3, <1>4, <1>5 DEF Next

-----------------------------------------------------------------------------
(* The theorems.                                                           *)

\* The invariant holds of requests, allocation, snapshots, crashes and
\* restores in any order (match_queue.cpp, match_main.cpp).
THEOREM Invariance == Spec => []Inv
<1>1. Init => Inv
  BY InitInv
<1>2. Inv /\ [Next]_vars => Inv'
  BY StepKinds
<1> QED BY <1>1, <1>2, PTL DEF Spec

\* Type correctness: every entry is in one of the three states the queue
\* writes, with a match id that was drawn, and at most one snapshot is on its
\* way to Redis.
THEOREM TypeCorrect == Spec => []TypeOK
<1>1. Inv => TypeOK
  <2> SUFFICES ASSUME Inv
               PROVE  TypeOK
    OBVIOUS
  <2>1. Cardinality(flush) <= 1
    <3>1. CASE flush = {}
      BY <3>1, FS_EmptySet
    <3>2. CASE \E s \in flush : flush = {s}
      BY <3>2, FS_Singleton
    <3> QED BY <3>1, <3>2 DEF Inv, SnapshotInv
  <2>2. matches \in 0..MaxMatches /\ matches \in Nat
    BY MatchAssumption DEF Inv, TypeInv
  <2>3. ASSUME NEW p \in DOMAIN entries
        PROVE  /\ entries[p].state \in {"queued", "matched", "timeout"}
               /\ entries[p].match \in 0..matches
    <3>1. entries[p] \in EntryType /\ entries[p].match <= matches
      BY DEF Inv, TypeInv, EntriesOK, EntryInv
    <3> QED BY <2>2, <3>1 DEF EntryType
  <2> QED BY <2>1, <2>2, <2>3 DEF TypeOK, Inv, TypeInv, EntriesOK, QueueInv, QueueOK
<1> QED BY <1>1, Invariance, PTL

\* Only the request threads hold groups.
LEMMA GroupsInFlight ==
    ASSUME Inv, NEW g
    PROVE  g \in InFlight <=> \E r \in Thread : \E k \in DOMAIN Hand(r) : g = Hand(r)[k]
<1>1. Range(allocation_queue) = {}
  <2>1. allocation_queue = <<>> /\ DOMAIN <<>> = {}
    BY DEF Inv, TypeInv
  <2> QED BY <2>1 DEF Range
<1>2. ASSUME g \in InFlight
      PROVE  \E r \in Thread : \E k \in DOMAIN Hand(r) : g = Hand(r)[k]
  <2>1. PICK r \in Thread : call[r].pc \in Holding /\ g \in Range(call[r].groups)
    BY <1>1, <1>2 DEF InFlight, Holding
  <2>2. PICK k \in DOMAIN call[r].groups : g = call[r].groups[k]
    BY <2>1 DEF Range
  <2>3. Hand(r) = call[r].groups
    BY <2>1 DEF Hand
  <2> QED BY <2>2, <2>3
<1>3. ASSUME NEW r \in Thread, NEW k \in DOMAIN Hand(r), g = Hand(r)[k]
      PROVE  g \in InFlight
  <2>1. call[r].pc \in Holding
    <3>1. DOMAIN <<>> = {}
      OBVIOUS
    <3> QED BY <3>1 DEF Hand
  <2>2. Hand(r) = call[r].groups
    BY <2>1 DEF Hand
  <2>3. g \in Range(call[r].groups)
    BY <1>3, <2>2 DEF Range
  <2> QED BY <2>1, <2>3 DEF InFlight, Holding
<1> QED BY <1>2, <1>3

\* A player is in one place only (match_queue.hpp, decision 2): once in the
\* queue, or in the one group under way that his entry names.
THEOREM OnePlace == Spec => []OnePlacePerPlayer
<1>1. Inv => OnePlacePerPlayer
  <2> SUFFICES ASSUME Inv
               PROVE  OnePlacePerPlayer
    OBVIOUS
  <2>1. /\ IsInjective(queue) /\ queue \in Seq(Player)
        /\ \A p \in Player : p \in Range(queue) <=> Queued(entries, p)
    BY DEF Inv, QueueInv, QueueOK
  <2>2. Range(queue) = {p \in DOMAIN entries :
                          entries[p].state = "queued" /\ ~entries[p].allocating}
    <3>1. \A p \in Range(queue) : p \in Player
      BY <2>1 DEF Range
    <3>2. \A p \in DOMAIN entries : p \in Player
      BY DEF Inv, TypeInv, EntriesOK
    <3> QED BY <2>1, <3>1, <3>2 DEF Queued
  <2>3. ASSUME NEW p \in Player, NEW g \in InFlight, p \in Range(g.players)
        PROVE  p \in DOMAIN entries /\ entries[p].allocating /\ g.match = entries[p].match
    <3>1. PICK r \in Thread : \E k \in DOMAIN Hand(r) : g = Hand(r)[k]
      BY GroupsInFlight
    <3>2. PICK k \in DOMAIN Hand(r) : g = Hand(r)[k]
      BY <3>1
    <3>3. GroupOK(r, k)
      BY DEF Inv, HandInv
    <3> QED BY <2>3, <3>2, <3>3 DEF GroupOK
  <2>4. ASSUME NEW p \in DOMAIN entries, entries[p].allocating
        PROVE  \E g \in InFlight : p \in Range(g.players)
    <3>1. PICK r \in Thread : \E k \in DOMAIN Hand(r) : p \in Range(Hand(r)[k].players)
      BY <2>4 DEF Inv, HandInv
    <3>2. PICK k \in DOMAIN Hand(r) : p \in Range(Hand(r)[k].players)
      BY <3>1
    <3>3. PICK g : g = Hand(r)[k]
      OBVIOUS
    <3>4. g \in InFlight
      BY <3>3, GroupsInFlight
    <3> QED BY <3>2, <3>3, <3>4
  <2>5. ASSUME NEW p \in Player
        PROVE  {g.match : g \in {x \in InFlight : p \in Range(x.players)}} =
                  IF p \in DOMAIN entries /\ entries[p].allocating
                  THEN {entries[p].match} ELSE {}
    <3>1. CASE p \in DOMAIN entries /\ entries[p].allocating
      <4>1. PICK g \in InFlight : p \in Range(g.players)
        BY <2>4, <3>1
      <4> QED BY <2>3, <3>1, <4>1
    <3>2. CASE ~(p \in DOMAIN entries /\ entries[p].allocating)
      BY <2>3, <3>2
    <3> QED BY <3>1, <3>2
  <2> QED BY <2>1, <2>2, <2>5 DEF OnePlacePerPlayer
<1> QED BY <1>1, Invariance, PTL

\* The allocation worker never gets a group: RunPairingRound hands groups over
\* only when the worker is busy, and it is busy only when it has one.
THEOREM WorkerIdle == Spec => []WorkerIsIdle
<1>1. Inv => WorkerIsIdle
  BY DEF Inv, TypeInv, WorkerIsIdle
<1> QED BY <1>1, Invariance, PTL

\* A match once made is not taken away or changed by any request until its
\* result_ttl_ms is over, whatever time a slow request was given.
THEOREM KeptMatches == Spec => MatchIsKept
<1>1. ASSUME Inv, [Next]_vars, NEW p \in DOMAIN entries,
             entries[p].state = "matched", main' # "down"
      PROVE  \/ p \in DOMAIN entries' /\ entries'[p] = entries[p]
             \/ now - entries[p].stamp >= result_ttl_ms
  <2>1. Serving \/ Ending \/ Restart
    BY <1>1, StepKinds
  <2>2. CASE Ending
    BY <1>1, <2>2 DEF Ending, Forget
  <2>3. CASE Restart
    <3>1. entries = <<>> /\ DOMAIN <<>> = {}
      BY <1>1, <2>3 DEF Restart, Inv, DownInv
    <3> QED BY <3>1
  <2>4. ASSUME NEW at \in Int, at <= now, Turns(entries', queue', at)
        PROVE  \/ p \in DOMAIN entries' /\ entries'[p] = entries[p]
               \/ now - entries[p].stamp >= result_ttl_ms
    <3>1. entries[p].stamp \in Int /\ now \in Int /\ result_ttl_ms \in Int
      BY <1>1, MatchAssumption DEF Inv, TypeInv, EntriesOK, EntryType
    <3>2. IF at - entries[p].stamp >= result_ttl_ms
          THEN p \in DOMAIN entries' => entries'[p].state # "matched"
          ELSE p \in DOMAIN entries' /\ entries'[p] = entries[p]
      BY <1>1, <2>4 DEF Turns
    <3> QED BY <2>4, <3>1, <3>2
  <2>5. ASSUME KeepsMatches
        PROVE  p \in DOMAIN entries' /\ entries'[p] = entries[p]
    BY <1>1, <2>5 DEF KeepsMatches, IsMatched
  <2>6. ASSUME NEW m \in DOMAIN created, MakesMatch(m)
        PROVE  p \in DOMAIN entries' /\ entries'[p] = entries[p]
    <3>1. p \notin Range(created[m])
      BY <1>1, <2>6 DEF MakesMatch
    <3> QED BY <1>1, <2>6, <3>1 DEF MakesMatch, IsMatched
  <2>7. CASE Serving
    BY <2>4, <2>5, <2>6, <2>7 DEF Serving
  <2> QED BY <2>1, <2>2, <2>3, <2>7
<1>2. Inv /\ [Next]_vars =>
        [\A p \in DOMAIN entries :
            entries[p].state = "matched" /\ main' # "down" =>
                \/ p \in DOMAIN entries' /\ entries'[p] = entries[p]
                \/ now - entries[p].stamp >= result_ttl_ms]_vars
  BY <1>1
<1> QED BY <1>2, Invariance, PTL DEF Spec, MatchIsKept

\* When nothing is under way, the snapshot in Redis reflects the memory and
\* nobody's room is being allocated.
LEMMA AtRest ==
    ASSUME Inv, HasStore, Up, ~dirty, flush = {}, ~unsaved,
           \A r \in Thread : call[r] = Idle
    PROVE  /\ Reflects(stored)
           /\ \A p \in DOMAIN entries : ~entries[p].allocating /\ ~entries[p].cancelRequested
<1>1. \A r \in Thread : Hand(r) = <<>> /\ ~Unmarked(call[r])
  BY DEF Hand, Idle, Holding, Unmarked
<1>2. Reflects(stored)
  BY <1>1 DEF Inv, CurrentInv
<1>3. DOMAIN <<>> = {}
  OBVIOUS
<1>4. \A p \in DOMAIN entries : ~entries[p].allocating
  BY <1>1, <1>3 DEF Inv, HandInv
<1> QED BY <1>2, <1>4 DEF Inv, EntryInv

\* What Restore would make of it: the queue.
LEMMA QueueIsCurrent ==
    ASSUME Inv, Reflects(stored),
           \A p \in DOMAIN entries : ~entries[p].allocating /\ ~entries[p].cancelRequested,
           NEW fresh, fresh = {p \in Range(queue) :
                                 now - entries[p].queuedAt < match_timeout_ms}
    PROVE  Range(RestoredQueue) =
              {[player |-> p, queuedAt |-> entries[p].queuedAt] : p \in fresh}
<1>1. PICK q : q = RestoredQueue
  OBVIOUS
<1>2. \A e : e \in Range(q) <=> e \in Fresh(Range(stored.queued))
  BY <1>1, RestoredQueueOK DEF QueueRead
<1>3. Fresh(Range(stored.queued)) = Fresh(Lines)
  BY DEF Reflects
<1>4. \A p : p \in Range(queue) <=> p \in DOMAIN entries /\ entries[p].state = "queued"
  <2>1. \A p \in Range(queue) : p \in Player
    BY DEF Inv, QueueInv, QueueOK, Range
  <2>2. \A p \in DOMAIN entries : p \in Player
    BY DEF Inv, TypeInv, EntriesOK
  <2> QED BY <2>1, <2>2 DEF Inv, QueueInv, QueueOK, Queued
<1>5. ASSUME NEW e \in Fresh(Lines)
      PROVE  \E p \in fresh : e = [player |-> p, queuedAt |-> entries[p].queuedAt]
  <2>1. PICK p \in DOMAIN entries :
          /\ entries[p].state = "queued"
          /\ e = [player |-> p, queuedAt |-> entries[p].queuedAt]
    BY DEF Fresh, Lines
  <2>2. now - e.queuedAt < match_timeout_ms /\ e.queuedAt = entries[p].queuedAt
    BY <2>1 DEF Fresh
  <2>3. p \in fresh
    BY <1>4, <2>1, <2>2
  <2> QED BY <2>1, <2>3
<1>6. ASSUME NEW p \in fresh
      PROVE  [player |-> p, queuedAt |-> entries[p].queuedAt] \in Fresh(Lines)
  <2>1. p \in DOMAIN entries /\ entries[p].state = "queued" /\ ~entries[p].cancelRequested
    BY <1>4
  <2>2. PICK e : e = [player |-> p, queuedAt |-> entries[p].queuedAt]
    OBVIOUS
  <2>3. e \in Lines /\ e.queuedAt = entries[p].queuedAt
    BY <2>1, <2>2 DEF Lines
  <2> QED BY <2>2, <2>3 DEF Fresh
<1> QED BY <1>1, <1>2, <1>3, <1>5, <1>6

\* What Restore would make of it: the matches.
LEMMA MatchesAreCurrent ==
    ASSUME Inv, Reflects(stored),
           NEW paired, paired = {p \in DOMAIN entries :
                                   /\ entries[p].state = "matched"
                                   /\ now - entries[p].stamp < result_ttl_ms}
    PROVE  /\ DOMAIN RestoredMatched = paired
           /\ \A p \in paired : /\ RestoredMatched[p].room = entries[p].room
                                /\ RestoredMatched[p].group = entries[p].group
<1>1. PICK f : f = RestoredMatched
  OBVIOUS
<1>2. MatchesRead(f)
  BY <1>1, RestoredMatchedOK
<1>3. Kept(stored.matched) = Kept(Records)
  BY DEF Reflects
<1>4. ASSUME NEW p \in paired
      PROVE  p \in DOMAIN f /\ f[p].room = entries[p].room /\ f[p].group = entries[p].group
  <2>1. PICK m : m = [match |-> entries[p].match, room |-> entries[p].room,
                      group |-> entries[p].group, stamp |-> entries[p].stamp]
    OBVIOUS
  <2>2. /\ m.room = entries[p].room /\ m.group = entries[p].group
        /\ m.stamp = entries[p].stamp
    BY <2>1
  <2>3. m \in Records
    BY <2>1 DEF Records
  <2>4. m \in Kept(stored.matched)
    BY <1>3, <2>2, <2>3 DEF Kept
  <2>5. p \in Range(m.group)
    BY <2>2 DEF Inv, EntryInv, MatchOK
  <2> QED BY <1>2, <2>2, <2>4, <2>5 DEF MatchesRead
<1>5. ASSUME NEW p \in DOMAIN f
      PROVE  p \in paired
  <2>1. PICK m \in Kept(Records) : p \in Range(m.group)
    BY <1>2, <1>3 DEF MatchesRead
  <2>2. PICK x \in DOMAIN entries :
          /\ entries[x].state = "matched"
          /\ m = [match |-> entries[x].match, room |-> entries[x].room,
                  group |-> entries[x].group, stamp |-> entries[x].stamp]
    BY DEF Kept, Records
  <2>3. MatchOK(x) /\ p \in Range(entries[x].group) /\ m.stamp = entries[x].stamp
    BY <2>1, <2>2 DEF Inv, EntryInv
  <2>4. /\ p \in DOMAIN entries /\ entries[p].state = "matched"
        /\ entries[p].stamp = m.stamp
    BY <2>3 DEF MatchOK
  <2>5. now - m.stamp < result_ttl_ms
    BY DEF Kept
  <2> QED BY <2>4, <2>5
<1> QED BY <1>1, <1>4, <1>5

\* Nothing is forgotten by the snapshots: a crash when no request is under way,
\* the last save was answered and no older one was stored after it loses nobody,
\* whatever became of the saves before it.  Every change of the queue is marked
\* before its request ends, and the mark is cleared together with the copy
\* that holds the change.
THEOREM Current == Spec => []SnapshotIsCurrent
<1>1. Inv => SnapshotIsCurrent
  <2> SUFFICES ASSUME Inv, HasStore, Up, ~dirty, flush = {}, ~unsaved,
                      \A r \in Thread : call[r] = Idle,
                      NEW fresh, fresh = {p \in Range(queue) :
                                            now - entries[p].queuedAt < match_timeout_ms},
                      NEW paired, paired = {p \in DOMAIN entries :
                                              /\ entries[p].state = "matched"
                                              /\ now - entries[p].stamp < result_ttl_ms}
               PROVE  /\ Range(RestoredQueue) =
                           {[player |-> p, queuedAt |-> entries[p].queuedAt] : p \in fresh}
                      /\ DOMAIN RestoredMatched = paired
                      /\ \A p \in paired : /\ RestoredMatched[p].room = entries[p].room
                                           /\ RestoredMatched[p].group = entries[p].group
    BY Zenon DEF SnapshotIsCurrent
  <2> QED BY AtRest, QueueIsCurrent, MatchesAreCurrent
<1> QED BY <1>1, Invariance, PTL

-----------------------------------------------------------------------------
(* The service implements Matchmaker.                                      *)

\* The match a player is shown, and the matches with a room.
Shown(p) == [id |-> entries[p].room, players |-> Range(entries[p].group)]

Rooms == {[id |-> m, players |-> Range(created[m])] : m \in DOMAIN created}

\* Where the Matchmaker sees the players.
PlacesOK ==
    \A p \in Player :
        /\ IsMatched(entries, p) => PlaceOf(p) = Abstract!In(Shown(p))
        /\ ~IsMatched(entries, p) => PlaceOf(p) \in {Abstract!Out, Abstract!Waiting}
        /\ p \notin DOMAIN entries => PlaceOf(p) = Abstract!Out
        /\ p \in DOMAIN entries /\ entries[p].state = "queued"
                                 /\ ~entries[p].cancelRequested =>
             PlaceOf(p) = Abstract!Waiting

\* Everybody matched is shown a match with a room, like the others in it.
WholeMatches ==
    \A p : IsMatched(entries, p) =>
        /\ Shown(p) \in Rooms /\ p \in Range(entries[p].group)
        /\ \A q \in Range(entries[p].group) :
             /\ q \in Player /\ IsMatched(entries, q) /\ Shown(q) = Shown(p)
             /\ entries[q].stamp = entries[p].stamp

\* A room is for two players.
RoomsOK ==
    \A m \in Rooms : m.players \subseteq Player /\ Cardinality(m.players) = kPlayersPerMatch

\* The invariant as the Matchmaker sees it.
LEMMA Views == Inv => PlacesOK /\ WholeMatches /\ RoomsOK
<1> SUFFICES ASSUME Inv
             PROVE  PlacesOK /\ WholeMatches /\ RoomsOK
  OBVIOUS
<1>1. ASSUME NEW p \in DOMAIN entries
      PROVE  /\ entries[p].state \in {"queued", "matched", "timeout"}
             /\ entries[p].cancelRequested => entries[p].allocating
             /\ entries[p].state = "matched" => MatchOK(p)
  BY DEF Inv, TypeInv, EntriesOK, EntryType, EntryInv
<1>2. PlacesOK
  BY <1>1 DEF PlacesOK, PlaceOf, IsMatched, Shown,
              Abstract!In, Abstract!Out, Abstract!Waiting
<1>3. WholeMatches
  <2> SUFFICES ASSUME NEW p, IsMatched(entries, p)
               PROVE  /\ Shown(p) \in Rooms /\ p \in Range(entries[p].group)
                      /\ \A q \in Range(entries[p].group) :
                           /\ q \in Player /\ IsMatched(entries, q)
                           /\ Shown(q) = Shown(p)
                           /\ entries[q].stamp = entries[p].stamp
    BY DEF WholeMatches
  <2>1. MatchOK(p)
    BY <1>1 DEF IsMatched
  <2>2. Shown(p) \in Rooms /\ p \in Range(entries[p].group)
    BY <2>1 DEF MatchOK, Shown, Rooms
  <2>3. ASSUME NEW q \in Range(entries[p].group)
        PROVE  /\ q \in Player /\ IsMatched(entries, q) /\ Shown(q) = Shown(p)
               /\ entries[q].stamp = entries[p].stamp
    <3>1. /\ q \in DOMAIN entries /\ entries[q].state = "matched"
          /\ entries[q].room = entries[p].room /\ entries[q].group = entries[p].group
          /\ entries[q].stamp = entries[p].stamp
      BY <2>1 DEF MatchOK
    <3>2. q \in Player
      BY <3>1 DEF Inv, TypeInv, EntriesOK
    <3> QED BY <3>1, <3>2 DEF IsMatched, Shown
  <2> QED BY <2>2, <2>3
<1>4. RoomsOK
  <2> SUFFICES ASSUME NEW i \in DOMAIN created
               PROVE  /\ Range(created[i]) \subseteq Player
                      /\ Cardinality(Range(created[i])) = kPlayersPerMatch
    BY DEF RoomsOK, Rooms
  <2>1. PICK s \in Seq(Player) : s = created[i] /\ Len(s) = 2 /\ s[1] # s[2]
    BY DEF Inv, RoomInv, IsPair, kPlayersPerMatch
  <2>2. DOMAIN s = 1..2 /\ 1..2 = {1, 2}
    BY <2>1
  <2>3. Range(s) = {s[1]} \cup {s[2]} /\ s[1] \in Player /\ s[2] \in Player
    BY <2>1, <2>2 DEF Range
  <2>4. Cardinality({s[1]} \cup {s[2]}) = 2
    <3>1. PICK a, b : a = s[1] /\ b = s[2] /\ b \notin {a}
      BY <2>1
    <3>2. IsFiniteSet({a}) /\ Cardinality({a}) = 1
      BY FS_Singleton
    <3>3. Cardinality({a} \cup {b}) = 1 + 1
      BY <3>1, <3>2, FS_AddElement, ZenonT(60)
    <3> QED BY <3>1, <3>3
  <2> QED BY <2>1, <2>3, <2>4 DEF kPlayersPerMatch
<1> QED BY <1>2, <1>3, <1>4

\* What the Matchmaker sees of a step: of a match everybody or nobody moves.
Moved(p) ==
    \/ /\ PlaceOf(p) \in {Abstract!Out, Abstract!Waiting}
       /\ PlaceOf(p)' \in {Abstract!Out, Abstract!Waiting}
    \/ \E m \in Rooms : p \in m.players /\
         \/ \A q \in m.players : /\ q \in Player /\ PlaceOf(q) = Abstract!Waiting
                                 /\ PlaceOf(q)' = Abstract!In(m)
         \/ \A q \in m.players : /\ q \in Player /\ PlaceOf(q) = Abstract!In(m)
                                 /\ PlaceOf(q)' = Abstract!In(m)
         \/ \A q \in m.players : /\ q \in Player /\ PlaceOf(q) = Abstract!In(m)
                                 /\ PlaceOf(q)' \in {Abstract!Out, Abstract!Waiting}

\* A match whose players keep their results.
LEMMA MovedTogether ==
    ASSUME PlacesOK, WholeMatches, PlacesOK', NEW p \in Player, IsMatched(entries, p),
           \A q \in Range(entries[p].group) : q \in DOMAIN entries' /\ entries'[q] = entries[q]
    PROVE  Moved(p)
<1>1. PICK m : m = Shown(p)
  OBVIOUS
<1>2. m \in Rooms /\ m.players = Range(entries[p].group) /\ p \in m.players
  BY <1>1 DEF WholeMatches, Shown
<1>3. ASSUME NEW q \in m.players
      PROVE  /\ q \in Player /\ PlaceOf(q) = Abstract!In(m)
             /\ PlaceOf(q)' = Abstract!In(m)
  <2>1. q \in Player /\ IsMatched(entries, q) /\ Shown(q) = m
    BY <1>1, <1>2 DEF WholeMatches
  <2>2. IsMatched(entries', q) /\ Shown(q)' = m
    BY <1>2, <2>1 DEF IsMatched, Shown
  <2>3. PlaceOf(q) = Abstract!In(m)
    BY <2>1 DEF PlacesOK
  <2>4. PlaceOf(q)' = Abstract!In(m)
    BY <2>1, <2>2 DEF PlacesOK, Abstract!In
  <2> QED BY <2>1, <2>3, <2>4
<1> QED BY <1>2, <1>3 DEF Moved

\* A match whose time is over.
LEMMA EndedTogether ==
    ASSUME PlacesOK, WholeMatches, PlacesOK', NEW p \in Player, IsMatched(entries, p),
           \A q \in Range(entries[p].group) : ~IsMatched(entries', q)
    PROVE  Moved(p)
<1>1. PICK m : m = Shown(p)
  OBVIOUS
<1>2. m \in Rooms /\ m.players = Range(entries[p].group) /\ p \in m.players
  BY <1>1 DEF WholeMatches, Shown
<1>3. ASSUME NEW q \in m.players
      PROVE  /\ q \in Player /\ PlaceOf(q) = Abstract!In(m)
             /\ PlaceOf(q)' \in {Abstract!Out, Abstract!Waiting}
  <2>1. q \in Player /\ IsMatched(entries, q) /\ Shown(q) = m
    BY <1>1, <1>2 DEF WholeMatches
  <2>2. ~IsMatched(entries', q)
    BY <1>2
  <2>3. PlaceOf(q) = Abstract!In(m)
    BY <2>1 DEF PlacesOK
  <2>4. PlaceOf(q)' \in {Abstract!Out, Abstract!Waiting}
    BY <2>1, <2>2 DEF PlacesOK, Abstract!Out, Abstract!Waiting
  <2> QED BY <2>1, <2>3, <2>4
<1> QED BY <1>2, <1>3 DEF Moved

\* Who is in no match, before and after.
LEMMA MovedOutside ==
    ASSUME PlacesOK, PlacesOK', NEW p \in Player,
           ~IsMatched(entries, p), ~IsMatched(entries', p)
    PROVE  Moved(p)
<1>1. PlaceOf(p) \in {Abstract!Out, Abstract!Waiting}
  BY DEF PlacesOK
<1>2. PlaceOf(p)' \in {Abstract!Out, Abstract!Waiting}
  BY DEF PlacesOK, Abstract!Out, Abstract!Waiting
<1> QED BY <1>1, <1>2 DEF Moved

\* A step of the running process moves every player as the Matchmaker allows.
LEMMA ServingMoves ==
    ASSUME Inv, Inv', Serving, NEW p \in Player
    PROVE  Moved(p)
<1>1. PlacesOK /\ WholeMatches
  BY Views
<1>2. Inv' => PlacesOK'
  BY Views, PTL
<1>3. PlacesOK'
  BY <1>2
<1>4. ASSUME NEW at \in Int, Turns(entries', queue', at)
      PROVE  Moved(p)
  <2>1. CASE ~IsMatched(entries, p)
    <3>1. ~IsMatched(entries', p)
      BY <1>4, <2>1 DEF Turns, IsMatched
    <3> QED BY <1>1, <1>3, <2>1, <3>1, MovedOutside
  <2>2. CASE IsMatched(entries, p)
    <3>1. \A q \in Range(entries[p].group) :
            IsMatched(entries, q) /\ entries[q].stamp = entries[p].stamp
      BY <1>1, <2>2 DEF WholeMatches
    <3>2. ASSUME NEW q, IsMatched(entries, q)
          PROVE  IF at - entries[q].stamp >= result_ttl_ms
                 THEN q \in DOMAIN entries' => entries'[q].state # "matched"
                 ELSE q \in DOMAIN entries' /\ entries'[q] = entries[q]
      BY <1>4, <3>2 DEF Turns, IsMatched
    <3>3. CASE at - entries[p].stamp >= result_ttl_ms
      <4>1. \A q \in Range(entries[p].group) : ~IsMatched(entries', q)
        BY <3>1, <3>2, <3>3 DEF IsMatched
      <4> QED BY <1>1, <1>3, <2>2, <4>1, EndedTogether
    <3>4. CASE ~(at - entries[p].stamp >= result_ttl_ms)
      <4>1. \A q \in Range(entries[p].group) :
              q \in DOMAIN entries' /\ entries'[q] = entries[q]
        BY <3>1, <3>2, <3>4
      <4> QED BY <1>1, <1>3, <2>2, <4>1, MovedTogether
    <3> QED BY <3>3, <3>4
  <2> QED BY <2>1, <2>2
<1>5. ASSUME KeepsMatches
      PROVE  Moved(p)
  <2>1. CASE ~IsMatched(entries, p)
    <3>1. ~IsMatched(entries', p)
      BY <1>5, <2>1 DEF KeepsMatches
    <3> QED BY <1>1, <1>3, <2>1, <3>1, MovedOutside
  <2>2. CASE IsMatched(entries, p)
    <3>1. \A q \in Range(entries[p].group) :
            q \in DOMAIN entries' /\ entries'[q] = entries[q]
      BY <1>1, <1>5, <2>2 DEF WholeMatches, KeepsMatches, IsMatched
    <3> QED BY <1>1, <1>3, <2>2, <3>1, MovedTogether
  <2> QED BY <2>1, <2>2
<1>6. ASSUME NEW k \in DOMAIN created, MakesMatch(k)
      PROVE  Moved(p)
  <2>1. PICK m : m = [id |-> k, players |-> Range(created[k])]
    OBVIOUS
  <2>2. m \in Rooms /\ m.players = Range(created[k])
    BY <2>1 DEF Rooms
  <2>3. ASSUME NEW q \in m.players
        PROVE  /\ q \in Player /\ ~IsMatched(entries, q) /\ PlaceOf(q) = Abstract!Waiting
               /\ PlaceOf(q)' = Abstract!In(m)
    <3>1. /\ q \in DOMAIN entries /\ entries[q].state = "queued"
          /\ ~entries[q].cancelRequested
          /\ q \in DOMAIN entries' /\ entries'[q].state = "matched"
          /\ entries'[q].room = k /\ entries'[q].group = created[k]
      BY <1>6, <2>2 DEF MakesMatch
    <3>2. q \in Player
      BY <3>1 DEF Inv, TypeInv, EntriesOK
    <3>3. PlaceOf(q) = Abstract!Waiting
      BY <1>1, <3>1, <3>2 DEF PlacesOK
    <3>4. IsMatched(entries', q) /\ Shown(q)' = m
      BY <2>1, <3>1 DEF IsMatched, Shown
    <3>5. PlaceOf(q)' = Abstract!In(m)
      BY <1>3, <3>2, <3>4 DEF PlacesOK, Abstract!In
    <3> QED BY <3>1, <3>2, <3>3, <3>5 DEF IsMatched
  <2>4. CASE p \in m.players
    BY <2>2, <2>3, <2>4 DEF Moved
  <2>5. ASSUME NEW q, q \notin m.players
        PROVE  /\ IsMatched(entries, q) <=> IsMatched(entries', q)
               /\ IsMatched(entries, q) => entries'[q] = entries[q]
    BY <1>6, <2>2, <2>5 DEF MakesMatch
  <2>6. CASE p \notin m.players /\ ~IsMatched(entries, p)
    BY <1>1, <1>3, <2>5, <2>6, MovedOutside
  <2>7. CASE p \notin m.players /\ IsMatched(entries, p)
    <3>1. ASSUME NEW q \in Range(entries[p].group)
          PROVE  q \in DOMAIN entries' /\ entries'[q] = entries[q]
      <4>1. IsMatched(entries, q)
        BY <1>1, <2>7 DEF WholeMatches
      <4>2. q \notin m.players
        BY <2>3, <4>1
      <4> QED BY <2>5, <4>1, <4>2 DEF IsMatched
    <3> QED BY <1>1, <1>3, <2>7, <3>1, MovedTogether
  <2> QED BY <2>4, <2>6, <2>7
<1> QED BY <1>4, <1>5, <1>6 DEF Serving

\* Such a step is one of Matchmaker's Serve.
LEMMA ServingRefines ==
    ASSUME Inv, Inv', Serving
    PROVE  Abstract!Serve
<1>1. \A p \in Player : Moved(p)
  BY ServingMoves
<1>2. Inv' => RoomsOK'
  BY Views, PTL
<1>3. Rooms \subseteq Rooms'
  BY DEF Serving, Rooms
<1>4. Abstract!RoomsOpen
  <2>1. \A S : Abstract!Cardinality(S) = Cardinality(S)
    BY DEF Abstract!Cardinality, Cardinality
  <2>2. \A m \in Rooms' : /\ m.players \subseteq Player
                         /\ Abstract!Cardinality(m.players) = kPlayersPerMatch
    BY <1>2, <2>1 DEF RoomsOK
  <2> QED BY <1>3, <2>2 DEF Abstract!RoomsOpen, Rooms
<1>5. ASSUME NEW p \in Player
      PROVE  Abstract!Moves(p)
  <2>1. CASE /\ PlaceOf(p) \in {Abstract!Out, Abstract!Waiting}
             /\ PlaceOf(p)' \in {Abstract!Out, Abstract!Waiting}
    BY <2>1 DEF Abstract!Moves
  <2>2. CASE \E m \in Rooms : p \in m.players /\
               \/ \A q \in m.players : /\ q \in Player /\ PlaceOf(q) = Abstract!Waiting
                                       /\ PlaceOf(q)' = Abstract!In(m)
               \/ \A q \in m.players : /\ q \in Player /\ PlaceOf(q) = Abstract!In(m)
                                       /\ PlaceOf(q)' = Abstract!In(m)
               \/ \A q \in m.players :
                    /\ q \in Player /\ PlaceOf(q) = Abstract!In(m)
                    /\ PlaceOf(q)' \in {Abstract!Out, Abstract!Waiting}
    BY <2>2 DEF Abstract!Moves, Abstract!Enters, Abstract!Stays, Abstract!Ends, Rooms
  <2> QED BY <1>1, <2>1, <2>2 DEF Moved
<1> QED BY <1>4, <1>5 DEF Abstract!Serve

\* The end of the process loses everything but the rooms.
LEMMA EndingRefines ==
    ASSUME Inv, Ending
    PROVE  Abstract!Crash
<1>1. entries' = <<>> /\ created' = created /\ DOMAIN <<>> = {}
  BY DEF Ending, Forget, room
<1>2. \A p : PlaceOf(p)' = Abstract!Out
  BY <1>1 DEF PlaceOf, Abstract!Out
<1> QED BY <1>1, <1>2 DEF Abstract!Crash, Abstract!Out

\* A start shows whole matches with their rooms.
LEMMA RestartRefines ==
    ASSUME Inv, Inv', Restart
    PROVE  Abstract!Restart
<1>1. entries = <<>> /\ created' = created /\ DOMAIN <<>> = {}
  BY RestartFrame
<1>2. Rooms' = Rooms
  BY <1>1 DEF Rooms
<1>3. \A p \in Player : PlaceOf(p) = Abstract!Out
  BY <1>1 DEF PlaceOf, Abstract!Out
<1>4. Inv' => PlacesOK' /\ WholeMatches'
  BY Views, PTL
<1>5. ASSUME NEW p \in Player
      PROVE  \/ PlaceOf(p)' \in {Abstract!Out, Abstract!Waiting}
             \/ \E m \in Rooms :
                  p \in m.players
                  /\ \A q \in m.players : q \in Player /\ PlaceOf(q)' = Abstract!In(m)
  <2>1. CASE ~IsMatched(entries', p)
    BY <1>4, <2>1 DEF PlacesOK, Abstract!Out, Abstract!Waiting
  <2>2. CASE IsMatched(entries', p)
    <3>1. PICK m : m = Shown(p)'
      OBVIOUS
    <3>2. m \in Rooms /\ m.players = Range(entries'[p].group) /\ p \in m.players
      BY <1>2, <1>4, <2>2, <3>1 DEF WholeMatches, Shown
    <3>3. ASSUME NEW q \in m.players
          PROVE  q \in Player /\ PlaceOf(q)' = Abstract!In(m)
      <4>1. q \in Player /\ IsMatched(entries', q) /\ Shown(q)' = m
        BY <1>4, <2>2, <3>1, <3>2 DEF WholeMatches
      <4> QED BY <1>4, <4>1 DEF PlacesOK, Abstract!In
    <3> QED BY <3>2, <3>3
  <2> QED BY <2>1, <2>2
<1>6. [p \in Player |-> PlaceOf(p)] = [p \in Player |-> Abstract!Out]
  BY <1>3
<1> QED BY <1>1, <1>5, <1>6 DEF Abstract!Restart, Rooms

\* Refinement: requests, allocation, snapshots, crashes and restores together
\* implement Matchmaker.  All players of a match enter it together, from
\* waiting, and leave it together; who cancelled in time is not matched; no
\* restored snapshot shows a match without a room or half of one.
THEOREM Refinement == Spec => Matchmaking
<1>1. Init => Abstract!Init
  <2> SUFFICES ASSUME Init
               PROVE  Abstract!Init
    OBVIOUS
  <2>1. entries = <<>> /\ created = <<>> /\ DOMAIN <<>> = {}
    BY DEF Init
  <2>2. \A p \in Player : PlaceOf(p) = Abstract!Out
    BY <2>1 DEF PlaceOf, Abstract!Out
  <2> QED BY <2>1, <2>2 DEF Abstract!Init
<1>2. Inv /\ [Next]_vars => [Abstract!Next]_(Abstract!vars)
  <2> SUFFICES ASSUME Inv, [Next]_vars
               PROVE  Abstract!Next
    OBVIOUS
  <2>1. Inv' /\ (Serving \/ Ending \/ Restart)
    BY StepKinds
  <2> QED BY <2>1, ServingRefines, EndingRefines, RestartRefines DEF Abstract!Next
<1> QED BY <1>1, <1>2, Invariance, PTL DEF Spec, Matchmaking, Abstract!Spec
=============================================================================
