---------------------------- MODULE PeerCards_proofs ----------------------------
(***************************************************************************)
(* Theorems about PeerCards, for every time to live, timeout and number of *)
(* tasks.                                                                  *)
(***************************************************************************)
EXTENDS PeerCards, TLAPS

\* Of memory and file, memory was written last.  (The stamps are those of the
\* writes: a card that arrives late is behind one written before it.)
MemoryNotBehind ==
  \A p \in Peers : memory[p] # None /\ disk[p] \in Copy =>
    memory[p].fetched >= disk[p].fetched

\* A copy's card was served when its fetch began, a timeout before at most.
Aged(e) == e.fetched <= now /\ ServedAfter(e.card, e.fetched - FetchTimeout - 1)

CopiesAged ==
  /\ \A p \in Peers : memory[p] \in Copy => Aged(memory[p])
  /\ \A p \in Peers : disk[p] \in Copy => Aged(disk[p])

FetchesAged ==
  \A t \in Tasks :
    /\ since[t] <= now
    /\ pc[t] = "fetching" => want[t] \in Peers /\ now - since[t] <= FetchTimeout
    /\ carried[t] # None => /\ pc[t] = "fetching"
                            /\ ServedAfter(carried[t], since[t] - 1)

Inv == TypeOK /\ MemoryNotBehind /\ CopiesAged /\ FetchesAged

LEMMA Numbers ==
  ASSUME TypeOK
  PROVE  /\ now \in Nat /\ card \in Nat /\ Ttl \in Nat /\ Ttl >= 1 /\ FetchTimeout \in Nat
         /\ \A c \in Cards : until[c] \in Nat
         /\ \A t \in Tasks : since[t] \in Nat
         /\ \A e \in Copy : e.card \in Cards /\ e.fetched \in Nat
  BY NumbersAssumption DEF TypeOK, Times, Cards, Copy

\* A card that was served after a moment was also served after an earlier one.
LEMMA ServedEarlier ==
  ASSUME TypeOK, NEW c \in Cards, NEW m \in Int, NEW n \in Int, n <= m, ServedAfter(c, m)
  PROVE  ServedAfter(c, n)
<1>1. until[c] \in Nat
  BY Numbers
<1> QED BY <1>1 DEF ServedAfter

\* Time and new cards do not undo that a card was served after a past moment.
LEMMA ServedKept ==
  ASSUME TypeOK, NEW c \in Cards, NEW m \in Int, m < now, ServedAfter(c, m),
         UNCHANGED core \/ NewCard
  PROVE  ServedAfter(c, m)'
<1>1. CASE UNCHANGED core
  BY <1>1 DEF core, ServedAfter
<1>2. CASE NewCard
  <2>1. c = card => until'[c] = now
    BY <1>2 DEF NewCard, TypeOK
  <2>2. c # card => until'[c] = until[c]
    BY <1>2 DEF NewCard, TypeOK
  <2> QED BY <2>1, <2>2 DEF ServedAfter
<1> QED BY <1>1, <1>2

LEMMA AgedKept ==
  ASSUME TypeOK, NEW e \in Copy, Aged(e), UNCHANGED core \/ NewCard,
         now' \in Nat, now <= now'
  PROVE  Aged(e)'
<1> DEFINE m == e.fetched - FetchTimeout - 1
<1>1. now \in Nat /\ e.card \in Cards /\ e.fetched \in Nat /\ FetchTimeout \in Nat
  BY Numbers
<1>2. m \in Int /\ m < now /\ ServedAfter(e.card, m)
  BY <1>1 DEF Aged
<1> HIDE DEF m
<1>3. ServedAfter(e.card, m)'
  BY <1>1, <1>2, ServedKept
<1>4. ServedAfter(e.card, e.fetched - FetchTimeout - 1)'
  BY <1>3 DEF ServedAfter, m
<1>5. e.fetched <= now'
  BY <1>1 DEF Aged
<1> QED BY <1>4, <1>5 DEF Aged

\* A response written back makes a copy that has aged no more than the fetch.
LEMMA ArrivesAged ==
  ASSUME Inv, NEW t \in Tasks, pc[t] = "fetching", carried[t] # None
  PROVE  /\ [card |-> carried[t], fetched |-> now] \in Copy
         /\ Aged([card |-> carried[t], fetched |-> now])
<1> DEFINE e == [card |-> carried[t], fetched |-> now]
<1>1. /\ carried[t] \in Cards /\ now \in Times /\ now \in Nat /\ since[t] \in Nat
      /\ FetchTimeout \in Nat
  BY Numbers DEF Inv, TypeOK
<1>2. e \in Copy /\ e.card = carried[t] /\ e.fetched = now
  BY <1>1 DEF Copy
<1>3. ServedAfter(carried[t], since[t] - 1) /\ now - since[t] <= FetchTimeout
  BY DEF Inv, FetchesAged
<1>4. now - FetchTimeout - 1 <= since[t] - 1
  BY <1>1, <1>3
<1>5. ServedAfter(carried[t], now - FetchTimeout - 1)
  BY <1>1, <1>3, <1>4, ServedEarlier DEF Inv
<1> HIDE DEF e
<1>6. Aged(e)
  BY <1>1, <1>2, <1>5 DEF Aged
<1> QED BY <1>2, <1>6 DEF e

----------------------------------------------------------------------------
(* Every step keeps Inv.                                                   *)

\* A step that leaves the copies alone.
LEMMA CopiesKept ==
  ASSUME Inv, UNCHANGED <<memory, disk>>, UNCHANGED core \/ NewCard,
         now' \in Nat, now <= now'
  PROVE  MemoryNotBehind' /\ CopiesAged'
<1>1. ASSUME NEW p \in Peers, memory[p] \in Copy PROVE Aged(memory[p])'
  <2>1. Aged(memory[p])
    BY <1>1 DEF Inv, CopiesAged
  <2>2. \A e \in Copy : Aged(e) => Aged(e)'
    BY AgedKept DEF Inv
  <2> QED BY <1>1, <2>1, <2>2 DEF Aged, ServedAfter
<1>2. ASSUME NEW p \in Peers, disk[p] \in Copy PROVE Aged(disk[p])'
  <2>1. Aged(disk[p])
    BY <1>2 DEF Inv, CopiesAged
  <2>2. \A e \in Copy : Aged(e) => Aged(e)'
    BY AgedKept DEF Inv
  <2> QED BY <1>2, <2>1, <2>2 DEF Aged, ServedAfter
<1> QED BY <1>1, <1>2 DEF Inv, MemoryNotBehind, CopiesAged

\* A step of one task that puts e in memory and, if the file is new, on disk.
LEMMA CopyTaken ==
  ASSUME Inv, NEW p \in Peers, NEW e \in Copy, Aged(e), UNCHANGED <<now, core>>,
         memory' = [memory EXCEPT ![p] = e],
         NEW f \in {e, disk[p], Torn}, disk' = [disk EXCEPT ![p] = f],
         f = disk[p] => (disk[p] \in Copy => disk[p].fetched <= e.fetched)
  PROVE  MemoryNotBehind' /\ CopiesAged'
<1>1. /\ memory \in [Peers -> Copy \cup {None}]
      /\ disk \in [Peers -> Copy \cup {None, Torn}]
  BY DEF Inv, TypeOK
<1>2. /\ \A q \in Peers : memory'[q] \in Copy => Aged(memory'[q])
      /\ \A q \in Peers : disk'[q] \in Copy => Aged(disk'[q])
  BY <1>1, NamesAssumption DEF Inv, CopiesAged
<1>3. CopiesAged'
  <2>1. \A x : Aged(x) => (x.fetched <= now' /\ (x.card = card' \/
                           until'[x.card] > x.fetched - FetchTimeout - 1))
    BY DEF Aged, ServedAfter, core
  <2> QED BY <1>2, <2>1 DEF CopiesAged, Aged, ServedAfter
<1>4. MemoryNotBehind'
  <2>1. e.fetched >= e.fetched
    BY DEF Copy, Times
  <2>2. f \in Copy => e.fetched >= f.fetched
    BY <2>1, NamesAssumption DEF Copy, Times
  <2>3. \A q \in Peers \ {p} : memory'[q] = memory[q] /\ disk'[q] = disk[q]
    BY <1>1
  <2>4. memory'[p] = e /\ disk'[p] = f
    BY <1>1
  <2> QED BY <2>2, <2>3, <2>4 DEF Inv, MemoryNotBehind
<1> QED BY <1>3, <1>4

\* A fetch that others' steps leave alone.
LEMMA FetchesKept ==
  ASSUME Inv, UNCHANGED <<now, core, want, since, carried>>,
         \A t \in Tasks : pc'[t] = "fetching" <=> pc[t] = "fetching"
  PROVE  FetchesAged'
  BY DEF Inv, FetchesAged, ServedAfter, core

LEMMA FetchOver ==
  ASSUME Inv, NEW t \in Tasks, Over(t), UNCHANGED <<now, core>>,
         NEW s \in {"idle", "sending"}, pc' = [pc EXCEPT ![t] = s]
  PROVE  FetchesAged'
<1> SUFFICES ASSUME NEW u \in Tasks
             PROVE  /\ since'[u] <= now'
                    /\ pc'[u] = "fetching" => /\ want'[u] \in Peers
                                              /\ now' - since'[u] <= FetchTimeout
                    /\ carried'[u] # None => /\ pc'[u] = "fetching"
                                              /\ ServedAfter(carried[u], since[u] - 1)'
  BY DEF FetchesAged
<1>1. CASE u = t
  BY <1>1, Numbers DEF Over, Inv, TypeOK
<1>2. CASE u # t
  BY <1>2 DEF Over, Inv, TypeOK, FetchesAged, ServedAfter, core
<1> QED BY <1>1, <1>2

LEMMA InitInv == Init => Inv
<1> SUFFICES ASSUME Init PROVE Inv
  OBVIOUS
<1>1. TypeOK
  BY NumbersAssumption DEF Init, TypeOK, Times, Cards
<1> QED BY <1>1, NamesAssumption
        DEF Init, Inv, MemoryNotBehind, CopiesAged, FetchesAged

LEMMA WorldInv == ASSUME Inv, Tick \/ NewCard PROVE Inv'
<1>1. now' \in Nat /\ now <= now' /\ (UNCHANGED core \/ NewCard) /\ UNCHANGED <<memory, disk>>
  BY Numbers DEF Inv, Tick, NewCard
<1>2. TypeOK'
  <2>1. CASE Tick
    <3>1. now + 1 \in Times
      BY <2>1, Numbers, NumbersAssumption DEF Inv, Tick, Times
    <3> QED BY <2>1, <3>1 DEF Inv, Tick, TypeOK, core, fetches
  <2>2. CASE NewCard
    <3>1. card + 1 \in Cards
      BY <2>2, Numbers, NumbersAssumption DEF Inv, NewCard, Cards
    <3> QED BY <2>2, <3>1 DEF Inv, NewCard, TypeOK, fetches
  <2> QED BY <2>1, <2>2
<1>3. MemoryNotBehind' /\ CopiesAged'
  BY <1>1, CopiesKept
<1>4. FetchesAged'
  <2> SUFFICES ASSUME NEW t \in Tasks
               PROVE  /\ since'[t] <= now'
                      /\ pc'[t] = "fetching" => /\ want'[t] \in Peers
                                                /\ now' - since'[t] <= FetchTimeout
                      /\ carried'[t] # None => /\ pc'[t] = "fetching"
                                              /\ ServedAfter(carried[t], since[t] - 1)'
    BY DEF FetchesAged
  <2>1. /\ pc' = pc /\ want' = want /\ since' = since /\ carried' = carried
    BY DEF Tick, NewCard, fetches
  <2>2. now \in Nat /\ since[t] \in Nat /\ FetchTimeout \in Nat
    BY Numbers DEF Inv
  <2>3. ASSUME pc'[t] = "fetching"
        PROVE  want'[t] \in Peers /\ now' - since'[t] <= FetchTimeout
    <3>1. want[t] \in Peers /\ since[t] <= now /\ now - since[t] <= FetchTimeout
      BY <2>1, <2>3 DEF Inv, FetchesAged
    <3>2. CASE Tick
      BY <2>1, <2>2, <2>3, <3>1, <3>2 DEF Tick
    <3>3. CASE NewCard
      BY <2>1, <3>1, <3>3 DEF NewCard
    <3> QED BY <3>2, <3>3
  <2>4. ASSUME carried[t] # None
        PROVE  pc[t] = "fetching" /\ ServedAfter(carried[t], since[t] - 1)'
    <3> DEFINE c == carried[t]
               m == since[t] - 1
    <3>1. c \in Cards /\ m \in Int /\ ServedAfter(c, m)
      BY <2>2, <2>4 DEF Inv, TypeOK, FetchesAged
    <3>2. m < now
      BY <2>2 DEF Inv, FetchesAged
    <3> HIDE DEF c, m
    <3>3. c = card' \/ until'[c] > m
      BY <1>1, <3>1, <3>2, ServedKept DEF Inv, ServedAfter
    <3> QED BY <2>1, <2>4, <3>3 DEF c, m, ServedAfter, Inv, FetchesAged
  <2>5. since'[t] <= now'
    BY <1>1, <2>1, <2>2, Numbers DEF Inv, FetchesAged
  <2> QED BY <2>1, <2>3, <2>4, <2>5
<1> QED BY <1>2, <1>3, <1>4 DEF Inv

LEMMA ServeInv == ASSUME Inv, NEW t \in Tasks, Serve(t) PROVE Inv'
<1>1. TypeOK'
  BY DEF Inv, Serve, TypeOK, core
<1>2. UNCHANGED core /\ now' = now /\ UNCHANGED <<memory, disk>>
  BY DEF Serve
<1>3. MemoryNotBehind' /\ CopiesAged'
  BY <1>2, CopiesKept, Numbers DEF Inv
<1>4. FetchesAged'
  <2>1. ASSUME NEW u \in Tasks, carried'[u] # None
        PROVE  pc'[u] = "fetching" /\ ServedAfter(carried[u], since[u] - 1)'
    <3>1. CASE u = t
      BY <3>1 DEF Serve, ServedAfter, core, Inv, TypeOK
    <3>2. CASE u # t
      BY <2>1, <3>2 DEF Serve, ServedAfter, core, Inv, TypeOK, FetchesAged
    <3> QED BY <3>1, <3>2
  <2> QED BY <2>1 DEF Serve, Inv, FetchesAged
<1> QED BY <1>1, <1>3, <1>4 DEF Inv

LEMMA LookupInv == ASSUME Inv, NEW t \in Tasks, NEW p \in Peers, Lookup(t, p) PROVE Inv'
<1>1. CASE FromMemory(t, p)
  <2>1. memory[p] \in Copy
    BY <1>1 DEF FromMemory, Fresh, Inv, TypeOK
  <2>2. TypeOK'
    BY <1>1, <2>1 DEF FromMemory, Found, Inv, TypeOK, core, Copy
  <2>3. MemoryNotBehind' /\ CopiesAged'
    BY <1>1, CopiesKept, Numbers DEF FromMemory, Inv
  <2>4. FetchesAged'
    BY <1>1, FetchesKept DEF FromMemory, Found, Inv, TypeOK
  <2> QED BY <2>2, <2>3, <2>4 DEF Inv
<1>2. CASE FromDisk(t, p)
  <2>1. disk[p] \in Copy /\ Aged(disk[p])
    BY <1>2 DEF FromDisk, Fresh, Inv, TypeOK, CopiesAged
  <2>2. TypeOK'
    BY <1>2, <2>1 DEF FromDisk, Loaded, Found, Inv, TypeOK, core, Copy
  <2>3. /\ UNCHANGED <<now, core, disk>>
        /\ memory' = [memory EXCEPT ![p] = disk[p]] /\ disk' = [disk EXCEPT ![p] = disk[p]]
    BY <1>2 DEF FromDisk, Loaded, Inv, TypeOK
  <2>4. disk[p].fetched <= disk[p].fetched
    BY <2>1, Numbers DEF Inv
  <2>5. MemoryNotBehind' /\ CopiesAged'
    BY <2>1, <2>3, <2>4, CopyTaken
  <2>6. FetchesAged'
    BY <1>2, FetchesKept DEF FromDisk, Found, Inv, TypeOK
  <2> QED BY <2>2, <2>5, <2>6 DEF Inv
<1>3. CASE Fetch(t, p)
  <2>1. TypeOK'
    BY <1>3 DEF Fetch, Inv, TypeOK, core
  <2>2. MemoryNotBehind' /\ CopiesAged'
    BY <1>3, CopiesKept, Numbers DEF Fetch, Inv
  <2>3. FetchesAged'
    <3> SUFFICES ASSUME NEW u \in Tasks
                 PROVE  /\ since'[u] <= now'
                        /\ pc'[u] = "fetching" => /\ want'[u] \in Peers
                                                  /\ now' - since'[u] <= FetchTimeout
                        /\ carried'[u] # None => /\ pc'[u] = "fetching"
                                              /\ ServedAfter(carried[u], since[u] - 1)'
      BY DEF FetchesAged
    <3>1. CASE u = t
      <4>1. carried[t] = None
        BY <1>3 DEF Inv, FetchesAged, Fetch
      <4> QED BY <1>3, <3>1, <4>1, Numbers DEF Fetch, Inv, TypeOK
    <3>2. CASE u # t
      BY <1>3, <3>2 DEF Fetch, Inv, TypeOK, FetchesAged, ServedAfter, core
    <3> QED BY <3>1, <3>2
  <2> QED BY <2>1, <2>2, <2>3 DEF Inv
<1> QED BY <1>1, <1>2, <1>3 DEF Lookup

LEMMA EndInv == ASSUME Inv, NEW t \in Tasks, End(t) \/ Sent(t) PROVE Inv'
<1>1. CASE WriteBack(t)
  <2> DEFINE e == [card |-> carried[t], fetched |-> now]
             p == want[t]
  <2>1. pc[t] = "fetching" /\ carried[t] # None /\ p \in Peers
    BY <1>1 DEF WriteBack, Inv, FetchesAged
  <2>2. e \in Copy /\ Aged(e)
    BY <2>1, ArrivesAged
  <2>3. e.fetched = now
    OBVIOUS
  <2>4. /\ UNCHANGED <<now, core>> /\ memory' = [memory EXCEPT ![p] = e]
        /\ \E f \in {e, disk[p], Torn} : disk' = [disk EXCEPT ![p] = f]
    BY <1>1 DEF WriteBack, Remembered, Stored
  <2>5. PICK f \in {e, disk[p], Torn} : disk' = [disk EXCEPT ![p] = f]
    BY <2>4
  <2> HIDE DEF e, p
  <2>6. disk[p] \in Copy => disk[p].fetched <= e.fetched
    BY <2>1, <2>3 DEF Inv, CopiesAged, Aged
  <2>7. MemoryNotBehind' /\ CopiesAged'
    BY <2>1, <2>2, <2>4, <2>5, <2>6, CopyTaken
  <2>8. /\ Over(t) /\ pc' = [pc EXCEPT ![t] = "sending"]
        /\ found' = [found EXCEPT ![t] = carried[t]] /\ boots' = boots
    BY <1>1 DEF WriteBack, Found
  <2>9. FetchesAged'
    BY <2>4, <2>8, FetchOver
  <2>10. TypeOK'
    <3>1. /\ memory' \in [Peers -> Copy \cup {None}]
          /\ disk' \in [Peers -> Copy \cup {None, Torn}]
      BY <2>1, <2>2, <2>4, <2>5 DEF Inv, TypeOK
    <3>2. carried[t] \in Cards /\ 0 \in Times
      BY <2>1, NumbersAssumption DEF Inv, TypeOK, Times
    <3> QED BY <2>4, <2>8, <3>1, <3>2 DEF Over, Inv, TypeOK, core
  <2> QED BY <2>7, <2>9, <2>10 DEF Inv
<1>2. CASE FetchFails(t)
  <2>1. Over(t) /\ pc' = [pc EXCEPT ![t] = "idle"]
        /\ UNCHANGED <<now, core, memory, disk, found, boots>>
    BY <1>2 DEF FetchFails
  <2>2. 0 \in Times
    BY NumbersAssumption DEF Times
  <2>3. TypeOK'
    BY <2>1, <2>2 DEF Over, Inv, TypeOK, core
  <2>4. MemoryNotBehind' /\ CopiesAged'
    BY <2>1, CopiesKept, Numbers DEF Inv
  <2>5. FetchesAged'
    BY <2>1, FetchOver
  <2> QED BY <2>3, <2>4, <2>5 DEF Inv
<1>3. CASE Sent(t)
  <2>1. TypeOK'
    BY <1>3 DEF Sent, Inv, TypeOK, core
  <2>2. MemoryNotBehind' /\ CopiesAged'
    BY <1>3, CopiesKept, Numbers DEF Sent, Inv
  <2>3. FetchesAged'
    BY <1>3, FetchesKept DEF Sent, Inv, TypeOK
  <2> QED BY <2>1, <2>2, <2>3 DEF Inv
<1> QED BY <1>1, <1>2, <1>3 DEF End

LEMMA RestartInv == ASSUME Inv, Restart PROVE Inv'
<1>1. /\ memory' = [p \in Peers |-> None] /\ UNCHANGED <<now, core>>
      /\ \A p \in Peers : disk'[p] \in {disk[p], Torn}
      /\ disk' \in [Peers -> Copy \cup {None, Torn}]
  BY DEF Restart, Inv, TypeOK
<1>2. TypeOK'
  <2>1. 0 \in Times /\ (boots < MaxBoots => boots + 1 \in 1..MaxBoots)
    BY NumbersAssumption DEF Times, Inv, TypeOK
  <2> QED BY <1>1, <2>1 DEF Restart, Inv, TypeOK, core
<1>3. MemoryNotBehind' /\ CopiesAged'
  BY <1>1, NamesAssumption DEF MemoryNotBehind, CopiesAged, Inv, Aged, ServedAfter, core
<1>4. FetchesAged'
  BY Numbers DEF Restart, FetchesAged, Inv
<1> QED BY <1>2, <1>3, <1>4 DEF Inv

LEMMA NextInv == ASSUME Inv, [Next]_vars PROVE Inv'
<1>1. CASE Next
  BY <1>1, WorldInv, ServeInv, LookupInv, EndInv, RestartInv DEF Next
<1>2. CASE UNCHANGED vars
  <2>1. TypeOK' /\ MemoryNotBehind'
    BY <1>2 DEF vars, core, fetches, Inv, TypeOK, MemoryNotBehind
  <2>2. CopiesAged' /\ FetchesAged'
    BY <1>2 DEF vars, core, fetches, Inv, CopiesAged, FetchesAged, Aged, ServedAfter
  <2> QED BY <2>1, <2>2 DEF Inv
<1> QED BY <1>1, <1>2

\* Inv holds on every path through the cache, its files and restarts.
\* (a2a_client.py:77-141)
THEOREM InvHolds == Spec => []Inv
<1>1. Init => Inv
  BY InitInv
<1>2. Inv /\ [Next]_vars => Inv'
  BY NextInv
<1> QED BY <1>1, <1>2, PTL DEF Spec

----------------------------------------------------------------------------
(* The properties.                                                         *)

\* Every variable keeps its type: among the copies there is never a fetch that
\* failed.  (a2a_client.py:99-101)
THEOREM TypeCorrect == Spec => []TypeOK
<1>1. Inv => TypeOK
  BY DEF Inv
<1> QED BY <1>1, InvHolds, PTL

\* What a process remembers of a peer is only replaced by an answer from CORE.  A
\* file is read when memory's copy is out of date, and then the file's, which was
\* not written later, is out of date too.
THEOREM AnswersReplace == Spec => OnlyAnswersReplace
<1> DEFINE A == \A p \in Peers :
                  memory[p] # None /\ memory'[p] \notin {memory[p], None} =>
                    memory'[p].fetched = now
<1>1. ASSUME Inv, [Next]_vars PROVE A
  <2> SUFFICES ASSUME NEW p \in Peers,
                      memory[p] # None, memory'[p] \notin {memory[p], None}
               PROVE  memory'[p].fetched = now
    OBVIOUS
  <2>0. /\ memory \in [Peers -> Copy \cup {None}] /\ memory[p] \in Copy
        /\ now \in Nat /\ Ttl \in Nat /\ \A e \in Copy : e.fetched \in Nat
    BY <1>1, Numbers DEF Inv, TypeOK
  <2>1. CASE UNCHANGED vars \/ Tick \/ NewCard \/ Restart
    BY <2>1 DEF vars, Tick, NewCard, Restart
  <2>2. ASSUME NEW t \in Tasks, Serve(t) \/ FetchFails(t) \/ Sent(t) PROVE FALSE
    BY <2>2 DEF Serve, FetchFails, Sent
  <2>3. ASSUME NEW t \in Tasks, WriteBack(t) PROVE memory'[p].fetched = now
    BY <2>0, <2>3 DEF WriteBack, Remembered
  <2>4. ASSUME NEW t \in Tasks, NEW q \in Peers, Lookup(t, q) PROVE FALSE
    <3>1. memory' = [memory EXCEPT ![q] = disk[q]] /\ FromDisk(t, q)
      BY <2>4 DEF Lookup, FromMemory, FromDisk, Fetch, Loaded
    <3>2. q = p /\ ~Fresh(memory[p]) /\ Fresh(disk[p])
      BY <2>0, <3>1 DEF FromDisk
    <3>3. /\ disk[p] \in Copy /\ now - disk[p].fetched < Ttl
          /\ ~(now - memory[p].fetched < Ttl)
      BY <1>1, <2>0, <3>2, NamesAssumption DEF Fresh, Inv, TypeOK
    <3>4. memory[p].fetched >= disk[p].fetched
      BY <1>1, <3>3 DEF Inv, MemoryNotBehind
    <3> QED BY <2>0, <3>3, <3>4
  <2> QED BY <1>1, <2>1, <2>2, <2>3, <2>4 DEF Next, End
<1>2. Inv /\ [Next]_vars => [A]_vars
  BY <1>1
<1> QED BY <1>2, InvHolds, PTL DEF Spec, OnlyAnswersReplace

\* An address is at most the time to live and a fetch's timeout out of date.
THEOREM AddressesFresh == Spec => FreshAddress
<1> DEFINE A == \A t \in Tasks : found'[t] \notin {None, found[t]} =>
                  ServedAfter(found'[t], now - (Ttl + FetchTimeout))
<1>1. ASSUME Inv, [Next]_vars PROVE A
  <2> SUFFICES ASSUME NEW t \in Tasks, found'[t] \notin {None, found[t]}
               PROVE  ServedAfter(found'[t], now - (Ttl + FetchTimeout))
    OBVIOUS
  <2>0. /\ now \in Nat /\ Ttl \in Nat /\ Ttl >= 1 /\ FetchTimeout \in Nat
        /\ since[t] \in Nat /\ TypeOK
    BY <1>1, Numbers DEF Inv
  <2>1. \/ \E p \in Peers : FromMemory(t, p) \/ FromDisk(t, p)
        \/ WriteBack(t)
    <3>1. CASE UNCHANGED vars \/ Tick \/ NewCard \/ Restart
      BY <3>1 DEF vars, Tick, NewCard, Restart
    <3>2. ASSUME NEW u \in Tasks, Serve(u) \/ End(u) \/ Sent(u), ~(u = t /\ WriteBack(u))
          PROVE  FALSE
      BY <1>1, <3>2 DEF Serve, End, WriteBack, Found, FetchFails, Sent, Inv, TypeOK
    <3>3. ASSUME NEW u \in Tasks, NEW p \in Peers, Lookup(u, p),
                 ~(u = t /\ (FromMemory(u, p) \/ FromDisk(u, p)))
          PROVE  FALSE
      BY <1>1, <3>3 DEF Lookup, FromMemory, FromDisk, Fetch, Found, Inv, TypeOK
    <3> QED BY <1>1, <3>1, <3>2, <3>3 DEF Next, End
  <2>2. ASSUME NEW e \in Copy, Aged(e), now - e.fetched < Ttl
        PROVE  ServedAfter(e.card, now - (Ttl + FetchTimeout))
    <3>1. e.card \in Cards /\ e.fetched \in Nat
      BY <2>0, <2>2, Numbers
    <3>2. now - (Ttl + FetchTimeout) <= e.fetched - FetchTimeout - 1
      BY <2>0, <2>2, <3>1
    <3> QED BY <2>0, <2>2, <3>1, <3>2, ServedEarlier DEF Aged
  <2>3. ASSUME NEW p \in Peers, FromMemory(t, p)
        PROVE  ServedAfter(found'[t], now - (Ttl + FetchTimeout))
    <3>1. /\ memory[p] \in Copy /\ Aged(memory[p]) /\ now - memory[p].fetched < Ttl
          /\ found'[t] = memory[p].card
      BY <1>1, <2>3 DEF FromMemory, Fresh, Found, Inv, TypeOK, CopiesAged
    <3> QED BY <2>2, <3>1
  <2>4. ASSUME NEW p \in Peers, FromDisk(t, p)
        PROVE  ServedAfter(found'[t], now - (Ttl + FetchTimeout))
    <3>1. /\ disk[p] \in Copy /\ Aged(disk[p]) /\ now - disk[p].fetched < Ttl
          /\ found'[t] = disk[p].card
      BY <1>1, <2>4 DEF FromDisk, Fresh, Found, Inv, TypeOK, CopiesAged
    <3> QED BY <2>2, <3>1
  <2>5. CASE WriteBack(t)
    <3>1. /\ pc[t] = "fetching" /\ carried[t] \in Cards /\ found'[t] = carried[t]
          /\ ServedAfter(carried[t], since[t] - 1) /\ now - since[t] <= FetchTimeout
      BY <1>1, <2>5 DEF WriteBack, Found, Inv, TypeOK, FetchesAged
    <3>2. now - (Ttl + FetchTimeout) <= since[t] - 1
      BY <2>0, <3>1
    <3> QED BY <2>0, <3>1, <3>2, ServedEarlier
  <2> QED BY <2>1, <2>3, <2>4, <2>5
<1>2. Inv /\ [Next]_vars => [A]_vars
  BY <1>1
<1> QED BY <1>2, InvHolds, PTL DEF Spec, FreshAddress
=============================================================================
