---------------------------- MODULE History_proofs ----------------------------
(***************************************************************************)
(* What holds of History for any peers, watchers and callers, however      *)
(* often CORE fails, the caches expire and the host restarts.              *)
(*                                                                         *)
(* The inductive invariant Inv has three parts next to the types.  Behind: *)
(* everything that was read from CORE is no newer than CORE.  CacheFresh:  *)
(* while a task waits or acts, no cached messages are older than its       *)
(* delivery, since the delivery emptied the cache and every later entry    *)
(* was read later.  InOrder: what a watcher has reported is in its         *)
(* snapshot, or is the report it is delivering.                            *)
(***************************************************************************)
EXTENDS History, TLAPS

\* A task between its delivery and its return.
Busy(t) == pc[t] \in {"queued", "acting"}

Upto(l) == \A p \in DOMAIN l : l[p] <= rounds[p]

Behind ==
  /\ polled # None => Upto(polled)
  /\ \A w \in Watchers : Upto(left[w])
  /\ \A t \in Tasks : \A p \in Peers : floor[t][p] <= rounds[p]

CacheFresh ==
  /\ \A t \in Tasks : Busy(t) =>
       \A p \in Peers : messages[p] # None => messages[p] >= floor[t][p]
  /\ \A t \in Tasks : view[t] # None =>
       pc[t] = "acting" /\ view[t].round >= floor[t][view[t].peer]
  /\ \A w \in Watchers : event[w] # None =>
       event[w].new <= floor[w][event[w].peer]

InOrder ==
  /\ \A w \in Watchers : event[w] # None <=> Busy(w)
  /\ \A w \in Watchers : pc[w] = "starting" =>
       reported[w] = NoRound /\ DOMAIN left[w] = {}
  /\ \A w \in Watchers : \A p \in Peers :
       \/ reported[w][p] <= Previous(snapshot[w], p)
       \/ event[w] # None /\ event[w].peer = p /\ event[w].new = reported[w][p]
  /\ \A w \in Watchers : event[w] # None =>
       event[w].new > Previous(snapshot[w], event[w].peer)
  /\ \A w \in Watchers : \A p \in DOMAIN left[w] :
       /\ left[w][p] > Previous(snapshot[w], p)
       /\ event[w] # None => event[w].peer # p

Inv == TypeOK /\ Behind /\ CacheFresh /\ InOrder

\* Every event of a caller is a tracked one.  (The admin handler's are not.)
AllTracked == Tracked = Callers

USE NamesAssumption, NumbersAssumption, NoneAssumption

----------------------------------------------------------------------------
(* Listings.                                                               *)

LEMMA ListingIs ==
  ASSUME NEW f \in Listing
  PROVE  DOMAIN f \in SUBSET Peers /\ f \in [DOMAIN f -> Rounds] /\ f # None
  <1>1. PICK S \in SUBSET Peers : f \in [S -> Rounds]
    BY DEF Listing
  <1>2. f # None
    BY <1>1
  <1> QED BY <1>1, <1>2

LEMMA IsListing ==
  ASSUME NEW S \in SUBSET Peers, NEW f \in [S -> Rounds]
  PROVE  f \in Listing
  BY DEF Listing

LEMMA PreviousRound ==
  ASSUME NEW f \in Listing, NEW p \in Peers
  PROVE  Previous(f, p) \in Rounds
  BY ListingIs DEF Previous, Rounds

LEMMA WithListing ==
  ASSUME NEW f \in Listing, NEW p \in Peers, NEW n \in Rounds
  PROVE  /\ With(f, p, n) \in Listing
         /\ Previous(With(f, p, n), p) = n
         /\ \A q \in Peers \ {p} : Previous(With(f, p, n), q) = Previous(f, q)
  <1>1. /\ DOMAIN With(f, p, n) \in SUBSET Peers
        /\ With(f, p, n) \in [DOMAIN With(f, p, n) -> Rounds]
    BY ListingIs DEF With
  <1>2. With(f, p, n) \in Listing
    BY <1>1, IsListing
  <1>3. Previous(With(f, p, n), p) = n
    BY DEF Previous, With
  <1>4. \A q \in Peers \ {p} : Previous(With(f, p, n), q) = Previous(f, q)
    BY DEF Previous, With
  <1> QED BY <1>2, <1>3, <1>4

LEMMA WithoutListing ==
  ASSUME NEW f \in Listing, NEW p
  PROVE  /\ Without(f, p) \in Listing
         /\ DOMAIN Without(f, p) = DOMAIN f \ {p}
         /\ \A q \in DOMAIN f \ {p} : Without(f, p)[q] = f[q]
  <1>1. /\ DOMAIN Without(f, p) = DOMAIN f \ {p}
        /\ \A q \in DOMAIN f \ {p} : Without(f, p)[q] = f[q]
    BY DEF Without
  <1>2. /\ DOMAIN Without(f, p) \in SUBSET Peers
        /\ Without(f, p) \in [DOMAIN Without(f, p) -> Rounds]
    BY ListingIs DEF Without
  <1> QED BY <1>1, <1>2, IsListing

LEMMA EmptyListing == Empty \in Listing /\ DOMAIN Empty = {}
  <1>1. Empty \in [{} -> Rounds]
    BY DEF Empty
  <1> QED BY <1>1, IsListing DEF Empty

\* Whatever list_peers returns is a listing no newer than CORE.
LEMMA ListPeersUpto ==
  ASSUME rounds \in [Peers -> Rounds],
         NEW cache \in Listing \cup {None}, cache # None => Upto(cache),
         NEW l \in ListPeers(cache)
  PROVE  l \in Listing /\ Upto(l)
  <1>1. CASE cache # None
    BY <1>1 DEF ListPeers
  <1>2. ASSUME NEW f \in Pages PROVE f \in Listing /\ Upto(f)
    <2>1. PICK S \in SUBSET Known : f \in [S -> 1..MaxRounds]
      BY DEF Pages
    <2>2. S \in SUBSET Peers /\ f \in [S -> Rounds]
      BY <2>1 DEF Known, Rounds
    <2> QED BY <2>2, IsListing DEF Pages, Upto
  <1>3. CASE cache = None /\ l = [p \in Known |-> rounds[p]]
    <2>1. Known \in SUBSET Peers /\ l \in [Known -> Rounds]
      BY <1>3 DEF Known
    <2> QED BY <1>3, <2>1, IsListing DEF Upto, Rounds
  <1>4. CASE cache = None /\ l \in Partial
    <2>1. PICK f \in Pages :
            l = [p \in DOMAIN f \cup Aliases |-> IF p \in Aliases THEN 0 ELSE f[p]]
      BY <1>4 DEF Partial
    <2>2. f \in Listing /\ Upto(f) /\ DOMAIN f \in SUBSET Peers
      BY <1>2, ListingIs
    <2>3. DOMAIN f \cup Aliases \in SUBSET Peers /\ l \in [DOMAIN f \cup Aliases -> Rounds]
      BY <2>1, <2>2, ListingIs DEF Rounds
    <2>4. l \in Listing
      BY <2>3, IsListing
    <2> QED BY <2>1, <2>2, <2>4 DEF Upto, Rounds
  <1> QED BY <1>1, <1>2, <1>3, <1>4 DEF ListPeers, Complete

----------------------------------------------------------------------------
(* The initial state.                                                      *)

LEMMA InitInv == Init => Inv
  <1> SUFFICES ASSUME Init PROVE Inv
    OBVIOUS
  <1>0. Empty \in Listing /\ DOMAIN Empty = {}
    BY EmptyListing
  <1>1. TypeOK
    BY <1>0 DEF Init, TypeOK, Nothing, Nowhere, NoTask, NoRound, Rounds, Tasks
  <1>2. Behind
    BY <1>0 DEF Init, Behind, Upto, Rounds, Tasks
  <1>3. CacheFresh
    BY DEF Init, CacheFresh, Busy, Nothing, NoTask, Nowhere, Tasks
  <1>4. InOrder
    BY <1>0 DEF Init, InOrder, Busy, NoTask, NoRound, Nowhere, Tasks, Previous
  <1> QED BY <1>1, <1>2, <1>3, <1>4 DEF Inv
----------------------------------------------------------------------------
(* The steps.                                                              *)

\* Nothing an Evaluate reads or caches is older than CORE's floor for a task.
LEMMA EvaluateInv ==
  ASSUME Inv, NEW t \in Tasks, Busy(t), Evaluate(t), UNCHANGED rounds
  PROVE  /\ listed' \in Listing \cup {None}
         /\ messages' \in [Peers -> Rounds \cup {None}]
         /\ view' \in [Tasks -> [peer : Peers, round : Rounds] \cup {None}]
         /\ \A u \in Tasks : Busy(u) => \A p \in Peers :
              messages'[p] # None => messages'[p] >= floor[u][p]
         /\ \A u \in Tasks : u # t => view'[u] = view[u]
         /\ view'[t] # None => view'[t].round >= floor[t][view'[t].peer]
  <1>0. TypeOK /\ Behind /\ CacheFresh
    BY DEF Inv
  <1>1. PICK l \in ListPeers(listed) :
          /\ listed' = l
          /\ \/ view' = [view EXCEPT ![t] = None] /\ UNCHANGED messages
             \/ \E p \in DOMAIN l \cup Aliases :
                  LET n == IF messages[p] # None THEN messages[p] ELSE rounds[p]
                  IN /\ messages' = [messages EXCEPT ![p] = n]
                     /\ view' = [view EXCEPT ![t] = [peer |-> p, round |-> n]]
    BY DEF Evaluate
  <1>2. l \in Listing /\ DOMAIN l \in SUBSET Peers
    <2>1. CASE listed # None
      BY <1>0, <2>1, ListingIs DEF ListPeers, TypeOK
    <2>2. CASE listed = None
      <3>1. ListPeers(listed) = ListPeers(None)
        BY <2>2
      <3> QED BY <1>0, <1>1, <3>1, ListPeersUpto, ListingIs DEF TypeOK
    <2> QED BY <2>1, <2>2
  <1>3. CASE view' = [view EXCEPT ![t] = None] /\ UNCHANGED messages
    BY <1>0, <1>1, <1>2, <1>3 DEF TypeOK, CacheFresh
  <1>4. ASSUME NEW p \in DOMAIN l \cup Aliases, NEW n,
               n = IF messages[p] # None THEN messages[p] ELSE rounds[p],
               messages' = [messages EXCEPT ![p] = n],
               view' = [view EXCEPT ![t] = [peer |-> p, round |-> n]]
        PROVE  /\ messages' \in [Peers -> Rounds \cup {None}]
               /\ view' \in [Tasks -> [peer : Peers, round : Rounds] \cup {None}]
               /\ \A u \in Tasks : Busy(u) => \A q \in Peers :
                    messages'[q] # None => messages'[q] >= floor[u][q]
               /\ \A u \in Tasks : u # t => view'[u] = view[u]
               /\ view'[t] # None => view'[t].round >= floor[t][view'[t].peer]
    <2>1. p \in Peers /\ n \in Rounds
      BY <1>0, <1>2, <1>4 DEF TypeOK
    <2>2. \A u \in Tasks : Busy(u) => n >= floor[u][p]
      BY <1>0, <1>4, <2>1 DEF TypeOK, Behind, CacheFresh, Rounds
    <2>3. messages' \in [Peers -> Rounds \cup {None}]
      BY <1>0, <1>4, <2>1 DEF TypeOK
    <2>4. view' \in [Tasks -> [peer : Peers, round : Rounds] \cup {None}]
      BY <1>0, <1>4, <2>1 DEF TypeOK
    <2>5. \A u \in Tasks : Busy(u) => \A q \in Peers :
            messages'[q] # None => messages'[q] >= floor[u][q]
      BY <1>0, <1>4, <2>1, <2>2 DEF TypeOK, CacheFresh
    <2>6. /\ \A u \in Tasks : u # t => view'[u] = view[u]
          /\ view'[t] = [peer |-> p, round |-> n]
      BY <1>0, <1>4 DEF TypeOK
    <2> QED BY <2>2, <2>3, <2>4, <2>5, <2>6
  <1> QED BY <1>1, <1>2, <1>3, <1>4

\* What Proceed makes of a watcher, from a snapshot and a rest that are in order.
LEMMA ProceedInv ==
  ASSUME Inv, NEW w \in Watchers, NEW rest \in Listing, Proceed(w, rest),
         UNCHANGED rounds,
         snapshot' \in [Watchers -> Listing],
         \A u \in Watchers : u # w => snapshot'[u] = snapshot[u],
         view' \in [Tasks -> [peer : Peers, round : Rounds] \cup {None}],
         \A u \in Tasks : u # w => view'[u] = view[u],
         view'[w] = None,
         Upto(rest),
         \A p \in Peers : reported[w][p] <= Previous(snapshot'[w], p),
         \A p \in DOMAIN rest : rest[p] > Previous(snapshot'[w], p)
  PROVE  /\ left' \in [Watchers -> Listing]
         /\ pc' \in [Tasks -> {"starting", "asleep", "idle", "queued", "acting"}]
         /\ event' \in [Tasks -> Report \cup {None}]
         /\ floor' \in [Tasks -> [Peers -> Rounds]]
         /\ reported' \in [Watchers -> [Peers -> Rounds]]
         /\ listed' \in Listing \cup {None}
         /\ messages' \in [Peers -> Rounds \cup {None}]
         /\ \A u \in Watchers : Upto(left'[u])
         /\ \A t \in Tasks : \A p \in Peers : floor'[t][p] <= rounds[p]
         /\ CacheFresh' /\ InOrder'
  <1>0. TypeOK /\ Behind /\ CacheFresh /\ InOrder /\ w \in Tasks
    BY DEF Inv, Tasks
  <1>e. Empty \in Listing /\ DOMAIN Empty = {}
    BY EmptyListing
  <1>1. CASE /\ DOMAIN rest = {}
             /\ pc' = [pc EXCEPT ![w] = "asleep"]
             /\ left' = [left EXCEPT ![w] = Empty]
             /\ event' = [event EXCEPT ![w] = None]
             /\ UNCHANGED <<engineCache, reported, floor>>
    <2>1. /\ left' \in [Watchers -> Listing]
          /\ pc' \in [Tasks -> {"starting", "asleep", "idle", "queued", "acting"}]
          /\ event' \in [Tasks -> Report \cup {None}]
          /\ floor' \in [Tasks -> [Peers -> Rounds]]
          /\ reported' \in [Watchers -> [Peers -> Rounds]]
          /\ listed' \in Listing \cup {None}
          /\ messages' \in [Peers -> Rounds \cup {None}]
      BY <1>0, <1>1, <1>e DEF TypeOK, engineCache
    <2>2. \A u \in Watchers : Upto(left'[u])
      BY <1>0, <1>1, <1>e DEF TypeOK, Behind, Upto
    <2>3. \A t \in Tasks : \A p \in Peers : floor'[t][p] <= rounds[p]
      BY <1>0, <1>1 DEF Behind
    <2>4. CacheFresh'
      <3>1. \A t \in Tasks : Busy(t)' => Busy(t)
        BY <1>0, <1>1 DEF TypeOK, Busy
      <3>2. \A t \in Tasks : t # w => pc'[t] = pc[t]
        BY <1>0, <1>1 DEF TypeOK
      <3>3. \A u \in Watchers : event'[u] # None => event'[u] = event[u]
        BY <1>0, <1>1 DEF TypeOK, Tasks
      <3> QED BY <1>0, <1>1, <3>1, <3>2, <3>3 DEF CacheFresh, engineCache
    <2>5. InOrder'
      <3>1. \A u \in Watchers : u # w =>
              /\ pc'[u] = pc[u] /\ event'[u] = event[u] /\ left'[u] = left[u]
              /\ snapshot'[u] = snapshot[u] /\ reported'[u] = reported[u]
        BY <1>0, <1>1 DEF TypeOK, Tasks
      <3>2. /\ pc'[w] = "asleep" /\ event'[w] = None /\ left'[w] = Empty
            /\ reported'[w] = reported[w]
        BY <1>0, <1>1 DEF TypeOK
      <3> QED BY <1>0, <1>e, <3>1, <3>2 DEF InOrder, Busy
    <2> QED BY <2>1, <2>2, <2>3, <2>4, <2>5
  <1>2. ASSUME NEW p \in DOMAIN rest,
               pc' = [pc EXCEPT ![w] = "queued"],
               left' = [left EXCEPT ![w] = Without(rest, p)],
               event' = [event EXCEPT ![w] =
                 [peer |-> p, prev |-> Previous(snapshot'[w], p), new |-> rest[p]]],
               reported' = [reported EXCEPT ![w][p] = rest[p]],
               floor' = [floor EXCEPT ![w] = rounds],
               Invalidate
        PROVE  /\ left' \in [Watchers -> Listing]
               /\ pc' \in [Tasks -> {"starting", "asleep", "idle", "queued", "acting"}]
               /\ event' \in [Tasks -> Report \cup {None}]
               /\ floor' \in [Tasks -> [Peers -> Rounds]]
               /\ reported' \in [Watchers -> [Peers -> Rounds]]
               /\ listed' \in Listing \cup {None}
               /\ messages' \in [Peers -> Rounds \cup {None}]
               /\ \A u \in Watchers : Upto(left'[u])
               /\ \A t \in Tasks : \A q \in Peers : floor'[t][q] <= rounds[q]
               /\ CacheFresh' /\ InOrder'
    <2>0. p \in Peers /\ rest[p] \in Rounds /\ rest[p] <= rounds[p]
      BY ListingIs DEF Upto
    <2>1. Previous(snapshot'[w], p) \in Rounds
      BY <2>0, PreviousRound
    <2>2. /\ Without(rest, p) \in Listing
          /\ DOMAIN Without(rest, p) = DOMAIN rest \ {p}
          /\ \A q \in DOMAIN rest \ {p} : Without(rest, p)[q] = rest[q]
      BY WithoutListing
    <2>3. /\ left' \in [Watchers -> Listing]
          /\ pc' \in [Tasks -> {"starting", "asleep", "idle", "queued", "acting"}]
          /\ event' \in [Tasks -> Report \cup {None}]
      BY <1>0, <1>2, <2>0, <2>1, <2>2 DEF TypeOK, Report
    <2>4. /\ floor' \in [Tasks -> [Peers -> Rounds]]
          /\ listed' \in Listing \cup {None}
          /\ messages' \in [Peers -> Rounds \cup {None}]
      BY <1>0, <1>2 DEF TypeOK, Invalidate, Nothing
    <2>5. reported' \in [Watchers -> [Peers -> Rounds]]
      BY <1>0, <1>2, <2>0 DEF TypeOK
    <2>6. \A u \in Watchers : Upto(left'[u])
      BY <1>0, <1>2, <2>2 DEF TypeOK, Behind, Upto
    <2>7. \A t \in Tasks : \A q \in Peers : floor'[t][q] <= rounds[q]
      BY <1>0, <1>2 DEF TypeOK, Behind, Rounds
    <2>8. \A t \in Tasks : t # w =>
            pc'[t] = pc[t] /\ event'[t] = event[t] /\ floor'[t] = floor[t]
      BY <1>0, <1>2 DEF TypeOK
    <2>9. /\ pc'[w] = "queued" /\ floor'[w] = rounds /\ left'[w] = Without(rest, p)
          /\ event'[w] = [peer |-> p, prev |-> Previous(snapshot'[w], p), new |-> rest[p]]
      BY <1>0, <1>2 DEF TypeOK
    <2>10. event'[w] # None
      <3>1. event'[w] \in Report
        BY <2>0, <2>1, <2>9 DEF Report
      <3> QED BY <3>1
    <2>11. CacheFresh'
      <3>1. \A q \in Peers : messages'[q] = None
        BY <1>2 DEF Invalidate, Nothing
      <3>2. \A t \in Tasks : view'[t] # None => t # w /\ view'[t] = view[t]
        OBVIOUS
      <3>3. \A u \in Watchers : event'[u] # None =>
              event'[u].new <= floor'[u][event'[u].peer]
        BY <1>0, <2>0, <2>8, <2>9 DEF CacheFresh, Tasks
      <3> QED BY <1>0, <2>8, <3>1, <3>2, <3>3 DEF CacheFresh
    <2>12. InOrder'
      <3>1. \A u \in Watchers : u # w =>
              /\ left'[u] = left[u] /\ snapshot'[u] = snapshot[u]
              /\ reported'[u] = reported[u] /\ pc'[u] = pc[u] /\ event'[u] = event[u]
        BY <1>0, <1>2, <2>8 DEF TypeOK, Tasks
      <3>2. /\ reported'[w][p] = rest[p]
            /\ \A q \in Peers \ {p} : reported'[w][q] = reported[w][q]
        BY <1>0, <1>2, <2>0 DEF TypeOK
      <3>3. /\ event'[w].peer = p /\ event'[w].new = rest[p]
        BY <2>9
      <3>4. \A q \in Peers :
              \/ reported'[w][q] <= Previous(snapshot'[w], q)
              \/ event'[w] # None /\ event'[w].peer = q /\ event'[w].new = reported'[w][q]
        BY <2>10, <3>2, <3>3
      <3>5. \A q \in DOMAIN left'[w] :
              /\ left'[w][q] > Previous(snapshot'[w], q)
              /\ event'[w] # None => event'[w].peer # q
        BY <2>2, <2>9, <3>3
      <3>6. /\ event'[w] # None <=> Busy(w)'
            /\ pc'[w] # "starting"
            /\ event'[w].new > Previous(snapshot'[w], event'[w].peer)
        BY <2>9, <2>10, <3>3 DEF Busy
      <3> QED BY <1>0, <3>1, <3>4, <3>5, <3>6 DEF InOrder, Busy
    <2> QED BY <2>3, <2>4, <2>5, <2>6, <2>7, <2>11, <2>12
  <1> QED BY <1>1, <1>2 DEF Proceed
\* Every step preserves the invariant, when no caller skips the invalidation.
LEMMA NextInv == AllTracked /\ Inv /\ [Next]_vars => Inv'
  <1> SUFFICES ASSUME AllTracked, Inv, [Next]_vars PROVE Inv'
    OBVIOUS
  <1>0. TypeOK /\ Behind /\ CacheFresh /\ InOrder
    BY DEF Inv
  <1>e. Empty \in Listing /\ DOMAIN Empty = {}
    BY EmptyListing
  <1>1. ASSUME NEW p \in Peers, NewRound(p) PROVE Inv'
    <2> USE <1>1 DEF NewRound, engineCache, watch
    <2>1. rounds' \in [Peers -> Rounds] /\ \A q \in Peers : rounds'[q] >= rounds[q]
      BY <1>0 DEF TypeOK, Rounds
    <2>2. \A l \in Listing : Upto(l) => Upto(l)'
      BY <1>0, <2>1, ListingIs DEF Upto, TypeOK, Rounds
    <2>3. TypeOK'
      BY <1>0, <2>1 DEF TypeOK
    <2>4. Behind'
      <3>1. polled' # None => Upto(polled)'
        BY <1>0, <2>2 DEF Behind, TypeOK
      <3>2. \A w \in Watchers : Upto(left[w])'
        BY <1>0, <2>2 DEF Behind, TypeOK
      <3>3. \A t \in Tasks : \A q \in Peers : floor'[t][q] <= rounds'[q]
        BY <1>0, <2>1 DEF Behind, TypeOK, Rounds
      <3> QED BY <3>1, <3>2, <3>3 DEF Behind, Upto
    <2>5. CacheFresh' /\ InOrder'
      BY <1>0 DEF CacheFresh, InOrder, Busy, Previous
    <2> QED BY <2>3, <2>4, <2>5 DEF Inv
  <1>2. ASSUME NEW t \in Callers, Call(t) PROVE Inv'
    <2> USE <1>2 DEF Call, watch
    <2>0. t \in Tasks /\ t \notin Watchers
      BY DEF Tasks
    <2>1. listed' = None /\ messages' = Nothing
      BY DEF AllTracked, Invalidate
    <2>2. /\ \A u \in Tasks : u # t => pc'[u] = pc[u] /\ floor'[u] = floor[u]
          /\ pc'[t] = "queued" /\ floor'[t] = rounds
      BY <1>0, <2>0 DEF TypeOK
    <2>3. TypeOK'
      BY <1>0, <2>0, <2>1 DEF TypeOK, Nothing
    <2>4. Behind'
      BY <1>0, <2>0, <2>2 DEF Behind, TypeOK, Upto, Rounds
    <2>5. CacheFresh'
      <3>1. \A q \in Peers : messages'[q] = None
        BY <2>1 DEF Nothing
      <3>2. view[t] = None
        BY <1>0, <2>0 DEF CacheFresh
      <3> QED BY <1>0, <2>0, <2>2, <3>1, <3>2 DEF CacheFresh, Tasks
    <2>6. InOrder'
      BY <1>0, <2>0, <2>2 DEF InOrder, Busy, Previous, Tasks
    <2> QED BY <2>3, <2>4, <2>5, <2>6 DEF Inv
  <1>3. ASSUME NEW w \in Watchers, Start(w) PROVE Inv'
    <2> USE <1>3 DEF Start, engineCache
    <2>0. w \in Tasks
      BY DEF Tasks
    <2>1. PICK l \in ListPeers(polled) :
            /\ polled' = l
            /\ snapshot' = [snapshot EXCEPT ![w] = [p \in DOMAIN l \cap Watches[w] |-> l[p]]]
            /\ reported' = [reported EXCEPT ![w] = [p \in Peers |-> Previous(snapshot'[w], p)]]
      OBVIOUS
    <2>2. l \in Listing /\ Upto(l)
      BY <1>0, ListPeersUpto DEF TypeOK, Behind
    <2>3. [p \in DOMAIN l \cap Watches[w] |-> l[p]] \in Listing
      <3>1. /\ DOMAIN l \cap Watches[w] \in SUBSET Peers
            /\ [p \in DOMAIN l \cap Watches[w] |-> l[p]] \in [DOMAIN l \cap Watches[w] -> Rounds]
        BY <2>2, ListingIs
      <3> QED BY <3>1, IsListing
    <2>4. /\ \A u \in Tasks : u # w => pc'[u] = pc[u]
          /\ \A u \in Watchers : u # w => snapshot'[u] = snapshot[u]
          /\ pc'[w] = "asleep" /\ snapshot'[w] \in Listing
      BY <1>0, <2>0, <2>1, <2>3 DEF TypeOK
    <2>9. /\ reported' \in [Watchers -> [Peers -> Rounds]]
          /\ \A p \in Peers : reported'[w][p] = Previous(snapshot'[w], p)
          /\ \A u \in Watchers : u # w => reported'[u] = reported[u]
      <3>1. [p \in Peers |-> Previous(snapshot'[w], p)] \in [Peers -> Rounds]
        BY <2>4, PreviousRound
      <3> QED BY <1>0, <2>1, <3>1 DEF TypeOK
    <2>5. TypeOK'
      BY <1>0, <2>0, <2>1, <2>2, <2>3, <2>9 DEF TypeOK
    <2>6. Behind'
      BY <1>0, <2>1, <2>2 DEF Behind, Upto
    <2>7. CacheFresh'
      BY <1>0, <2>0, <2>4 DEF CacheFresh, Busy
    <2>8. InOrder'
      <3>1. ~Busy(w) /\ event[w] = None /\ ~Busy(w)'
        BY <1>0, <2>0, <2>4 DEF InOrder, Busy
      <3>2. \A p \in Peers : reported'[w][p] <= Previous(snapshot'[w], p)
        BY <2>4, <2>9, PreviousRound DEF Rounds
      <3>3. /\ DOMAIN left'[w] = {} /\ event'[w] = None /\ pc'[w] # "starting"
            /\ UNCHANGED <<left, event>>
        BY <1>0, <2>0, <2>4, <3>1 DEF InOrder
      <3>4. \A u \in Watchers : u # w => pc'[u] = pc[u]
        BY <2>4 DEF Tasks
      <3>5. \A u \in Watchers : event'[u] # None <=> Busy(u)'
        BY <1>0, <3>1, <3>3, <3>4 DEF InOrder, Busy
      <3>6. \A u \in Watchers : pc'[u] = "starting" =>
              reported'[u] = NoRound /\ DOMAIN left'[u] = {}
        BY <1>0, <2>9, <3>3, <3>4 DEF InOrder
      <3>7. \A u \in Watchers : \A p \in Peers :
              \/ reported'[u][p] <= Previous(snapshot'[u], p)
              \/ event'[u] # None /\ event'[u].peer = p /\ event'[u].new = reported'[u][p]
        <4> SUFFICES ASSUME NEW u \in Watchers, NEW p \in Peers
                     PROVE  \/ reported'[u][p] <= Previous(snapshot'[u], p)
                            \/ /\ event'[u] # None /\ event'[u].peer = p
                               /\ event'[u].new = reported'[u][p]
          OBVIOUS
        <4>1. CASE u = w
          BY <3>2, <4>1
        <4>2. CASE u # w
          BY <1>0, <2>4, <2>9, <3>3, <4>2 DEF InOrder
        <4> QED BY <4>1, <4>2
      <3>8. \A u \in Watchers : event'[u] # None =>
              event'[u].new > Previous(snapshot'[u], event'[u].peer)
        BY <1>0, <2>4, <3>3 DEF InOrder
      <3>9. \A u \in Watchers : \A p \in DOMAIN left'[u] :
              /\ left'[u][p] > Previous(snapshot'[u], p)
              /\ event'[u] # None => event'[u].peer # p
        BY <1>0, <2>4, <3>3 DEF InOrder
      <3> QED BY <3>5, <3>6, <3>7, <3>8, <3>9 DEF InOrder
    <2> QED BY <2>5, <2>6, <2>7, <2>8 DEF Inv
  <1>4. ASSUME NEW w \in Watchers, NEW l \in ListPeers(polled), Poll(w, l) PROVE Inv'
    <2> USE <1>4 DEF Poll
    <2>0. w \in Tasks /\ event[w] = None /\ view[w] = None
      BY <1>0 DEF Tasks, InOrder, CacheFresh, Busy
    <2>1. l \in Listing /\ Upto(l)
      BY <1>0, ListPeersUpto DEF TypeOK, Behind
    <2> DEFINE rest == [p \in Grown(w, l) |-> l[p]]
    <2>2. /\ rest \in Listing /\ Upto(rest)
          /\ \A p \in DOMAIN rest : rest[p] > Previous(snapshot'[w], p)
      <3>1. Grown(w, l) \in SUBSET Peers /\ Grown(w, l) \in SUBSET DOMAIN l
        BY <2>1, ListingIs DEF Grown
      <3>2. rest \in [Grown(w, l) -> Rounds]
        BY <2>1, <3>1, ListingIs
      <3> QED BY <2>1, <3>1, <3>2, IsListing DEF Grown, Upto
    <2>3. \A p \in Peers : reported[w][p] <= Previous(snapshot'[w], p)
      BY <1>0, <2>0 DEF InOrder
    <2>4. Proceed(w, rest)
      OBVIOUS
    <2> HIDE DEF rest
    <2>5. /\ left' \in [Watchers -> Listing]
          /\ pc' \in [Tasks -> {"starting", "asleep", "idle", "queued", "acting"}]
          /\ event' \in [Tasks -> Report \cup {None}]
          /\ floor' \in [Tasks -> [Peers -> Rounds]]
          /\ reported' \in [Watchers -> [Peers -> Rounds]]
          /\ listed' \in Listing \cup {None}
          /\ messages' \in [Peers -> Rounds \cup {None}]
          /\ \A u \in Watchers : Upto(left'[u])
          /\ \A t \in Tasks : \A p \in Peers : floor'[t][p] <= rounds[p]
          /\ CacheFresh' /\ InOrder'
      <3>1. /\ snapshot' \in [Watchers -> Listing]
            /\ view' \in [Tasks -> [peer : Peers, round : Rounds] \cup {None}]
        BY <1>0 DEF TypeOK
      <3> QED BY <2>0, <2>2, <2>3, <2>4, <3>1, ProceedInv
    <2>6. TypeOK'
      BY <1>0, <2>1, <2>5 DEF TypeOK
    <2>7. Behind'
      BY <1>0, <2>1, <2>5 DEF Behind, Upto
    <2> QED BY <2>5, <2>6, <2>7 DEF Inv
  <1>5. ASSUME NEW t \in Tasks, Handle(t) PROVE Inv'
    <2> USE <1>5 DEF Handle, watch
    <2>1. /\ listed' \in Listing \cup {None}
          /\ messages' \in [Peers -> Rounds \cup {None}]
          /\ view' \in [Tasks -> [peer : Peers, round : Rounds] \cup {None}]
          /\ \A u \in Tasks : Busy(u) => \A p \in Peers :
               messages'[p] # None => messages'[p] >= floor[u][p]
          /\ \A u \in Tasks : u # t => view'[u] = view[u]
          /\ view'[t] # None => view'[t].round >= floor[t][view'[t].peer]
      BY EvaluateInv DEF Busy
    <2>2. /\ pc'[t] = "acting" /\ \A u \in Tasks : u # t => pc'[u] = pc[u]
          /\ \A u \in Tasks : Busy(u)' <=> Busy(u)
      BY <1>0 DEF TypeOK, Busy
    <2>3. TypeOK'
      BY <1>0, <2>1 DEF TypeOK
    <2>4. Behind'
      BY <1>0 DEF Behind, Upto
    <2>5. CacheFresh'
      BY <1>0, <2>1, <2>2 DEF CacheFresh
    <2>6. InOrder'
      BY <1>0, <2>2 DEF InOrder, Busy, Previous, Tasks
    <2> QED BY <2>3, <2>4, <2>5, <2>6 DEF Inv
  <1>6. ASSUME NEW t \in Tasks, Render(t) PROVE Inv'
    <2> USE <1>6 DEF Render, watch
    <2>1. /\ listed' \in Listing \cup {None}
          /\ messages' \in [Peers -> Rounds \cup {None}]
          /\ view' \in [Tasks -> [peer : Peers, round : Rounds] \cup {None}]
          /\ \A u \in Tasks : Busy(u) => \A p \in Peers :
               messages'[p] # None => messages'[p] >= floor[u][p]
          /\ \A u \in Tasks : u # t => view'[u] = view[u]
          /\ view'[t] # None => view'[t].round >= floor[t][view'[t].peer]
      BY EvaluateInv DEF Busy
    <2>2. TypeOK'
      BY <1>0, <2>1 DEF TypeOK
    <2>3. Behind' /\ InOrder'
      BY <1>0 DEF Behind, Upto, InOrder, Busy, Previous
    <2>4. CacheFresh'
      BY <1>0, <2>1 DEF CacheFresh, Busy
    <2> QED BY <2>2, <2>3, <2>4 DEF Inv
  <1>7. ASSUME NEW t \in Tasks, Finish(t) PROVE Inv'
    <2> USE <1>7 DEF Finish
    <2>0. /\ Busy(t) /\ view'[t] = None
          /\ \A u \in Tasks : u # t => view'[u] = view[u]
          /\ view' \in [Tasks -> [peer : Peers, round : Rounds] \cup {None}]
          /\ holder' \in [Plugins -> Tasks \cup {None}]
      BY <1>0 DEF Busy, TypeOK
    <2>1. CASE t \in Callers
      <3> USE <2>1 DEF watch, engineCache
      <3>0. /\ t \notin Watchers /\ pc' = [pc EXCEPT ![t] = "idle"]
            /\ UNCHANGED <<engineCache, watch, floor>>
        OBVIOUS
      <3>1. \A u \in Tasks : u # t => pc'[u] = pc[u]
        BY <1>0, <3>0 DEF TypeOK
      <3>2. TypeOK'
        BY <1>0, <2>0, <3>0 DEF TypeOK
      <3>3. Behind'
        BY <1>0, <3>0 DEF Behind, Upto
      <3>4. CacheFresh'
        BY <1>0, <2>0, <3>0, <3>1 DEF CacheFresh, Busy, TypeOK
      <3>5. InOrder'
        BY <1>0, <3>0, <3>1 DEF InOrder, Busy, Previous, Tasks
      <3> QED BY <3>2, <3>3, <3>4, <3>5 DEF Inv
    <2>2. CASE t \in Watchers
      <3>0. /\ snapshot' = [snapshot EXCEPT ![t] = Updated(t)]
            /\ Proceed(t, left[t])
        BY <2>2
      <3>1. event[t] \in Report /\ left[t] \in Listing /\ snapshot[t] \in Listing
        BY <1>0, <2>0, <2>2 DEF InOrder, TypeOK
      <3> DEFINE p == event[t].peer
                 n == event[t].new
      <3>2. p \in Peers /\ n \in Rounds
        BY <3>1 DEF Report
      <3>3. /\ Updated(t) \in Listing
            /\ Previous(Updated(t), p) = n
            /\ \A q \in Peers \ {p} : Previous(Updated(t), q) = Previous(snapshot[t], q)
        BY <3>1, <3>2, WithListing DEF Updated
      <3>4. /\ snapshot' \in [Watchers -> Listing] /\ snapshot'[t] = Updated(t)
            /\ \A u \in Watchers : u # t => snapshot'[u] = snapshot[u]
        BY <1>0, <2>2, <3>0, <3>3 DEF TypeOK
      <3>5. \A q \in Peers : reported[t][q] <= Previous(snapshot'[t], q)
        <4>1. reported[t][p] \in Rounds
          BY <1>0, <2>2, <3>2 DEF TypeOK
        <4>2. reported[t][p] <= Previous(snapshot'[t], p)
          <5>1. CASE reported[t][p] = n
            BY <3>2, <3>3, <3>4, <5>1 DEF Rounds
          <5>2. CASE reported[t][p] <= Previous(snapshot[t], p)
            <6>1. n > Previous(snapshot[t], p)
              BY <1>0, <2>2, <3>1, <3>2 DEF InOrder
            <6>2. Previous(snapshot[t], p) \in Rounds
              BY <3>1, <3>2, PreviousRound
            <6> QED BY <3>2, <3>3, <3>4, <4>1, <5>2, <6>1, <6>2 DEF Rounds
          <5> QED BY <1>0, <2>2, <3>2, <5>1, <5>2 DEF InOrder
        <4>3. \A q \in Peers \ {p} : reported[t][q] <= Previous(snapshot'[t], q)
          BY <1>0, <2>2, <3>3, <3>4 DEF InOrder
        <4> QED BY <4>2, <4>3
      <3>6. \A q \in DOMAIN left[t] : left[t][q] > Previous(snapshot'[t], q)
        <4>1. \A q \in DOMAIN left[t] : q \in Peers \ {p}
          BY <1>0, <2>0, <2>2, <3>1, ListingIs DEF InOrder
        <4> QED BY <1>0, <2>2, <3>3, <3>4, <4>1 DEF InOrder
      <3>7. Upto(left[t])
        BY <1>0, <2>2 DEF Behind
      <3>8. /\ left' \in [Watchers -> Listing]
            /\ pc' \in [Tasks -> {"starting", "asleep", "idle", "queued", "acting"}]
            /\ event' \in [Tasks -> Report \cup {None}]
            /\ floor' \in [Tasks -> [Peers -> Rounds]]
            /\ reported' \in [Watchers -> [Peers -> Rounds]]
            /\ listed' \in Listing \cup {None}
            /\ messages' \in [Peers -> Rounds \cup {None}]
            /\ \A u \in Watchers : Upto(left'[u])
            /\ \A u \in Tasks : \A q \in Peers : floor'[u][q] <= rounds[q]
            /\ CacheFresh' /\ InOrder'
        BY <2>0, <2>2, <3>0, <3>1, <3>4, <3>5, <3>6, <3>7, ProceedInv
      <3>9. TypeOK'
        BY <1>0, <2>0, <3>4, <3>8 DEF TypeOK
      <3>10. Behind'
        BY <1>0, <3>8 DEF Behind, Upto
      <3> QED BY <3>8, <3>9, <3>10 DEF Inv
    <2> QED BY <2>1, <2>2
  <1>8. CASE Expire
    <2> USE <1>8 DEF Expire, watch, engineCache
    <2>1. TypeOK'
      BY <1>0 DEF TypeOK
    <2>2. Behind' /\ InOrder'
      BY <1>0 DEF Behind, Upto, InOrder, Busy, Previous
    <2>3. \A p \in Peers : messages'[p] # None => messages'[p] = messages[p]
      BY <1>0 DEF TypeOK
    <2>4. CacheFresh'
      BY <1>0, <2>3 DEF CacheFresh, Busy
    <2> QED BY <2>1, <2>2, <2>4 DEF Inv
  <1>9. CASE Restart
    <2> USE <1>9 DEF Restart
    <2>1. TypeOK'
      BY <1>0, <1>e DEF TypeOK, Nothing, Nowhere, NoTask, NoRound, Rounds, Tasks
    <2>2. Behind'
      BY <1>0, <1>e DEF Behind, Upto, TypeOK, Rounds
    <2>3. CacheFresh'
      BY DEF CacheFresh, Busy, Nothing, NoTask, Nowhere, Tasks
    <2>4. InOrder'
      <3>1. \A w \in Watchers : /\ event'[w] = None /\ pc'[w] = "starting"
                               /\ left'[w] = Empty /\ snapshot'[w] = Empty
                               /\ reported'[w] = NoRound
        BY DEF NoTask, Nowhere, Tasks
      <3>2. \A p \in Peers : NoRound[p] <= Previous(Empty, p)
        BY <1>e DEF NoRound, Previous
      <3> QED BY <1>e, <3>1, <3>2 DEF InOrder, Busy
    <2> QED BY <2>1, <2>2, <2>3, <2>4 DEF Inv
  <1>10. CASE UNCHANGED vars
    BY <1>0, <1>10 DEF vars, engineCache, watch, Inv, TypeOK, Behind, Upto,
       CacheFresh, InOrder, Busy, Previous
  <1> QED
    BY <1>1, <1>2, <1>3, <1>4, <1>5, <1>6, <1>7, <1>8, <1>9, <1>10 DEF Next
----------------------------------------------------------------------------
(* The theorems.                                                           *)

\* Inv is an invariant of a host whose callers all go through
\* run_tracked_transition, whatever the polls return.  (statechart.py:167-192,
\* trigger_impl.py:256-311)
THEOREM InvHolds == AllTracked => (Spec => []Inv)
  <1>1. Init => Inv
    BY InitInv
  <1>2. AllTracked /\ Inv /\ [Next]_vars => Inv'
    BY NextInv
  <1> SUFFICES ASSUME AllTracked PROVE Spec => []Inv
    OBVIOUS
  <1>3. Inv /\ [Next]_vars => Inv'
    BY <1>2
  <1> QED BY <1>1, <1>3, PTL DEF Spec

\* Every variable keeps its type.
THEOREM TypeCorrect == AllTracked => (Spec => []TypeOK)
  <1> SUFFICES ASSUME AllTracked PROVE Spec => []TypeOK
    OBVIOUS
  <1>1. Spec => []Inv
    BY InvHolds
  <1>2. Inv => TypeOK
    BY DEF Inv
  <1> QED BY <1>1, <1>2, PTL

\* No guard or template reads messages older than its event's delivery,
\* whatever other transitions and plugins cached while it waited.
THEOREM GuardsAreFresh == AllTracked => (Spec => []FreshGuard)
  <1> SUFFICES ASSUME AllTracked PROVE Spec => []FreshGuard
    OBVIOUS
  <1>1. Spec => []Inv
    BY InvHolds
  <1>2. Inv => FreshGuard
    BY DEF Inv, CacheFresh, FreshGuard
  <1> QED BY <1>1, <1>2, PTL

\* The round that a history_change event announces of a peer with an alias is
\* in what its guards and templates read of that peer.
THEOREM AnnouncedIsVisible == AllTracked => (Spec => []AnnouncedVisible)
  <1> SUFFICES ASSUME AllTracked PROVE Spec => []AnnouncedVisible
    OBVIOUS
  <1>1. Spec => []Inv
    BY InvHolds
  <1>2. Inv => AnnouncedVisible
    <2> SUFFICES ASSUME Inv, NEW w \in Watchers, view[w] # None, event[w] # None,
                        view[w].peer = event[w].peer
                 PROVE  view[w].round >= event[w].new
      BY DEF AnnouncedVisible
    <2>1. TypeOK /\ CacheFresh /\ w \in Tasks
      BY DEF Inv, Tasks
    <2>2. /\ view[w] \in [peer : Peers, round : Rounds] /\ event[w] \in Report
          /\ floor[w] \in [Peers -> Rounds]
      BY <2>1 DEF TypeOK
    <2>3. /\ view[w].round >= floor[w][view[w].peer]
          /\ event[w].new <= floor[w][event[w].peer]
      BY <2>1 DEF CacheFresh
    <2> QED BY <2>2, <2>3 DEF Report, Rounds
  <1> QED BY <1>1, <1>2, PTL

\* A watcher announces no round twice, however CORE fails.
THEOREM NoRoundTwice == AllTracked => (Spec => AtMostOnce)
  <1> SUFFICES ASSUME AllTracked PROVE Spec => AtMostOnce
    OBVIOUS
  <1>1. Spec => []Inv
    BY InvHolds
  <1> DEFINE Once == \A w \in Watchers : Fires(w) =>
               /\ event'[w].prev >= reported[w][event'[w].peer]
               /\ event'[w].new > event'[w].prev
  <1>2. Inv /\ [Next]_vars => [Once]_vars
    <2> SUFFICES ASSUME Inv, Next PROVE Once
      OBVIOUS
    <2>0. TypeOK /\ InOrder
      BY DEF Inv
    <2> SUFFICES ASSUME NEW w \in Watchers, Fires(w)
                 PROVE  /\ event'[w].prev >= reported[w][event'[w].peer]
                        /\ event'[w].new > event'[w].prev
      OBVIOUS
    <2>a. w \in Tasks
      BY DEF Tasks
    <2>1. ASSUME NEW u \in Watchers, NEW rest \in Listing, Proceed(u, rest),
                 \A p \in DOMAIN rest :
                   /\ rest[p] > Previous(snapshot'[u], p)
                   /\ Previous(snapshot'[u], p) >= reported[u][p]
          PROVE  /\ event'[w].prev >= reported[w][event'[w].peer]
                 /\ event'[w].new > event'[w].prev
      <3>1. u \in Tasks
        BY DEF Tasks
      <3>2. w = u
        BY <2>0, <2>1, <2>a, <3>1 DEF Proceed, Fires, TypeOK
      <3>3. PICK p \in DOMAIN rest : event'[w] =
              [peer |-> p, prev |-> Previous(snapshot'[u], p), new |-> rest[p]]
        BY <2>0, <2>1, <2>a, <3>2 DEF Proceed, Fires, TypeOK
      <3> QED BY <2>1, <3>2, <3>3
    <2>2. CASE \E u \in Watchers : \E l \in ListPeers(polled) : Poll(u, l)
      <3>1. PICK u \in Watchers, l \in ListPeers(polled) : Poll(u, l)
        BY <2>2
      <3>0. l \in Listing
        BY <2>0, ListPeersUpto DEF Inv, TypeOK, Behind
      <3>2. /\ Grown(u, l) \in SUBSET Peers /\ Grown(u, l) \in SUBSET DOMAIN l
            /\ [p \in Grown(u, l) |-> l[p]] \in [Grown(u, l) -> Rounds]
        BY <3>0, ListingIs DEF Grown
      <3>3. event[u] = None /\ snapshot' = snapshot
            /\ Proceed(u, [p \in Grown(u, l) |-> l[p]])
        BY <2>0, <3>1 DEF Poll, InOrder, Busy
      <3>4. \A p \in Grown(u, l) :
              /\ l[p] > Previous(snapshot'[u], p)
              /\ Previous(snapshot'[u], p) >= reported[u][p]
        BY <2>0, <3>2, <3>3 DEF Grown, InOrder
      <3>5. [p \in Grown(u, l) |-> l[p]] \in Listing
        BY <3>2, IsListing
      <3> QED BY <2>1, <3>3, <3>4, <3>5
    <2>3. CASE \E t \in Tasks : Finish(t)
      <3>1. PICK t \in Tasks : Finish(t)
        BY <2>3
      <3>2. CASE t \in Callers /\ UNCHANGED watch
        BY <3>2 DEF watch, Fires
      <3>3. CASE /\ t \in Watchers
                 /\ snapshot' = [snapshot EXCEPT ![t] = Updated(t)]
                 /\ Proceed(t, left[t])
        <4>1. /\ event[t] \in Report /\ left[t] \in Listing /\ snapshot[t] \in Listing
              /\ snapshot'[t] = Updated(t)
          BY <2>0, <3>1, <3>3 DEF Finish, InOrder, Busy, TypeOK
        <4>2. \A q \in Peers \ {event[t].peer} :
                Previous(snapshot'[t], q) = Previous(snapshot[t], q)
          BY <4>1, WithListing DEF Updated, Report
        <4>3. \A q \in DOMAIN left[t] : q \in Peers \ {event[t].peer}
          BY <2>0, <3>3, <4>1, ListingIs DEF InOrder
        <4>4. \A q \in DOMAIN left[t] :
                /\ left[t][q] > Previous(snapshot'[t], q)
                /\ Previous(snapshot'[t], q) >= reported[t][q]
          BY <2>0, <3>3, <4>2, <4>3 DEF InOrder
        <4> QED BY <2>1, <3>3, <4>1, <4>4
      <3> QED BY <3>1, <3>2, <3>3 DEF Finish
    <2>4. CASE Restart
      BY <2>4, <2>a DEF Restart, Fires, NoTask
    <2>5. CASE \/ \E p \in Peers : NewRound(p)
               \/ \E t \in Callers : Call(t)
               \/ \E u \in Watchers : Start(u)
               \/ \E t \in Tasks : Handle(t) \/ Render(t)
               \/ Expire
      <3>1. event' = event
        BY <2>5 DEF NewRound, Call, Start, Handle, Render, Expire, watch
      <3> QED BY <3>1 DEF Fires
    <2> QED BY <2>2, <2>3, <2>4, <2>5 DEF Next
  <1>3. [][Once]_vars <=> AtMostOnce
    BY DEF AtMostOnce
  <1> QED BY <1>1, <1>2, <1>3, PTL DEF Spec
=============================================================================
