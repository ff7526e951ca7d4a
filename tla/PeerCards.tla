------------------------------- MODULE PeerCards -------------------------------
(***************************************************************************)
(* Where a message is posted to: A2AClient._resolve_peer_url and the       *)
(* PeerCardCache under it (core/a2a_client.py), shared by the sends of all *)
(* plugins.  A card is looked for in memory, then in the peer's file, then *)
(* at CORE; only the last suspends the task.                               *)
(*                                                                         *)
(* CORE's agent card changes now and then; a card is its number.  Time is  *)
(* counted in ticks.                                                       *)
(***************************************************************************)
EXTENDS Integers

CONSTANTS
  Tasks,         \* transitions that send
  Peers,         \* those that are neither "self" nor an alias of spec.peers
  Ttl,           \* PeerCardCache.ttl_ms
  FetchTimeout,  \* the total timeout of a fetch
  DiskFaults,    \* whether reading or writing a file may fail
  MaxCards,      \* bound: cards CORE has in turn
  MaxTime,       \* bound: ticks
  MaxBoots,      \* bound: process starts
  None, Torn     \* no copy; a file cut short

Cards == 1..MaxCards
Times == 0..MaxTime
Copy == [card : Cards, fetched : Times]

ASSUME NamesAssumption ==
  None \notin Peers \cup Cards
  /\ None \notin Copy /\ Torn \notin Copy /\ None # Torn
ASSUME NumbersAssumption ==
  /\ Ttl \in Nat \ {0} /\ FetchTimeout \in Nat /\ DiskFaults \in BOOLEAN
  /\ MaxCards \in Nat \ {0} /\ MaxTime \in Nat /\ MaxBoots \in Nat \ {0}

VARIABLES
  now,      \* now_ms()
  card,     \* the card CORE serves
  until,    \* when each earlier card was replaced
  memory,   \* PeerCardCache._memory
  disk,     \* the files under peers/
  pc,       \* where each task is: elsewhere, waiting for a fetch, sending
  want,     \* the peer it fetches for
  since,    \* when its fetch began
  carried,  \* the card in the response on its way to it
  found,    \* the card whose address a task sends to
  boots

core == <<card, until>>
fetches == <<pc, want, since, carried>>
vars == <<now, core, memory, disk, fetches, found, boots>>

Init ==
  /\ now = 0 /\ card = 1 /\ until = [c \in Cards |-> 0]
  /\ memory = [p \in Peers |-> None] /\ disk = [p \in Peers |-> None]
  /\ pc = [t \in Tasks |-> "idle"] /\ want = [t \in Tasks |-> None]
  /\ since = [t \in Tasks |-> 0] /\ carried = [t \in Tasks |-> None]
  /\ found = [t \in Tasks |-> None] /\ boots = 1

----------------------------------------------------------------------------
(* The world outside.                                                      *)

\* No fetch outlives its timeout.
Tick ==
  /\ now < MaxTime /\ now' = now + 1
  /\ \A t \in Tasks : pc[t] = "fetching" => now - since[t] < FetchTimeout
  /\ UNCHANGED <<core, memory, disk, fetches, found, boots>>

NewCard ==
  /\ card < MaxCards /\ card' = card + 1
  /\ until' = [until EXCEPT ![card] = now]
  /\ UNCHANGED <<now, memory, disk, fetches, found, boots>>

\* CORE answers a request with the card it has then.
Serve(t) ==
  /\ pc[t] = "fetching" /\ carried[t] = None
  /\ carried' = [carried EXCEPT ![t] = card]
  /\ UNCHANGED <<now, core, memory, disk, pc, want, since, found, boots>>

----------------------------------------------------------------------------
(* PeerCardCache.get.                                                      *)

\* A copy that is there, can be parsed and is within its time to live.
Fresh(e) == e \notin {None, Torn} /\ now - e.fetched < Ttl

\* _resolve_peer_url makes the address out of the card, and the send keeps it
\* for all its attempts.
Found(t, c) ==
  /\ found' = [found EXCEPT ![t] = c]
  /\ pc' = [pc EXCEPT ![t] = "sending"]

FromMemory(t, p) ==
  /\ pc[t] = "idle" /\ Fresh(memory[p])
  /\ Found(t, memory[p].card)
  /\ UNCHANGED <<now, core, memory, disk, want, since, carried, boots>>

\* Mutant: a copy read from disk is as good as one just fetched.
Renewed(e) == [e EXCEPT !.fetched = now]
\* A copy read from disk keeps the time it was fetched at.
Loaded(e) == e

FromDisk(t, p) ==
  /\ pc[t] = "idle" /\ ~Fresh(memory[p]) /\ Fresh(disk[p])
  /\ memory' = [memory EXCEPT ![p] = Loaded(disk[p])]
  /\ Found(t, disk[p].card)
  /\ UNCHANGED <<now, core, disk, want, since, carried, boots>>

\* Neither copy serves, or the file cannot be read: the task sends a request
\* and gives the loop up.
Fetch(t, p) ==
  /\ pc[t] = "idle"
  /\ ~Fresh(memory[p]) /\ (Fresh(disk[p]) => DiskFaults)
  /\ pc' = [pc EXCEPT ![t] = "fetching"]
  /\ want' = [want EXCEPT ![t] = p]
  /\ since' = [since EXCEPT ![t] = now]
  /\ UNCHANGED <<now, core, memory, disk, carried, found, boots>>

\* The fetch is over, and get() with it.
Over(t) ==
  /\ want' = [want EXCEPT ![t] = None]
  /\ carried' = [carried EXCEPT ![t] = None] /\ since' = [since EXCEPT ![t] = 0]

\* Mutant: what is already in memory is kept.
FirstKept(p, e) == [memory EXCEPT ![p] = IF @ = None THEN e ELSE @]
\* _write_back always updates memory.
Remembered(p, e) == [memory EXCEPT ![p] = e]

\* _write_back's file: written in place, or left alone when the sandbox or the
\* open refuses, or cut short when the write fails after the open.
Stored(p, e) ==
  {[disk EXCEPT ![p] = f] : f \in {e} \cup (IF DiskFaults THEN {disk[p], Torn} ELSE {})}

\* The card arrives: write back, and the lookup has it.
WriteBack(t) ==
  /\ pc[t] = "fetching" /\ carried[t] # None
  /\ LET e == [card |-> carried[t], fetched |-> now]
     IN memory' = Remembered(want[t], e) /\ disk' \in Stored(want[t], e)
  /\ Found(t, carried[t])
  /\ Over(t)
  /\ UNCHANGED <<now, core, boots>>

\* Mutant: no answer is written back like a card.
FailedWritten(t) ==
  /\ pc[t] = "fetching"
  /\ memory' = Remembered(want[t], [card |-> None, fetched |-> now])
  /\ Over(t) /\ pc' = [pc EXCEPT ![t] = "idle"]
  /\ UNCHANGED <<now, core, disk, found, boots>>

\* An error, the timeout, a status other than 200 or an answer that is no card:
\* the send is FAILED, or raises; the copies stay as they are.
FetchFails(t) ==
  /\ pc[t] = "fetching"
  /\ Over(t) /\ pc' = [pc EXCEPT ![t] = "idle"]
  /\ UNCHANGED <<now, core, memory, disk, found, boots>>

\* send_message returns, after its last attempt.
Sent(t) ==
  /\ pc[t] = "sending"
  /\ pc' = [pc EXCEPT ![t] = "idle"] /\ found' = [found EXCEPT ![t] = None]
  /\ UNCHANGED <<now, core, memory, disk, want, since, carried, boots>>

\* The process dies at any moment, also in the middle of writing a file, and a
\* new one starts with an empty memory over the same files.
Restart ==
  /\ boots < MaxBoots /\ boots' = boots + 1
  /\ \/ UNCHANGED disk
     \/ \E t \in Tasks : /\ pc[t] = "fetching" /\ carried[t] # None
                         /\ disk' = [disk EXCEPT ![want[t]] = Torn]
  /\ memory' = [p \in Peers |-> None]
  /\ pc' = [t \in Tasks |-> "idle"] /\ want' = [t \in Tasks |-> None]
  /\ since' = [t \in Tasks |-> 0] /\ carried' = [t \in Tasks |-> None]
  /\ found' = [t \in Tasks |-> None]
  /\ UNCHANGED <<now, core>>

----------------------------------------------------------------------------
Lookup(t, p) == FromMemory(t, p) \/ FromDisk(t, p) \/ Fetch(t, p)
End(t) == WriteBack(t) \/ FetchFails(t)

Next ==
  \/ Tick \/ NewCard \/ Restart
  \/ \E t \in Tasks : Serve(t) \/ End(t) \/ Sent(t) \/ \E p \in Peers : Lookup(t, p)

Spec == Init /\ [][Next]_vars

----------------------------------------------------------------------------
(* Properties.                                                             *)

TypeOK ==
  /\ now \in Times /\ card \in Cards /\ until \in [Cards -> Times]
  /\ memory \in [Peers -> Copy \cup {None}]
  /\ disk \in [Peers -> Copy \cup {None, Torn}]
  /\ pc \in [Tasks -> {"idle", "fetching", "sending"}]
  /\ want \in [Tasks -> Peers \cup {None}]
  /\ since \in [Tasks -> Times] /\ carried \in [Tasks -> Cards \cup {None}]
  /\ found \in [Tasks -> Cards \cup {None}]
  /\ boots \in 1..MaxBoots

\* CORE still served card c after the moment m.
ServedAfter(c, m) == c = card \/ until[c] > m

\* A message goes to an address CORE's card gave no longer ago than the time to
\* live and the timeout of a fetch, though the copy it came from has passed
\* through memory, a file and other processes, and an earlier request may have
\* been answered after a later one.  (a2a_client.py:77-104, 117-129)
FreshAddress ==
  [][\A t \in Tasks : found'[t] \notin {None, found[t]} =>
       ServedAfter(found'[t], now - (Ttl + FetchTimeout))]_vars

\* Once a process remembers a peer, only an answer from CORE changes what it
\* remembers: a file that a failed write left behind does not come back, nor one
\* that another task's write brought ahead, however the fetches overlap.
\* (a2a_client.py:82-104, 117-129)
OnlyAnswersReplace ==
  [][\A p \in Peers : memory[p] # None /\ memory'[p] \notin {memory[p], None} =>
       memory'[p].fetched = now]_vars
=============================================================================
