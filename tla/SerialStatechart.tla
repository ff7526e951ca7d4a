---------------------------- MODULE SerialStatechart ----------------------------
(***************************************************************************)
(* What a StatechartEngine promises its callers: events are taken one at a *)
(* time in the order they arrive, each one either moves the statechart     *)
(* along a transition that leaves the state it is in and records the move  *)
(* in the state file, or changes nothing.  No lock, no actions, no         *)
(* messages.                                                               *)
(***************************************************************************)
EXTENDS Integers, Sequences

CONSTANTS Tasks, Event, States, Initial,
          Targets(_, _),  \* Targets(s, e): where event e may lead from state s
          None

VARIABLES state,    \* the current state
          saved,    \* the state on disk
          queue     \* <<task, event>> pairs not settled yet; the head is served

vars == <<state, saved, queue>>

Init == state = Initial /\ saved = None /\ queue = <<>>

Arrive(t, e) ==
  /\ \A i \in DOMAIN queue : queue[i][1] # t
  /\ queue' = Append(queue, <<t, e>>)
  /\ UNCHANGED <<state, saved>>

Move ==
  /\ queue # <<>>
  /\ state' \in Targets(state, Head(queue)[2])
  /\ saved' \in {saved, state'}
  /\ queue' = Tail(queue)

Refuse ==
  /\ queue # <<>>
  /\ queue' = Tail(queue)
  /\ UNCHANGED <<state, saved>>

Drop ==
  /\ \E i \in DOMAIN queue :
       queue' = SubSeq(queue, 1, i - 1) \o SubSeq(queue, i + 1, Len(queue))
  /\ UNCHANGED <<state, saved>>

\* The state is recorded without an event, by a shutdown.
Save == saved' = state /\ UNCHANGED <<state, queue>>

Restart == state' = Initial /\ queue' = <<>> /\ UNCHANGED saved

Next ==
  \/ \E t \in Tasks, e \in Event : Arrive(t, e)
  \/ Move \/ Refuse \/ Drop \/ Save \/ Restart

Spec == Init /\ [][Next]_vars
=============================================================================
