------------------------------ MODULE PairPool ------------------------------
(***************************************************************************)
(* What the selection of channel pairs promises to the rebalancing session *)
(* (channels.go, pickChannelPair and addFailedRoute), without clocks,      *)
(* amounts or recursion.  Each pair is either in the pool or set aside     *)
(* after a failure.  A pair is chosen from the pool only.  The pool is     *)
(* refilled only when it is empty and some route was found since the last  *)
(* refill, and the session is told to give up only when it is empty and    *)
(* no route was.                                                           *)
(***************************************************************************)
CONSTANTS Pairs, NoPair

VARIABLES
  failed,   \* the pairs set aside
  found,    \* a route was found since the last refill
  chosen,   \* the pair the session works on, or NoPair
  over      \* the session stopped

poolVars == <<failed, found, chosen, over>>

PoolInit == failed = {} /\ found = FALSE /\ chosen = NoPair /\ over = FALSE

\* A pair of the pool is set aside: it is the chosen one, or none is chosen.
SetAside(p) ==
  /\ ~over
  /\ p \notin failed
  /\ chosen \in {NoPair, p}
  /\ failed' = failed \cup {p}
  /\ chosen' = NoPair
  /\ UNCHANGED <<found, over>>

\* A pair of the pool is chosen, and some of the others may come back.
Choose(p) ==
  /\ ~over
  /\ chosen = NoPair
  /\ p \notin failed
  /\ chosen' = p
  /\ failed' \in SUBSET failed
  /\ UNCHANGED <<found, over>>

\* The whole pool comes back once, on the strength of a route found before.
Refill ==
  /\ ~over
  /\ chosen = NoPair
  /\ failed = Pairs
  /\ found
  /\ failed' = {}
  /\ found' = FALSE
  /\ UNCHANGED <<chosen, over>>

\* A route is found for the chosen pair, which stays in the pool.
FindRoute ==
  /\ ~over
  /\ chosen # NoPair
  /\ found' = TRUE
  /\ UNCHANGED <<failed, chosen, over>>

\* The session is done with the chosen pair.
Release ==
  /\ ~over
  /\ chosen # NoPair
  /\ chosen' = NoPair
  /\ UNCHANGED <<failed, found, over>>

\* Nothing is left to try.
GiveUp ==
  /\ ~over
  /\ chosen = NoPair
  /\ failed = Pairs
  /\ ~found
  /\ over' = TRUE
  /\ UNCHANGED <<failed, found, chosen>>

\* The session stops while it works on a pair (success or timeout).
Stop ==
  /\ ~over
  /\ chosen # NoPair
  /\ over' = TRUE
  /\ UNCHANGED <<failed, found, chosen>>

PoolNext ==
  \/ \E p \in Pairs : SetAside(p) \/ Choose(p)
  \/ Refill \/ FindRoute \/ Release \/ GiveUp \/ Stop

PoolSpec == PoolInit /\ [][PoolNext]_poolVars
=============================================================================
