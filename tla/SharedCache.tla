---------------------------- MODULE SharedCache ----------------------------
(***************************************************************************)
(* What loadNodeCache and saveNodeCache (cache.go) promise of the file     *)
(* that several instances of regolancer share, without locks, threads or   *)
(* the steps of a save: saving merges what an instance knows of each node  *)
(* into the file, the newer update wins, and only nodes that are too old   *)
(* are dropped.  All that is lost is lost to a save that is cut short.     *)
(* Zero stands for a node that is not in the cache.                        *)
(***************************************************************************)
EXTENDS Naturals

CONSTANTS
  Nodes,
  Lifetime,
  MayTear \* a save may be cut short

VARIABLES
  cache, \* the update time of each node in the file
  torn,  \* the last save was cut short, and the file cannot be read
  now

Fresh(c, time) == [n \in Nodes |-> IF time - c[n] > Lifetime THEN 0 ELSE c[n]]
Newest(c, d) == [n \in Nodes |-> IF c[n] < d[n] THEN d[n] ELSE c[n]]

SharedInit == cache = [n \in Nodes |-> 0] /\ torn = FALSE /\ now = 1

Save ==
  /\ \E own \in [Nodes -> 0 .. now] : cache' = Newest(Fresh(cache, now), own)
  /\ torn' = FALSE
  /\ UNCHANGED now

Tear ==
  /\ MayTear
  /\ cache' = [n \in Nodes |-> 0]
  /\ torn' = TRUE
  /\ UNCHANGED now

Pass == now' = now + 1 /\ UNCHANGED <<cache, torn>>

SharedSpec == SharedInit /\ [][Save \/ Tear \/ Pass]_<<cache, torn, now>>
=============================================================================
