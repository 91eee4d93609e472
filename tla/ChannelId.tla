------------------------------ MODULE ChannelId ------------------------------
(***************************************************************************)
(* channels.go: how the user names channels and nodes, and what a channel  *)
(* id says of the channel's age.  An id is a short channel id (block       *)
(* height, index in the block, position) packed into an unsigned integer.  *)
(* How many of each there are is a parameter; in the program there are     *)
(* 2^24 heights, 2^24 indexes and 2^16 positions.                          *)
(***************************************************************************)
EXTENDS Integers

CONSTANTS Heights, Indexes, Positions

ASSUME ChannelIdAssumption ==
  /\ Heights \in Nat \ {0} /\ Indexes \in Nat \ {0} /\ Positions \in Nat \ {0}

Ids == Heights * Indexes * Positions

\* The identifiers of an option: a number, a short channel id with its x's, a
\* node's key, or anything else.
Number(id) == [kind |-> "number", id |-> id]
Scid(h, i, p) == [kind |-> "scid", height |-> h, index |-> i, position |-> p]
Node(key) == [kind |-> "node", key |-> key]
Other == [kind |-> "other"]

\* The channel id of lnd.
ToUint64(h, i, p) == (h * Indexes + i) * Positions + p

\* strconv.ParseInt of a width with so many values takes a number that is not
\* negative.
FitsInt(n, values) == 2 * n < values

-----------------------------------------------------------------------------
\* What parseScid accepts, and makes of it; the position may have twice its
\* width and is cut.
ParsesScid(s) ==
  /\ FitsInt(s.height, Heights)
  /\ FitsInt(s.index, Indexes)
  /\ FitsInt(s.position, Positions * Positions)
parseScid(s) == ToUint64(s.height, s.index, s.position % Positions)

\* convertChanStringToInt.
IsChannel(i) ==
  \/ i.kind = "number" /\ FitsInt(i.id, Ids)
  \/ i.kind = "scid" /\ ParsesScid(i)
ChannelOf(i) == IF i.kind = "number" THEN i.id ELSE parseScid(i)

\* The block a channel was confirmed in.
getChannelAge(id) == id \div (Indexes * Positions)

\* The unsigned difference of the height of the chain and that block.
BlocksAgo(height, id) == (height - getChannelAge(id)) % Ids
=============================================================================
