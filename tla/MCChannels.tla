------------------------------ MODULE MCChannels ------------------------------
(* Instances of Channels for TLC: three channels, two of them with the same *)
(* node, with sixteen heights, of which one is an alias beyond the height   *)
(* of the chain; one short channel id has a position that is cut.           *)
EXTENDS Channels
A == ToUint64(2, 0, 1)
B == ToUint64(3, 1, 0)
C == ToUint64(13, 0, 0)
MCChans == {A, B, C}
MCCapacity == [c \in MCChans |-> IF c = C THEN 400 ELSE 100]
MCPeer == [c \in MCChans |-> IF c = A THEN "alice" ELSE "bob"]
MCLocalBalances == [c \in MCChans |-> CASE c = A -> {70, 99} [] c = B -> {10, 45} [] c = C -> {10, 395}]
MCFiles ==
  {[amount |-> 30, perc |-> 55, from |-> {Scid(2, 0, 1)}],
   [relAmountTo |-> 20, excludeTo |-> {Node("bob")}]}
MCCommandLines ==
  {[allowRapidRebalance |-> TRUE, toPerc |-> 40],
   [amount |-> 60, to |-> {Number(B)}, excludeChannelAge |-> 6],
   [relAmountFrom |-> 60, excludeTo |-> {Scid(3, 1, 0)}, from |-> {Node("alice")}],
   [allowRapidRebalance |-> TRUE, excludeTo |-> {Node("bob")}],
   [exclude |-> {Number(B)}, excludeChannelAge |-> 8],
   [excludeChannelsIn |-> {Number(B)}, excludeChannelsOut |-> {Scid(3, 1, 0)}],
   [to |-> {Node("bob")}, excludeTo |-> {Number(B)}],
   [amount |-> 60, perc |-> 100, exclude |-> {Node("bob")}],
   [amount |-> 60, perc |-> 100, allowRapidRebalance |-> TRUE],
   [amount |-> 60, perc |-> 100, excludeFrom |-> {Scid(2, 0, 5)}],
   [info |-> TRUE], [help |-> TRUE]}
MCAsked == {0, 60}
MCFees == {1}
=============================================================================
