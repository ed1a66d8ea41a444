------------------------------ MODULE ShardRange ------------------------------
(***************************************************************************)
(* The shard ranges of the establishment document (src/shard/shard.go).    *)
(*                                                                         *)
(* A key of shardMap.default is text such as "00-7F" or "7A".  It is       *)
(* represented by the sequence of the slots it spells, so "7A" is <<122>>  *)
(* and "00-7F" is <<0, 127>>; a token that is not a slot is any integer    *)
(* outside Slots.  Two keys may denote the same range: <<5>> and <<5, 5>>. *)
(***************************************************************************)
EXTENDS Integers, Sequences

CONSTANT MaxSlot    \* the last shard slot: 255 in the code

ASSUME MaxSlotAssumption == MaxSlot \in Nat

Slots == 0 .. MaxSlot

\* parseSlot: one or two hex digits, nothing else.
IsSlot(token) == token \in Slots

\* ParseRange rejects an empty key, more than one dash, a token that is not a
\* slot and a start after the end.
Parses(raw) ==
    /\ Len(raw) \in {1, 2}
    /\ \A k \in 1 .. Len(raw) : IsSlot(raw[k])
    /\ raw[1] <= raw[Len(raw)]

\* The inclusive range a key that Parses denotes.
ParseRange(raw) == [start |-> raw[1], end |-> raw[Len(raw)]]

Contains(range, slot) == range.start <= slot /\ slot <= range.end

\* What a shard map must be for routing to be well defined: every slot belongs
\* to the range of exactly one of the keys.
Partition(keys) ==
    \A slot \in Slots :
        \E raw \in keys :
            /\ Contains(ParseRange(raw), slot)
            /\ \A other \in keys : Contains(ParseRange(other), slot) => other = raw
===============================================================================
