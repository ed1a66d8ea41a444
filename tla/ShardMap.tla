------------------------------- MODULE ShardMap -------------------------------
(***************************************************************************)
(* The validation of a fetched shard map, and the lookups it licenses:     *)
(* the end of parseEstablishment and AssignmentForSlot in                  *)
(* src/establish.go, ValidateFullCoverage in src/shard/shard.go.           *)
(*                                                                         *)
(* parseEstablishment walks the map in Go's random order, so the ranges    *)
(* reach ValidateFullCoverage in any order; a lookup walks it again, in     *)
(* another order each time.                                                *)
(***************************************************************************)
EXTENDS ShardRange, FiniteSets

CONSTANT ShardMaps    \* the key sets of the shard maps a server may send

ASSUME ShardMapsAssumption ==
    \A keys \in ShardMaps : keys \subseteq Seq(Int) /\ IsFiniteSet(keys)

VARIABLES
    keys,       \* the keys of the shard map
    phase,      \* "parse", "cover", "scan", "accepted" or "rejected"
    ranges,     \* the keys of the parsed ranges, in the order they were appended
    index,      \* the range ValidateFullCoverage is marking, past the last one when done
    i,          \* the slot its inner loop marks next, or the slot it scans next
    covered,    \* the slots marked so far
    answer      \* the key each lookup of a slot last found, if any

vars == <<keys, phase, ranges, index, i, covered, answer>>

NotLooked == <<>>    \* no lookup of this slot yet: not a key of an accepted map

Parsed == {ranges[k] : k \in 1 .. Len(ranges)}

TypeOK ==
    /\ keys \in ShardMaps
    /\ phase \in {"parse", "cover", "scan", "accepted", "rejected"}
    /\ ranges \in Seq(keys)
    /\ index \in 1 .. Len(ranges) + 1
    /\ i \in 0 .. MaxSlot + 1
    /\ covered \in [Slots -> BOOLEAN]
    /\ answer \in [Slots -> keys \cup {NotLooked}]

Init ==
    /\ keys \in ShardMaps
    /\ phase = "parse"
    /\ ranges = <<>>
    /\ index = 1
    /\ i = 0
    /\ covered = [s \in Slots |-> FALSE]
    /\ answer = [s \in Slots |-> NotLooked]

\* for rawRange := range est.ShardMap: the next key parses ...
ParseKey ==
    /\ phase = "parse"
    /\ \E raw \in keys \ Parsed :
        /\ Parses(raw)
        /\ ranges' = Append(ranges, raw)
    /\ UNCHANGED <<keys, phase, index, i, covered, answer>>

\* ... or it does not, and the document is refused.
RefuseKey ==
    /\ phase = "parse"
    /\ \E raw \in keys \ Parsed : ~ Parses(raw)
    /\ phase' = "rejected"
    /\ UNCHANGED <<keys, ranges, index, i, covered, answer>>

\* Mutant of ParseDone: the parsed ranges are accepted as they are.
ParseDoneAccepts ==
    /\ phase = "parse"
    /\ keys = Parsed
    /\ phase' = "accepted"
    /\ UNCHANGED <<keys, ranges, index, i, covered, answer>>

\* An empty shard map is not validated.
ParseDone ==
    /\ phase = "parse"
    /\ keys = Parsed
    /\ IF ranges = <<>>
       THEN phase' = "accepted" /\ i' = i
       ELSE phase' = "cover" /\ i' = ParseRange(ranges[1]).start
    /\ UNCHANGED <<keys, ranges, index, covered, answer>>

\* Mutant of InRange: the end of a range is exclusive.
InRangeExclusive == i < ParseRange(ranges[index]).end

\* The condition of the inner loop: i <= int(r.End).
InRange == i <= ParseRange(ranges[index]).end

\* Mutant of Mark: an overlap goes unnoticed.
MarkTwice ==
    /\ phase = "cover"
    /\ InRange
    /\ phase' = phase
    /\ covered' = [covered EXCEPT ![i] = TRUE]
    /\ i' = i + 1
    /\ UNCHANGED <<keys, ranges, index, answer>>

\* The body of the inner loop.
Mark ==
    /\ phase = "cover"
    /\ InRange
    /\ IF covered[i]
       THEN phase' = "rejected" /\ UNCHANGED <<i, covered>>
       ELSE /\ covered' = [covered EXCEPT ![i] = TRUE]
            /\ i' = i + 1
            /\ UNCHANGED phase
    /\ UNCHANGED <<keys, ranges, index, answer>>

\* Mutant of NextRange: a range is skipped.
NextRangeSkips ==
    /\ phase = "cover"
    /\ ~ InRange
    /\ index' = index + 2
    /\ IF index + 1 < Len(ranges)
       THEN i' = ParseRange(ranges[index + 2]).start /\ UNCHANGED phase
       ELSE phase' = "scan" /\ i' = 0
    /\ UNCHANGED <<keys, ranges, covered, answer>>

\* Mutant of NextRange: the outer loop does not advance.
NextRangeStays ==
    /\ phase = "cover"
    /\ ~ InRange
    /\ IF index < Len(ranges)
       THEN i' = ParseRange(ranges[index + 1]).start /\ UNCHANGED phase
       ELSE phase' = "scan" /\ i' = 0
    /\ UNCHANGED <<keys, ranges, index, covered, answer>>

\* The inner loop ends: the next range, or the scan for a missing slot.
NextRange ==
    /\ phase = "cover"
    /\ ~ InRange
    /\ index' = index + 1
    /\ IF index < Len(ranges)
       THEN i' = ParseRange(ranges[index + 1]).start /\ UNCHANGED phase
       ELSE phase' = "scan" /\ i' = 0
    /\ UNCHANGED <<keys, ranges, covered, answer>>

Scan ==
    /\ phase = "scan"
    /\ IF i > MaxSlot
       THEN phase' = "accepted" /\ UNCHANGED i
       ELSE IF covered[i] THEN i' = i + 1 /\ UNCHANGED phase
       ELSE phase' = "rejected" /\ UNCHANGED i
    /\ UNCHANGED <<keys, ranges, index, covered, answer>>

\* AssignmentForSlot: any range that contains the slot.
Lookup(slot) ==
    /\ phase = "accepted"
    /\ \E raw \in keys :
        /\ Parses(raw)
        /\ Contains(ParseRange(raw), slot)
        /\ answer' = [answer EXCEPT ![slot] = raw]
    /\ UNCHANGED <<keys, phase, ranges, index, i, covered>>

Validate == ParseKey \/ RefuseKey \/ ParseDone \/ Mark \/ NextRange \/ Scan

Next == Validate \/ \E slot \in Slots : Lookup(slot)

Spec == Init /\ [][Next]_vars

\* The validation runs to its end in the goroutine that fetched the document.
FairSpec == Spec /\ WF_vars(Validate)

-------------------------------------------------------------------------------

\* An accepted shard map that is not empty gives every slot to exactly one of
\* its ranges (ValidateFullCoverage).
AcceptedIsPartition ==
    phase = "accepted" /\ keys # {} =>
        /\ \A raw \in keys : Parses(raw)
        /\ Partition(keys)

\* A shard map is refused only for a key that does not parse, or because some
\* slot has no range or two: no valid map is refused for the order of its keys.
RejectedIsNot ==
    phase = "rejected" => \/ \E raw \in keys : ~ Parses(raw)
                          \/ ~ Partition(keys)

\* AssignmentForSlot: a slot that was found under one range is never found
\* under another, whatever order the map is walked in.
LookupStable ==
    [][\A slot \in Slots : answer[slot] # NotLooked => answer'[slot] = answer[slot]]_vars

\* parseEstablishment decides: no order of the keys makes it loop or get stuck
\* (the inner loop runs to slot 0xFF in an int, not in a byte).
Decides == <>(phase \in {"accepted", "rejected"})
===============================================================================
