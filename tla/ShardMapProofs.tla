---------------------------- MODULE ShardMapProofs ----------------------------
(***************************************************************************)
(* The validation of a shard map decides, for every number of slots and    *)
(* every shard map, whether the map gives each slot to exactly one range.  *)
(***************************************************************************)
EXTENDS ShardMap, TLAPS

(* Marked(k, s): the loops have marked slot s for the range ranges[k]. *)
Marked(k, s) ==
    /\ Contains(ParseRange(ranges[k]), s)
    /\ k < index \/ (k = index /\ phase = "cover" /\ s < i)

ParseInv ==
    /\ \A k \in 1 .. Len(ranges) : Parses(ranges[k])
    /\ \A j, k \in 1 .. Len(ranges) : ranges[j] = ranges[k] => j = k
    /\ phase = "parse" => index = 1
    /\ phase \in {"cover", "scan", "accepted"} => Parsed = keys

(* `covered` holds the marked slots, and each of them is marked for one range. *)
CoverInv ==
    /\ phase # "rejected" =>
        \A s \in Slots :
            /\ covered[s] <=> \E k \in 1 .. Len(ranges) : Marked(k, s)
            /\ \A j, k \in 1 .. Len(ranges) : Marked(j, s) /\ Marked(k, s) => j = k
    /\ phase = "cover" =>
        /\ index \in 1 .. Len(ranges)
        /\ i >= ParseRange(ranges[index]).start
        /\ i <= ParseRange(ranges[index]).end + 1

ScanInv ==
    /\ phase = "scan" => \A s \in Slots : s < i => covered[s]
    /\ phase = "accepted" /\ keys # {} => \A s \in Slots : covered[s]
    /\ phase \in {"scan", "accepted"} => index = Len(ranges) + 1 \/ ranges = <<>>
    /\ RejectedIsNot

Inv == TypeOK /\ ParseInv /\ CoverInv /\ ScanInv

-------------------------------------------------------------------------------

(* A key that parses denotes a range of slots that is not empty. *)
LEMMA RangeOfSlots ==
    ASSUME NEW raw, Parses(raw)
    PROVE  /\ ParseRange(raw).start \in Slots
           /\ ParseRange(raw).end \in Slots
           /\ ParseRange(raw).start <= ParseRange(raw).end
BY MaxSlotAssumption DEF Parses, ParseRange, IsSlot, Slots

LEMMA InvInit == Init => Inv
<1> SUFFICES ASSUME Init
             PROVE  Inv
    OBVIOUS
<1>1. TypeOK
    BY MaxSlotAssumption DEF Init, TypeOK
<1>2. ParseInv /\ CoverInv /\ ScanInv
    BY DEF Init, ParseInv, CoverInv, ScanInv, RejectedIsNot
<1> QED
    BY <1>1, <1>2 DEF Inv

LEMMA ParseKeyStep ==
    ASSUME Inv, ParseKey
    PROVE  Inv'
<1>1. TypeOK /\ ParseInv /\ CoverInv /\ ScanInv /\ phase = "parse" /\ index = 1
    BY DEF Inv, ParseKey, ParseInv
<1>2. PICK raw \in keys \ Parsed : Parses(raw) /\ ranges' = Append(ranges, raw)
    BY DEF ParseKey
<1>3. UNCHANGED <<keys, phase, index, i, covered, answer>>
    BY DEF ParseKey
<1>4. /\ ranges' \in Seq(keys)
      /\ Len(ranges') = Len(ranges) + 1
      /\ \A k \in 1 .. Len(ranges) : ranges'[k] = ranges[k]
      /\ ranges'[Len(ranges) + 1] = raw
    BY <1>1, <1>2 DEF TypeOK
<1>5. TypeOK'
    BY <1>1, <1>3, <1>4 DEF TypeOK
<1>6. \A k \in 1 .. Len(ranges) : ranges[k] # raw
    BY <1>2 DEF Parsed
<1>7. ParseInv'
    BY <1>1, <1>2, <1>3, <1>4, <1>6 DEF ParseInv, TypeOK
<1>8. CoverInv'
    <2>1. \A k \in 1 .. Len(ranges) : \A s \in Slots : ~ Marked(k, s)
        BY <1>1 DEF Marked
    <2>2. \A k \in 1 .. Len(ranges') : \A s \in Slots : ~ Marked(k, s)'
        BY <1>1, <1>3 DEF Marked
    <2> QED
        BY <1>1, <1>3, <2>1, <2>2 DEF CoverInv
<1>9. ScanInv'
    BY <1>1, <1>3 DEF ScanInv, RejectedIsNot
<1> QED
    BY <1>5, <1>7, <1>8, <1>9 DEF Inv

LEMMA ParseEndStep ==
    ASSUME Inv, RefuseKey \/ ParseDone
    PROVE  Inv'
<1>1. TypeOK /\ ParseInv /\ CoverInv /\ ScanInv /\ phase = "parse" /\ index = 1
    BY DEF Inv, RefuseKey, ParseDone, ParseInv
<1>2. CASE RefuseKey
    BY <1>1, <1>2 DEF RefuseKey, Inv, TypeOK, ParseInv, CoverInv, ScanInv, RejectedIsNot, Parsed
<1>3. CASE ParseDone /\ ranges = <<>>
    <2>1. Parsed = {} /\ keys = {}
        BY <1>3 DEF ParseDone, Parsed
    <2>2. ParseInv' /\ TypeOK' /\ ScanInv'
        BY <1>1, <1>3, <2>1 DEF ParseDone, TypeOK, ParseInv, ScanInv, RejectedIsNot, Parsed
    <2>3. CoverInv'
        BY <1>1, <1>3 DEF ParseDone, CoverInv, Marked
    <2> QED
        BY <2>2, <2>3 DEF Inv
<1>4. CASE ParseDone /\ ranges # <<>>
    <2>1. Len(ranges) >= 1 /\ Len(ranges) \in Nat
        BY <1>1, <1>4 DEF TypeOK
    <2>2. Parses(ranges[1])
        BY <1>1, <2>1 DEF ParseInv
    <2>3. /\ UNCHANGED <<keys, ranges, index, covered, answer>>
          /\ phase' = "cover" /\ i' = ParseRange(ranges[1]).start /\ keys = Parsed
        BY <1>4 DEF ParseDone
    <2>4. /\ i' \in Slots /\ i' <= ParseRange(ranges[1]).end + 1
          /\ i' = ParseRange(ranges'[1]).start
        BY <2>2, <2>3, RangeOfSlots, MaxSlotAssumption DEF Slots
    <2>5. TypeOK'
        <3>1. i' \in 0 .. MaxSlot + 1
            BY <2>4, MaxSlotAssumption DEF Slots
        <3> QED
            BY <1>1, <2>3, <3>1 DEF TypeOK
    <2>6. ParseInv' /\ ScanInv'
        BY <1>1, <2>3 DEF ParseInv, ScanInv, RejectedIsNot, Parsed
    <2>7. CoverInv'
        <3>1. \A k \in 1 .. Len(ranges) : \A s \in Slots : ~ Marked(k, s)
            BY <1>1 DEF Marked
        <3>2. \A k \in 1 .. Len(ranges) : \A s \in Slots : ~ Marked(k, s)'
            <4> SUFFICES ASSUME NEW k \in 1 .. Len(ranges), NEW s \in Slots, Marked(k, s)'
                         PROVE  FALSE
                OBVIOUS
            <4>1. index' = 1 /\ s < i' /\ k = 1
                BY <1>1, <2>3 DEF Marked
            <4>2. i' <= s
                BY <2>4, <4>1 DEF Marked, Contains
            <4> QED
                BY <2>4, <4>1, <4>2, MaxSlotAssumption DEF Slots
        <3> QED
            BY <1>1, <2>1, <2>3, <2>4, <3>1, <3>2 DEF CoverInv, Slots
    <2> QED
        BY <2>5, <2>6, <2>7 DEF Inv
<1> QED
    BY <1>2, <1>3, <1>4
LEMMA MarkStep ==
    ASSUME Inv, Mark
    PROVE  Inv'
<1> DEFINE r == ParseRange(ranges[index])
<1>1. TypeOK /\ ParseInv /\ CoverInv /\ ScanInv /\ phase = "cover" /\ i <= r.end
    BY DEF Inv, Mark, InRange
<1>2. index \in 1 .. Len(ranges) /\ Len(ranges) \in Nat /\ i >= r.start
    BY <1>1 DEF CoverInv, TypeOK
<1>3. Parses(ranges[index]) /\ ranges[index] \in keys /\ Parsed = keys
    BY <1>1, <1>2 DEF ParseInv, TypeOK
<1>4. r.start \in Slots /\ r.end \in Slots /\ i \in Slots /\ i + 1 \in 0 .. MaxSlot + 1
    BY <1>1, <1>2, <1>3, RangeOfSlots, MaxSlotAssumption DEF Slots, TypeOK
<1>5. Contains(r, i) /\ ~ Marked(index, i)
    BY <1>1, <1>2, <1>4 DEF Contains, Marked, Slots
<1>6. CASE covered[i]
    <2>1. PICK k \in 1 .. Len(ranges) : Marked(k, i)
        BY <1>1, <1>4, <1>6 DEF CoverInv
    <2>2. k # index /\ Contains(ParseRange(ranges[k]), i) /\ ranges[k] \in keys
        BY <1>1, <1>5, <2>1 DEF Marked, TypeOK
    <2>3. ranges[k] # ranges[index]
        BY <1>1, <1>2, <2>1, <2>2 DEF ParseInv
    <2>4. ~ Partition(keys)
        BY <1>3, <1>4, <1>5, <2>2, <2>3 DEF Partition
    <2>5. UNCHANGED <<keys, ranges, index, i, covered, answer>> /\ phase' = "rejected"
        BY <1>6 DEF Mark
    <2> QED
        BY <1>1, <2>4, <2>5 DEF Inv, TypeOK, ParseInv, CoverInv, ScanInv, RejectedIsNot
<1>7. CASE ~ covered[i]
    <2>1. /\ UNCHANGED <<keys, phase, ranges, index, answer>>
          /\ covered' = [covered EXCEPT ![i] = TRUE] /\ i' = i + 1
        BY <1>7 DEF Mark
    <2>2. ASSUME NEW s \in Slots, NEW k \in 1 .. Len(ranges)
          PROVE  Marked(k, s)' <=> Marked(k, s) \/ (k = index /\ s = i)
        BY <1>1, <1>2, <1>4, <1>5, <2>1 DEF Marked, Slots
    <2>3. ASSUME NEW k \in 1 .. Len(ranges)
          PROVE  ~ Marked(k, i)
        BY <1>1, <1>4, <1>7 DEF CoverInv
    <2>4. TypeOK' /\ ParseInv' /\ ScanInv'
        BY <1>1, <1>4, <2>1 DEF TypeOK, ParseInv, ScanInv, RejectedIsNot, Parsed
    <2>5. ASSUME NEW s \in Slots
          PROVE  /\ covered'[s] <=> \E k \in 1 .. Len(ranges') : Marked(k, s)'
                 /\ \A j, k \in 1 .. Len(ranges') : Marked(j, s)' /\ Marked(k, s)' => j = k
        <3>1. CASE s = i
            BY <1>1, <1>2, <1>4, <2>1, <2>2, <2>3, <3>1 DEF TypeOK
        <3>2. CASE s # i
            BY <1>1, <1>4, <2>1, <2>2, <3>2 DEF CoverInv, TypeOK
        <3> QED
            BY <3>1, <3>2
    <2>6. CoverInv'
        BY <1>1, <1>2, <1>4, <2>1, <2>5 DEF CoverInv, Slots
    <2> QED
        BY <2>4, <2>6 DEF Inv
<1> QED
    BY <1>6, <1>7

LEMMA NextRangeStep ==
    ASSUME Inv, NextRange
    PROVE  Inv'
<1> DEFINE r == ParseRange(ranges[index])
<1>1. TypeOK /\ ParseInv /\ CoverInv /\ ScanInv /\ phase = "cover" /\ ~ (i <= r.end)
    BY DEF Inv, NextRange, InRange
<1>2. index \in 1 .. Len(ranges) /\ Len(ranges) \in Nat
    BY <1>1 DEF CoverInv, TypeOK
<1>3. Parses(ranges[index]) /\ Parsed = keys
    BY <1>1, <1>2 DEF ParseInv
<1>4. r.end \in Slots /\ i \in Int
    BY <1>1, <1>3, RangeOfSlots DEF TypeOK
<1>5. UNCHANGED <<keys, ranges, covered, answer>> /\ index' = index + 1
    BY DEF NextRange
<1>6. CASE index < Len(ranges)
    <2>1. phase' = "cover" /\ i' = ParseRange(ranges[index + 1]).start
        BY <1>1, <1>6 DEF NextRange
    <2>2. Parses(ranges[index + 1])
        BY <1>1, <1>2, <1>6 DEF ParseInv
    <2>3. i' \in Slots /\ i' <= ParseRange(ranges[index + 1]).end + 1
        BY <2>1, <2>2, RangeOfSlots, MaxSlotAssumption DEF Slots
    <2>4. ASSUME NEW s \in Slots, NEW k \in 1 .. Len(ranges)
          PROVE  Marked(k, s)' <=> Marked(k, s)
        <3>1. CASE k = index
            BY <1>1, <1>2, <1>4, <1>5, <2>1, <3>1 DEF Marked, Contains, Slots
        <3>2. CASE k = index + 1
            <4>1. ~ Marked(k, s)
                BY <1>2, <3>2 DEF Marked
            <4>2. Marked(k, s)' => s < i' /\ i' <= s
                BY <1>2, <1>5, <2>1, <3>2 DEF Marked, Contains
            <4>3. s \in Int /\ i' \in Int
                BY <2>3, MaxSlotAssumption DEF Slots
            <4> QED
                BY <4>1, <4>2, <4>3
        <3>3. CASE k \notin {index, index + 1}
            BY <1>1, <1>2, <1>5, <2>1, <3>3 DEF Marked
        <3> QED
            BY <3>1, <3>2, <3>3
    <2>5. TypeOK'
        <3>1. i' \in 0 .. MaxSlot + 1
            BY <2>3, MaxSlotAssumption DEF Slots
        <3> QED
            BY <1>1, <1>2, <1>5, <1>6, <2>1, <3>1 DEF TypeOK
    <2>6. ParseInv' /\ ScanInv'
        BY <1>1, <1>5, <2>1 DEF ParseInv, ScanInv, RejectedIsNot, Parsed
    <2>7. CoverInv'
        BY <1>1, <1>2, <1>5, <1>6, <2>1, <2>3, <2>4 DEF CoverInv, Slots
    <2> QED
        BY <2>5, <2>6, <2>7 DEF Inv
<1>7. CASE ~ (index < Len(ranges))
    <2>1. phase' = "scan" /\ i' = 0 /\ index = Len(ranges)
        BY <1>1, <1>2, <1>7 DEF NextRange
    <2>2. ASSUME NEW s \in Slots, NEW k \in 1 .. Len(ranges)
          PROVE  Marked(k, s)' <=> Marked(k, s)
        <3>1. CASE k = index
            BY <1>1, <1>2, <1>4, <1>5, <2>1, <3>1 DEF Marked, Contains, Slots
        <3>2. CASE k # index
            BY <1>1, <1>2, <1>5, <2>1, <3>2 DEF Marked
        <3> QED
            BY <3>1, <3>2
    <2>3. TypeOK' /\ ParseInv' /\ ScanInv'
        BY <1>1, <1>2, <1>5, <2>1, MaxSlotAssumption
           DEF TypeOK, ParseInv, ScanInv, RejectedIsNot, Parsed, Slots
    <2>4. CoverInv'
        BY <1>1, <1>2, <1>5, <2>1, <2>2 DEF CoverInv
    <2> QED
        BY <2>3, <2>4 DEF Inv
<1> QED
    BY <1>6, <1>7

LEMMA ScanStep ==
    ASSUME Inv, Scan
    PROVE  Inv'
<1>1. TypeOK /\ ParseInv /\ CoverInv /\ ScanInv /\ phase = "scan"
    BY DEF Inv, Scan
<1>2. UNCHANGED <<keys, ranges, index, covered, answer>>
    BY DEF Scan
<1>3. ASSUME phase' \in {"scan", "accepted"}, NEW s \in Slots, NEW k \in 1 .. Len(ranges)
      PROVE  Marked(k, s)' <=> Marked(k, s)
    BY <1>1, <1>2, <1>3 DEF Marked
<1>4. ParseInv'
    BY <1>1, <1>2 DEF Scan, ParseInv, Parsed
<1>5. CASE i > MaxSlot
    <2>1. phase' = "accepted" /\ i' = i
        BY <1>5 DEF Scan
    <2>2. \A s \in Slots : s < i
        BY <1>1, <1>5, MaxSlotAssumption DEF Slots, TypeOK
    <2>3. TypeOK' /\ ScanInv'
        BY <1>1, <1>2, <2>1, <2>2 DEF TypeOK, ScanInv, RejectedIsNot
    <2>4. CoverInv'
        BY <1>1, <1>2, <1>3, <2>1 DEF CoverInv
    <2> QED
        BY <1>4, <2>3, <2>4 DEF Inv
<1>6. CASE ~ (i > MaxSlot) /\ covered[i]
    <2>1. phase' = "scan" /\ i' = i + 1
        BY <1>1, <1>6 DEF Scan
    <2>2. i + 1 \in 0 .. MaxSlot + 1 /\ \A s \in Slots : s < i + 1 => s < i \/ s = i
        BY <1>1, <1>6, MaxSlotAssumption DEF Slots, TypeOK
    <2>3. TypeOK' /\ ScanInv'
        BY <1>1, <1>2, <1>6, <2>1, <2>2 DEF TypeOK, ScanInv, RejectedIsNot
    <2>4. CoverInv'
        BY <1>1, <1>2, <1>3, <2>1 DEF CoverInv
    <2> QED
        BY <1>4, <2>3, <2>4 DEF Inv
<1>7. CASE ~ (i > MaxSlot) /\ ~ covered[i]
    <2>1. phase' = "rejected" /\ i' = i /\ i \in Slots
        BY <1>1, <1>7, MaxSlotAssumption DEF Scan, Slots, TypeOK
    <2>2. ASSUME NEW raw \in keys
          PROVE  ~ Contains(ParseRange(raw), i)
        <3>1. PICK k \in 1 .. Len(ranges) : raw = ranges[k]
            BY <1>1 DEF ParseInv, Parsed
        <3>2. k < index
            BY <1>1, <3>1 DEF ScanInv, TypeOK
        <3> QED
            BY <1>1, <1>7, <2>1, <3>1, <3>2 DEF CoverInv, Marked
    <2>3. ~ Partition(keys)
        BY <2>1, <2>2 DEF Partition
    <2>4. TypeOK' /\ ScanInv' /\ CoverInv'
        BY <1>1, <1>2, <2>1, <2>3 DEF TypeOK, ScanInv, RejectedIsNot, CoverInv
    <2> QED
        BY <1>4, <2>4 DEF Inv
<1> QED
    BY <1>5, <1>6, <1>7

LEMMA LookupStep ==
    ASSUME Inv, NEW slot \in Slots, Lookup(slot)
    PROVE  Inv'
<1>1. UNCHANGED <<keys, phase, ranges, index, i, covered>>
    BY DEF Lookup
<1>2. TypeOK'
    BY <1>1 DEF Lookup, Inv, TypeOK
<1>3. CoverInv'
    BY <1>1 DEF Inv, CoverInv, Marked
<1> QED
    BY <1>1, <1>2, <1>3 DEF Inv, ParseInv, ScanInv, RejectedIsNot, Parsed

LEMMA InvStep ==
    ASSUME Inv, [Next]_vars
    PROVE  Inv'
<1>1. CASE UNCHANGED vars
    <2>1. CoverInv'
        BY <1>1 DEF vars, Inv, CoverInv, Marked
    <2> QED
        BY <1>1, <2>1 DEF vars, Inv, TypeOK, ParseInv, ScanInv, RejectedIsNot, Parsed
<1> QED
    BY <1>1, ParseKeyStep, ParseEndStep, MarkStep, NextRangeStep, ScanStep, LookupStep
       DEF Next, Validate

LEMMA InvHolds == Spec => []Inv
BY InvInit, InvStep, PTL DEF Spec
-------------------------------------------------------------------------------

(* An accepted shard map that is not empty assigns every slot to exactly one   *)
(* range (parseEstablishment with ValidateFullCoverage).                       *)
THEOREM AcceptedIsPartitionCorrect == Spec => []AcceptedIsPartition
<1>1. Inv => AcceptedIsPartition
    <2> SUFFICES ASSUME Inv, phase = "accepted", keys # {}
                 PROVE  (\A raw \in keys : Parses(raw)) /\ Partition(keys)
        BY DEF AcceptedIsPartition
    <2>1. TypeOK /\ ParseInv /\ CoverInv /\ ScanInv
        BY DEF Inv
    <2>2. \A raw \in keys : \E k \in 1 .. Len(ranges) : raw = ranges[k]
        BY <2>1 DEF ParseInv, Parsed
    <2>3. index = Len(ranges) + 1
        BY <2>1, <2>2 DEF ScanInv
    <2>4. ASSUME NEW s \in Slots
          PROVE  \E raw \in keys :
                    /\ Contains(ParseRange(raw), s)
                    /\ \A other \in keys : Contains(ParseRange(other), s) => other = raw
        <3>1. PICK k \in 1 .. Len(ranges) : Marked(k, s)
            BY <2>1 DEF ScanInv, CoverInv
        <3>2. ASSUME NEW l \in 1 .. Len(ranges), Contains(ParseRange(ranges[l]), s)
              PROVE  l = k
            <4>1. Marked(l, s)
                BY <2>1, <2>3, <3>2 DEF Marked, TypeOK
            <4> QED
                BY <2>1, <3>1, <4>1 DEF CoverInv
        <3>3. ranges[k] \in keys /\ Contains(ParseRange(ranges[k]), s)
            BY <2>1, <3>1 DEF Marked, TypeOK
        <3> QED
            BY <2>2, <3>2, <3>3
    <2> QED
        BY <2>1, <2>2, <2>4 DEF Partition, ParseInv
<1> QED
    BY <1>1, InvHolds, PTL

(* The loops of the validation stay within the map and the slots: TypeOK. *)
THEOREM TypeCorrect == Spec => []TypeOK
<1>1. Inv => TypeOK
    BY DEF Inv
<1> QED
    BY <1>1, InvHolds, PTL

(* A refused shard map has a key that does not parse, or is no partition: the  *)
(* order in which the keys are walked never makes a valid map be refused.      *)
THEOREM RejectedIsNotCorrect == Spec => []RejectedIsNot
<1>1. Inv => RejectedIsNot
    BY DEF Inv, ScanInv
<1> QED
    BY <1>1, InvHolds, PTL

(* A slot that was looked up was found under a key of the accepted map. *)
AnswerInv ==
    \A s \in Slots : answer[s] # NotLooked =>
        phase = "accepted" /\ answer[s] \in keys /\ Contains(ParseRange(answer[s]), s)

LEMMA AnswerStep ==
    ASSUME TypeOK, AnswerInv, [Next]_vars
    PROVE  AnswerInv'
<1>1. ASSUME NEW slot \in Slots, Lookup(slot)
      PROVE  AnswerInv'
    BY <1>1 DEF Lookup, AnswerInv, TypeOK
<1>2. CASE Validate
    BY <1>2 DEF Validate, ParseKey, RefuseKey, ParseDone, Mark, NextRange, Scan, AnswerInv
<1>3. CASE UNCHANGED vars
    BY <1>3 DEF vars, AnswerInv
<1> QED
    BY <1>1, <1>2, <1>3 DEF Next

(* A slot that AssignmentForSlot found under one range is never found under    *)
(* another, although each lookup walks the map in another order.               *)
THEOREM LookupStableCorrect == Spec => LookupStable
<1>1. Init => AnswerInv
    BY DEF Init, AnswerInv
<1>2. Inv => TypeOK
    BY DEF Inv
<1>3. ASSUME TypeOK, AnswerInv, AcceptedIsPartition, [Next]_vars
      PROVE  [\A slot \in Slots : answer[slot] # NotLooked => answer'[slot] = answer[slot]]_vars
    <2>1. ASSUME NEW s \in Slots, answer[s] # NotLooked, NEW slot \in Slots, Lookup(slot)
          PROVE  answer'[s] = answer[s]
        <3>1. PICK raw \in keys : /\ Contains(ParseRange(raw), slot)
                                  /\ answer' = [answer EXCEPT ![slot] = raw]
            BY <2>1 DEF Lookup
        <3>2. CASE s = slot
            <4>1. answer[s] \in keys /\ Contains(ParseRange(answer[s]), s) /\ Partition(keys)
                BY <1>3, <2>1 DEF AnswerInv, AcceptedIsPartition
            <4>2. answer[s] = raw
                BY <3>1, <3>2, <4>1 DEF Partition
            <4> QED
                BY <1>3, <3>1, <3>2, <4>2 DEF TypeOK
        <3>3. CASE s # slot
            BY <1>3, <3>1, <3>3 DEF TypeOK
        <3> QED
            BY <3>2, <3>3
    <2>2. Validate => answer' = answer
        BY DEF Validate, ParseKey, RefuseKey, ParseDone, Mark, NextRange, Scan
    <2> QED
        BY <1>3, <2>1, <2>2 DEF Next
<1> QED
    BY <1>1, <1>2, <1>3, AnswerStep, InvHolds, AcceptedIsPartitionCorrect, PTL
       DEF Spec, LookupStable
===============================================================================
