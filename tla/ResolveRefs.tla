------------------------------ MODULE ResolveRefs ------------------------------
(***************************************************************************)
(* ResolveRefsInSOT (src/resolve.go): from a document that the caller holds, *)
(* a depth-first walk over the direct references in its fields.  Each       *)
(* document found is read once and walked in turn, down to a maximum depth. *)
(* The fields of a document are walked in Go's random map order.            *)
(***************************************************************************)
EXTENDS Naturals, Sequences, FiniteSets, SequencesExt

CONSTANTS
    Documents,      \* what a reference may name, one for each collection/id
    MaxDepth        \* the greatest maxDepth asked for

ASSUME ResolveAssumption == IsFiniteSet(Documents) /\ MaxDepth \in Nat \ {0}

VARIABLES
    root,       \* what the caller's document refers to
    refers,     \* what each document refers to
    maxDepth,   \* the parameter, raised to at least 1
    stack,      \* the pending calls of walk, the innermost one last
    seen,       \* refKeys met so far
    out,        \* the documents read so far
    reads,      \* ghost: how often each document was read
    status      \* "walking", "done", or "failed" when an error was returned

vars == <<root, refers, maxDepth, stack, seen, out, reads, status>>

\* A call of walk: the fields its loop has not met, and its depth.
Frame == [fields : SUBSET Documents, depth : 1 .. MaxDepth]

TypeOK ==
    /\ root \in SUBSET Documents
    /\ refers \in [Documents -> SUBSET Documents]
    /\ maxDepth \in 1 .. MaxDepth
    /\ stack \in Seq(Frame)
    /\ seen \in SUBSET Documents
    /\ out \in SUBSET seen
    /\ reads \in [Documents -> Nat]
    /\ status \in {"walking", "done", "failed"}
    /\ \A k \in DOMAIN stack : stack[k].depth = k
    /\ status = "done" => stack = << >>

Init ==
    /\ root \in SUBSET Documents
    /\ refers \in [Documents -> SUBSET Documents]
    /\ \E asked \in 0 .. MaxDepth : maxDepth = IF asked < 1 THEN 1 ELSE asked
    /\ stack = <<[fields |-> root, depth |-> 1]>>
    /\ seen = {}
    /\ out = {}
    /\ reads = [d \in Documents |-> 0]
    /\ status = "walking"

-------------------------------------------------------------------------------

Walking == status = "walking" /\ stack # << >>

Top == Last(stack)

\* The loop of the innermost call is past the field that refers to d.
Past(d) == [Top EXCEPT !.fields = @ \ {d}]

\* Mutant of Call: the depth is checked one call too late.
CallDeeper(d) ==
    IF Top.depth > maxDepth
    THEN stack' = Front(stack) \o <<Past(d)>>
    ELSE stack' = Front(stack) \o <<Past(d), [fields |-> refers[d], depth |-> Top.depth + 1]>>

\* walk(rr.SOT, depth+1), which returns at once beyond the maximum depth.
Call(d) ==
    IF Top.depth + 1 > maxDepth
    THEN stack' = Front(stack) \o <<Past(d)>>
    ELSE stack' = Front(stack) \o <<Past(d), [fields |-> refers[d], depth |-> Top.depth + 1]>>

\* A field refers to a document met before.
Skip ==
    /\ Walking
    /\ \E d \in Top.fields \cap seen : stack' = Front(stack) \o <<Past(d)>>
    /\ UNCHANGED <<root, refers, maxDepth, seen, out, reads, status>>

\* Mutant of Visit: the document is not marked as seen.
VisitUnmarked ==
    /\ Walking
    /\ \E d \in Top.fields \ seen :
        /\ out' = out \cup {d}
        /\ reads' = [reads EXCEPT ![d] = @ + 1]
        /\ Call(d)
    /\ UNCHANGED <<root, refers, maxDepth, seen, status>>

\* Mutant of Visit: every document of the fields is marked, one is read.
VisitMarksAll ==
    /\ Walking
    /\ \E d \in Top.fields \ seen :
        /\ seen' = seen \cup Top.fields
        /\ out' = out \cup {d}
        /\ reads' = [reads EXCEPT ![d] = @ + 1]
        /\ Call(d)
    /\ UNCHANGED <<root, refers, maxDepth, status>>

\* A field refers to a document not met before: it is read and walked.
Visit ==
    /\ Walking
    /\ \E d \in Top.fields \ seen :
        /\ seen' = seen \cup {d}
        /\ out' = out \cup {d}
        /\ reads' = [reads EXCEPT ![d] = @ + 1]
        /\ Call(d)
    /\ UNCHANGED <<root, refers, maxDepth, status>>

\* The read fails, or a field holds a malformed reference: the error goes up
\* through every call, and what was read is returned with it.
Fail ==
    /\ Walking
    /\ \/ \E d \in Top.fields \ seen :
            /\ seen' = seen \cup {d}
            /\ reads' = [reads EXCEPT ![d] = @ + 1]
       \/ UNCHANGED <<seen, reads>>
    /\ stack' = << >>
    /\ status' = "failed"
    /\ UNCHANGED <<root, refers, maxDepth, out>>

\* The loop of the innermost call ends.
Return ==
    /\ Walking
    /\ Top.fields = {}
    /\ stack' = Front(stack)
    /\ status' = IF Len(stack) = 1 THEN "done" ELSE status
    /\ UNCHANGED <<root, refers, maxDepth, seen, out, reads>>

Next == Skip \/ Visit \/ Fail \/ Return

Spec == Init /\ [][Next]_vars

-------------------------------------------------------------------------------

\* The documents at most n references away from the caller's document, n >= 1.
Within[n \in Nat] ==
    IF n <= 1 THEN root
    ELSE LET nearer == Within[n - 1] IN nearer \cup UNION {refers[d] : d \in nearer}

\* A document is read at most once, whatever cycles the references form
\* (the seen map of ResolveRefsInSOT).
ReadOnce == \A d \in Documents : reads[d] <= 1

\* Nothing farther than maxDepth references away is read, although a document
\* may be met along several paths.
DepthBounded == \A d \in Documents : reads[d] > 0 => d \in Within[maxDepth]

\* A walk that ends without an error has read every direct reference of the
\* caller's document, and everything that can be reached when maxDepth is at
\* least the number of documents: then no order of the fields cuts a path short.
CompleteWhenDeep ==
    status = "done" =>
        /\ root \subseteq out
        /\ maxDepth >= Cardinality(Documents) => out = Within[maxDepth]

\* What src/resolve.go:23 says: direct references are resolved up to maxDepth.
ResolvesToDepth == status = "done" => out = Within[maxDepth]
================================================================================
