------------------------------- MODULE MCCatalog -------------------------------
(* One collection at versions 0 .. 2, with and without a search. *)
EXTENDS Catalog

CONSTANT items

Declare(kind, version) == [kind |-> kind, wants |-> [x \in {items} |-> version]]

\* The refresh of executeRouted: an establish that declares nothing.
Refresh == [kind |-> "establish", wants |-> [x \in {} |-> 0]]

Calls == <<Refresh, Declare("bind", 1), Declare("ensure", 1), Declare("ensure", 2),
           Declare("searchEnsure", 1), Declare("searchDelete", 1), Declare("schema", 1)>>

AllCalls == Range(Calls)

BindAndRefresh == {Refresh, Declare("bind", 1), Declare("ensure", 1), Declare("ensure", 2)}

\* At first there is no collection, or one with a search.  Callers are numbered,
\* and those that make the same calls in another order are the same up to their
\* names.
MCInit ==
    /\ Init
    /\ (items \in catalog[1].searches) <=> (catalog[1].schemas[items] = 1)
    /\ catalog[1].schemas[items] # 2
    /\ \A c, d \in Callers : c < d =>
        \E i, j \in DOMAIN Calls : i <= j /\ op[c] = Calls[i] /\ op[d] = Calls[j]

MCSpec == MCInit /\ [][Next]_vars /\ Fairness
================================================================================
