------------------------------ MODULE MCDocuments ------------------------------
(***************************************************************************)
(* An instance of DocumentWrites and TypedDocuments for TLC.  An application *)
(* makes the raw calls or the typed ones: the two models share nothing, so   *)
(* the run explores one or the other.                                       *)
(***************************************************************************)
EXTENDS DocumentWrites, TypedDocuments

CONSTANTS films, live, copy

VARIABLE api

allVars == <<vars, typedVars, api>>

MCInit ==
    /\ Init
    /\ TypedInit
    /\ \/ api = "raw"
       \/ api = "typed" /\ log = << >> /\ op = [c \in Callers |-> "create"]

\* Calls and contents are numbered and occur in that order: any other behaviour is
\* one of these up to their names.
Begun(k) == phase[k] # "idle"
Occurs(x) ==
    \/ \E k \in Calls : Begun(k) /\ request[k].content = x
    \/ \E c \in Places : \E n \in DOMAIN history[c] : history[c][n].content = x

InOrder ==
    /\ \A j, k \in Calls : j < k /\ Begun(k) => Begun(j)
    /\ \A x, y \in Contents : x < y /\ Occurs(y) => Occurs(x)

MCNext ==
    \/ api = "raw" /\ Next /\ UNCHANGED <<typedVars, api>>
    \/ api = "typed" /\ TypedNext /\ InOrder' /\ UNCHANGED <<vars, api>>

MCSpec == MCInit /\ [][MCNext]_allVars /\ Fairness

\* Two versions of one collection are bound, and one of them with a second client.
MCDescriptors == <<[client |-> live, name |-> films, version |-> 1],
                   [client |-> live, name |-> films, version |-> 2],
                   [client |-> copy, name |-> films, version |-> 1]>>
===============================================================================
