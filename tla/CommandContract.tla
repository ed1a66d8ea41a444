---------------------------- MODULE CommandContract ----------------------------
(***************************************************************************)
(* What a call of a routed command promises its caller, without servers,   *)
(* routes, attempts or messages.  A success was executed; a refusal never  *)
(* is; after an error the caller does not know, and the command may still  *)
(* be executed later.  It says whether a command was executed, not how     *)
(* often: an implementation that executes one again takes no step here.    *)
(***************************************************************************)
CONSTANT Calls

VARIABLES
    outcome,    \* of each call: "idle", "pending", or what it returned
    executed    \* the calls whose command the database has executed

Refusals == {"refused", "wrongMachine"}    \* AppError
Unknowns == {"transport", "error"}         \* TransportError, any other error
Outcomes == {"ok"} \cup Refusals \cup Unknowns

ContractTypeOK ==
    /\ outcome \in [Calls -> {"idle", "pending"} \cup Outcomes]
    /\ executed \subseteq Calls

Init ==
    /\ outcome = [c \in Calls |-> "idle"]
    /\ executed = {}

Call(c) ==
    /\ outcome[c] = "idle"
    /\ outcome' = [outcome EXCEPT ![c] = "pending"]
    /\ UNCHANGED executed

Execute(c) ==
    /\ c \notin executed
    /\ outcome[c] \in {"pending"} \cup Unknowns
    /\ executed' = executed \cup {c}
    /\ UNCHANGED outcome

Return(c, o) ==
    /\ outcome[c] = "pending"
    /\ o = "ok" => c \in executed
    /\ o \in Refusals => c \notin executed
    /\ outcome' = [outcome EXCEPT ![c] = o]
    /\ UNCHANGED executed

\* A call that fails before its first step is over at once.
Reject(c) ==
    /\ outcome[c] = "idle"
    /\ outcome' = [outcome EXCEPT ![c] = "error"]
    /\ UNCHANGED executed

Next ==
    \E c \in Calls :
        \/ Call(c)
        \/ Reject(c)
        \/ Execute(c)
        \/ \E o \in Outcomes : Return(c, o)

Spec == Init /\ [][Next]_<<outcome, executed>>
================================================================================
