---------------------------- MODULE EstablishCache ----------------------------
(***************************************************************************)
(* The client's one cached establishment document (establishmentCache in   *)
(* src/establish.go) and the fetches that fill it (Client.Establish in     *)
(* src/client.go).                                                         *)
(*                                                                         *)
(* The establishment server publishes documents 1, 2, 3, ...; `live` is    *)
(* the latest one.  A fetch is three steps of its caller, and other callers *)
(* may act between them: the GET is sent, the server answers with the       *)
(* document that is live then, and the caller stores what it was given.    *)
(* Nothing orders the stores of concurrent fetches: the mutex of the cache *)
(* protects the pointer only.                                              *)
(***************************************************************************)
EXTENDS Naturals

CONSTANT Callers    \* goroutines that share the Client

VARIABLES
    live,       \* the document the establishment server serves
    cache,      \* establishmentCache.cfg: 0 while it is nil
    fetch,      \* the state of each caller's GET .../establish
    fetched     \* the document the last answered GET of each caller returned

cacheVars == <<live, cache, fetch, fetched>>

FetchStates == {"none", "asked", "got", "failed"}

CacheTypeOK ==
    /\ live \in Nat \ {0}
    /\ cache \in Nat
    /\ fetch \in [Callers -> FetchStates]
    /\ fetched \in [Callers -> Nat]

CacheInit ==
    /\ live = 1
    /\ cache = 0
    /\ fetch = [c \in Callers |-> "none"]
    /\ fetched = [c \in Callers |-> 0]

\* Establish sends the GET (doJSON may send it again: the document is the one
\* that is live when the answered request is served).
Ask(c) ==
    /\ fetch[c] = "none"
    /\ fetch' = [fetch EXCEPT ![c] = "asked"]
    /\ UNCHANGED <<live, cache, fetched>>

\* The establishment server answers.
Served(c) ==
    /\ fetch[c] = "asked"
    /\ fetch' = [fetch EXCEPT ![c] = "got"]
    /\ fetched' = [fetched EXCEPT ![c] = live]
    /\ UNCHANGED <<live, cache>>

\* The fetch fails: transport, token, an ok:false answer, a cancelled context.
FetchFails(c) ==
    /\ fetch[c] = "asked"
    /\ fetch' = [fetch EXCEPT ![c] = "failed"]
    /\ UNCHANGED <<live, cache, fetched>>

\* cache.set: the last writer wins, whichever document it holds.
Store(c) ==
    /\ fetch[c] = "got"
    /\ cache' = fetched[c]
    /\ fetch' = [fetch EXCEPT ![c] = "none"]
    /\ UNCHANGED <<live, fetched>>

\* Mutant of Discard: a failed fetch clears the cache.
DiscardForgetting(c) ==
    /\ fetch[c] \in {"got", "failed"}
    /\ fetch' = [fetch EXCEPT ![c] = "none"]
    /\ cache' = 0
    /\ UNCHANGED <<live, fetched>>

\* Establish returns an error: the cache keeps what it held.
Discard(c) ==
    /\ fetch[c] \in {"got", "failed"}
    /\ fetch' = [fetch EXCEPT ![c] = "none"]
    /\ UNCHANGED <<live, cache, fetched>>
===============================================================================
