---------------------------- MODULE RoutedCommand -----------------------------
(***************************************************************************)
(* A routed command, from the call of Patch, Delete, Read or Search to its *)
(* return: executeRouted and postCommand (src/command.go), doJSON and       *)
(* doJSONOnce (src/client.go), over the shared establishment cache.         *)
(*                                                                         *)
(* The calls are goroutines sharing one Client.  The servers adopt the      *)
(* published establishment documents at their own pace, so a route may be  *)
(* right for the client and wrong for the server.  A POST whose answer is   *)
(* late stays on the wire: the server may serve it after the client gave    *)
(* up on it.                                                               *)
(***************************************************************************)
EXTENDS EstablishCache, Routing, FiniteSets

CONSTANTS
    Commands,       \* the commands the calls may make, a set of [kind, slot]
    Docs,           \* the establishment documents, in order of publication
    MaxVersion,     \* how many documents are published
    Host,           \* the server listening at a URL, NoServer when there is none
    WmRetries,      \* Config.WrongMachineRetries after New: at least 1
    TrRetries       \* Config.TransportRetries

ASSUME CommandAssumption ==
    /\ Commands \subseteq Command
    /\ MaxVersion \in Nat \ {0}
    /\ DOMAIN Docs = 1 .. MaxVersion
    /\ \A v \in 1 .. MaxVersion : IsEstablishment(Docs[v])
    /\ DOMAIN Host = URLs
    /\ Range(Host) \subseteq Servers \cup {NoServer}
    /\ WmRetries \in Nat \ {0}
    /\ TrRetries \in Nat

VARIABLES
    adopted,    \* the document each server currently enforces
    pc,         \* where each call is
    cmd,        \* the command of each call
    base,       \* executeRouted's base: the URL the next POST goes to
    attempt,    \* how many hops the call has been routed to, 1 + Go's attempt
    try,        \* doJSON's i
    body,       \* TRUE while the body reader still holds the command
    wire,       \* POSTs no server has served yet
    reply,      \* the answer to the POST the call waits for
    result,     \* what the call returned
    execs,      \* ghost: how many times the database executed the command
    calm        \* ghost: the calls begun when every server enforced `live`

callVars == <<pc, cmd, base, attempt, try, body, reply, result>>
serverVars == <<adopted, wire, execs>>
vars == <<cacheVars, callVars, serverVars, calm>>

Calls == Callers

Replies == {"ok", "refused", "wrongMachine", "http"}
Results == {"ok", "refused", "wrongMachine", "transport", "error"}

Message == [call : Calls, attempt : 1 .. WmRetries + 1, try : 0 .. TrRetries,
            to : Servers, full : BOOLEAN]

TypeOK ==
    /\ CacheTypeOK
    /\ live \in 1 .. MaxVersion
    /\ cache \in 0 .. MaxVersion
    /\ fetched \in [Calls -> 0 .. MaxVersion]
    /\ adopted \in [Servers -> 1 .. MaxVersion]
    /\ pc \in [Calls -> {"idle", "establish", "reread", "send", "wait", "backoff", "done"}]
    /\ cmd \in [Calls -> Commands]
    /\ base \in [Calls -> URLs]
    /\ attempt \in [Calls -> 0 .. WmRetries + 1]
    /\ try \in [Calls -> 0 .. TrRetries]
    /\ body \in [Calls -> BOOLEAN]
    /\ wire \subseteq Message
    /\ reply \in [Calls -> {"none"} \cup Replies]
    /\ result \in [Calls -> {"none"} \cup Results]
    /\ execs \in [Calls -> Nat]
    /\ calm \subseteq Calls

Init ==
    /\ CacheInit
    /\ adopted = [s \in Servers |-> 1]
    /\ pc = [c \in Calls |-> "idle"]
    /\ cmd \in [Calls -> Commands]
    /\ base = [c \in Calls |-> EstablishmentURL]
    /\ attempt = [c \in Calls |-> 0]
    /\ try = [c \in Calls |-> 0]
    /\ body = [c \in Calls |-> TRUE]
    /\ wire = {}
    /\ reply = [c \in Calls |-> "none"]
    /\ result = [c \in Calls |-> "none"]
    /\ execs = [c \in Calls |-> 0]
    /\ calm = {}

-------------------------------------------------------------------------------
\* Steps that several actions of a call share.

Return(c, r) ==
    /\ pc' = [pc EXCEPT ![c] = "done"]
    /\ result' = [result EXCEPT ![c] = r]

\* Mutant of Hop: the hop is not counted.
HopUncounted(c, url) ==
    /\ url # NoURL
    /\ pc' = [pc EXCEPT ![c] = "send"]
    /\ base' = [base EXCEPT ![c] = url]
    /\ try' = [try EXCEPT ![c] = 0]
    /\ body' = [body EXCEPT ![c] = TRUE]
    /\ UNCHANGED <<cmd, attempt, reply, result>>

\* A resolved route: postCommand will wrap the bytes in a new reader.
Hop(c, url) ==
    /\ url # NoURL
    /\ pc' = [pc EXCEPT ![c] = "send"]
    /\ base' = [base EXCEPT ![c] = url]
    /\ attempt' = [attempt EXCEPT ![c] = @ + 1]
    /\ try' = [try EXCEPT ![c] = 0]
    /\ body' = [body EXCEPT ![c] = TRUE]
    /\ UNCHANGED <<cmd, reply, result>>

NoRoute(c, url) ==
    /\ url = NoURL
    /\ Return(c, "error")
    /\ UNCHANGED <<cmd, base, attempt, try, body, reply>>

\* Resolve the command of c in the cached document.
Resolve(c) == \E url \in Routes(Docs[cache], cmd[c]) : Hop(c, url) \/ NoRoute(c, url)

\* Mutant of TransportFails: one try too many.
TransportFailsLate(c) ==
    \/ /\ try[c] <= TrRetries
       /\ pc' = [pc EXCEPT ![c] = "backoff"]
       /\ UNCHANGED <<cmd, base, attempt, try, body, reply, result>>
    \/ /\ try[c] > TrRetries
       /\ Return(c, "transport")
       /\ UNCHANGED <<cmd, base, attempt, try, body, reply>>

\* doJSONOnce returned a TransportError.
TransportFails(c) ==
    \/ /\ try[c] < TrRetries
       /\ pc' = [pc EXCEPT ![c] = "backoff"]
       /\ UNCHANGED <<cmd, base, attempt, try, body, reply, result>>
    \/ /\ try[c] = TrRetries
       /\ Return(c, "transport")
       /\ UNCHANGED <<cmd, base, attempt, try, body, reply>>

-------------------------------------------------------------------------------
\* The calls.

\* ensureEstablished: a cached document is routed from at once, a nil cache is
\* filled first.
Begin(c, kinds) ==
    /\ pc[c] = "idle"
    /\ cmd[c].kind \in kinds
    /\ calm' = IF live = MaxVersion /\ \A s \in Servers : adopted[s] = live
               THEN calm \cup {c} ELSE calm
    /\ \/ /\ cache # 0
          /\ Resolve(c)
          /\ UNCHANGED cacheVars
       \/ /\ cache = 0
          /\ pc' = [pc EXCEPT ![c] = "establish"]
          /\ Ask(c)
          /\ UNCHANGED <<cmd, base, attempt, try, body, reply, result>>
    /\ UNCHANGED serverVars

Patch(c) == Begin(c, {"patch"})
Delete(c) == Begin(c, {"delete"})
Read(c) == Begin(c, {"read"})
Search(c) == Begin(c, {"search", "unkeyedSearch"})

\* Establish parses the document it was given and caches it.
Establish(c) ==
    /\ pc[c] = "establish"
    /\ fetch[c] = "got"
    /\ WellFormed(Docs[fetched[c]])
    /\ Store(c)
    /\ pc' = [pc EXCEPT ![c] = "reread"]
    /\ UNCHANGED <<cmd, base, attempt, try, body, reply, result, serverVars, calm>>

EstablishFails(c) ==
    /\ pc[c] = "establish"
    /\ fetch[c] = "got" => ~ WellFormed(Docs[fetched[c]])
    /\ Discard(c)
    /\ Return(c, "error")
    /\ UNCHANGED <<cmd, base, attempt, try, body, reply, serverVars, calm>>

\* est := c.cache.get() after Establish, and the route resolved from it.
Reroute(c) ==
    /\ pc[c] = "reread"
    /\ Resolve(c)
    /\ UNCHANGED <<cacheVars, serverVars, calm>>

\* TokenSource.Token fails, or returns an empty token: nothing is sent.
TokenFails(c) ==
    /\ pc[c] = "send"
    /\ Return(c, "error")
    /\ UNCHANGED <<cmd, base, attempt, try, body, reply, cacheVars, serverVars, calm>>

\* The URL makes no request, or no connection is made: the body is not read.
DialFails(c) ==
    /\ pc[c] = "send"
    /\ TransportFails(c)
    /\ UNCHANGED <<cacheVars, serverVars, calm>>

\* The request is written: its body is what the reader still holds, and sending
\* it leaves the reader at its end.
Post(c) ==
    /\ pc[c] = "send"
    /\ Host[base[c]] # NoServer
    /\ pc' = [pc EXCEPT ![c] = "wait"]
    /\ wire' = wire \cup {[call |-> c, attempt |-> attempt[c], try |-> try[c],
                           to |-> Host[base[c]], full |-> body[c]]}
    /\ body' = [body EXCEPT ![c] = FALSE]
    /\ reply' = [reply EXCEPT ![c] = "none"]
    /\ UNCHANGED <<cmd, base, attempt, try, result, adopted, execs, cacheVars, calm>>

\* The connection breaks or the HTTP client's timeout fires; an answer that has
\* not been read is lost.
GiveUp(c) ==
    /\ pc[c] = "wait"
    /\ TransportFails(c)
    /\ UNCHANGED <<cacheVars, serverVars, calm>>

\* Mutant of ReceiveHTTPError: the status is taken for a refusal.
ReceiveHTTPErrorAsRefusal(c) ==
    /\ pc[c] = "wait"
    /\ reply[c] = "http"
    /\ Return(c, "refused")
    /\ UNCHANGED <<cmd, base, attempt, try, body, reply, cacheVars, serverVars, calm>>

\* A status outside 2xx, or an unreadable, oversized or undecodable answer.
ReceiveHTTPError(c) ==
    /\ pc[c] = "wait"
    /\ reply[c] = "http"
    /\ TransportFails(c)
    /\ UNCHANGED <<cacheVars, serverVars, calm>>

ReceiveFinal(c) ==
    /\ pc[c] = "wait"
    /\ \/ reply[c] \in {"ok", "refused"}
       \/ reply[c] = "wrongMachine" /\ attempt[c] = WmRetries + 1
    /\ Return(c, reply[c])
    /\ UNCHANGED <<cmd, base, attempt, try, body, reply, cacheVars, serverVars, calm>>

\* Mutant of ReceiveBounce: the route is resolved again without a fetch.
ReceiveBounceCached(c) ==
    /\ pc[c] = "wait"
    /\ reply[c] = "wrongMachine"
    /\ attempt[c] <= WmRetries
    /\ pc' = [pc EXCEPT ![c] = "reread"]
    /\ UNCHANGED <<cmd, base, attempt, try, body, reply, result, cacheVars, serverVars, calm>>

\* wrongMachine with budget left: always fetch the establishment again.
ReceiveBounce(c) ==
    /\ pc[c] = "wait"
    /\ reply[c] = "wrongMachine"
    /\ attempt[c] <= WmRetries
    /\ pc' = [pc EXCEPT ![c] = "establish"]
    /\ Ask(c)
    /\ UNCHANGED <<cmd, base, attempt, try, body, reply, result, serverVars, calm>>

\* Mutant of Retry: the reader is rewound before the next try.
RetryRewound(c) ==
    /\ pc[c] = "backoff"
    /\ pc' = [pc EXCEPT ![c] = "send"]
    /\ try' = [try EXCEPT ![c] = @ + 1]
    /\ body' = [body EXCEPT ![c] = TRUE]
    /\ UNCHANGED <<cmd, base, attempt, reply, result, cacheVars, serverVars, calm>>

\* doJSON's loop hands the same reader to the next try.
Retry(c) ==
    /\ pc[c] = "backoff"
    /\ pc' = [pc EXCEPT ![c] = "send"]
    /\ try' = [try EXCEPT ![c] = @ + 1]
    /\ UNCHANGED <<cmd, base, attempt, body, reply, result, cacheVars, serverVars, calm>>

\* ctx.Done() during the backoff.
Cancel(c) ==
    /\ pc[c] = "backoff"
    /\ Return(c, "error")
    /\ UNCHANGED <<cmd, base, attempt, try, body, reply, cacheVars, serverVars, calm>>

-------------------------------------------------------------------------------
\* The servers, as the client relies on them.

\* A member accepts what the document it enforces assigns to it.
Accepts(s, command) ==
    \E a \in AssignmentsFor(Docs[adopted[s]], command.slot) :
        CASE command.kind \in {"patch", "delete"} -> s = a.sot
          [] command.kind = "read"                -> s \in Range(a.read)
          [] OTHER                                -> s \in Range(a.read) \cup {a.sot}

\* What serving m may do: whether it executes the command, and the answer.  A
\* request without a body is not a command.
Servings(m) ==
    IF ~ m.full
    THEN {<<FALSE, "refused">>, <<FALSE, "http">>}
    ELSE IF Accepts(m.to, cmd[m.call])
    THEN {<<TRUE, "ok">>, <<FALSE, "refused">>, <<TRUE, "http">>, <<FALSE, "http">>}
    ELSE {<<FALSE, "wrongMachine">>}

\* The call still waits for the answer to m.
Awaited(m) ==
    /\ pc[m.call] = "wait"
    /\ attempt[m.call] = m.attempt
    /\ try[m.call] = m.try

\* An answer reaches its caller, or is lost on the way.
Serve(m) ==
    /\ wire' = wire \ {m}
    /\ \E executed \in BOOLEAN, r \in Replies :
        /\ <<executed, r>> \in Servings(m)
        /\ execs' = IF executed THEN [execs EXCEPT ![m.call] = @ + 1] ELSE execs
        /\ \/ Awaited(m) /\ reply' = [reply EXCEPT ![m.call] = r]
           \/ reply' = reply
    /\ UNCHANGED <<cacheVars, adopted, pc, cmd, base, attempt, try, body, result, calm>>

Publish ==
    /\ live < MaxVersion
    /\ live' = live + 1
    /\ UNCHANGED <<cache, fetch, fetched, callVars, serverVars, calm>>

Adopt(s) ==
    /\ adopted[s] < live
    /\ \E v \in adopted[s] + 1 .. live : adopted' = [adopted EXCEPT ![s] = v]
    /\ UNCHANGED <<cacheVars, callVars, wire, execs, calm>>

EstablishmentAnswers(c) ==
    /\ Served(c) \/ FetchFails(c)
    /\ UNCHANGED <<callVars, serverVars, calm>>

Environment ==
    \/ \E m \in wire : Serve(m)
    \/ Publish
    \/ \E s \in Servers : Adopt(s)

-------------------------------------------------------------------------------

\* What a call does once it has begun, the waits being bounded by timeouts.
Proceed(c) ==
    \/ EstablishmentAnswers(c)
    \/ Establish(c)
    \/ EstablishFails(c)
    \/ Reroute(c)
    \/ TokenFails(c)
    \/ DialFails(c)
    \/ Post(c)
    \/ GiveUp(c)
    \/ ReceiveHTTPError(c)
    \/ ReceiveFinal(c)
    \/ ReceiveBounce(c)
    \/ Retry(c)
    \/ Cancel(c)

Start(c) == Patch(c) \/ Delete(c) \/ Read(c) \/ Search(c)

Next ==
    \/ \E c \in Calls : Start(c) \/ Proceed(c)
    \/ Environment

Spec == Init /\ [][Next]_vars

\* A goroutine that has begun a call is scheduled, and every wait of it ends:
\* the default HTTP client has a timeout, and the backoff is a timer.
FairSpec == Spec /\ \A c \in Calls : WF_vars(Proceed(c))

-------------------------------------------------------------------------------
\* Properties.

\* However calls bounce, time out, retry and are answered late, the database
\* executes the command of one call at most once (executeRouted, doJSON).  No
\* operation id is deduplicated here: this is the client's doing alone.
AtMostOnce == \A c \in Calls : execs[c] <= 1

\* Go's random map order cannot show: a cached document gives every command one
\* route, or one error (parseEstablishment, AssignmentForSlot).
RoutesDeterministic ==
    cache # 0 => \A command \in Commands :
                    \A u, v \in Routes(Docs[cache], command) : u = v

\* The contract of a call.  It is claimed without transport retries only.
Contract == INSTANCE CommandContract WITH
    outcome  <- [c \in Calls |-> IF pc[c] = "idle" THEN "idle"
                                 ELSE IF pc[c] = "done" THEN result[c] ELSE "pending"],
    executed <- {c \in Calls : execs[c] > 0}

\* executeRouted and doJSON implement the contract of a call: a success was
\* executed, a refusal was not and never will be, an error says neither.  That no
\* command is executed twice is AtMostOnce: here a second time is a stutter.
ImplementsContract == Contract!Spec

\* The route of a command that names its slot exists and leads to a server that
\* accepts it, in the last document and under the last document.
Reachable(command) ==
    \A url \in Routes(Docs[MaxVersion], command) :
        /\ url # NoURL
        /\ \E a \in AssignmentsFor(Docs[MaxVersion], command.slot) :
              Host[url] \in IF command.kind = "read" THEN Range(a.read)
                            ELSE IF command.kind = "search" THEN Range(a.read) \cup {a.sot}
                            ELSE {a.sot}

\* Once the topology has settled, a call of a command that names its slot never
\* reports wrongMachine, although its cache is stale and other calls may still
\* overwrite it with what they fetched before (executeRouted's refresh), as long as
\* the calls that share the client are no more than WmRetries, the bounces of each.
SettledNeverWrongMachine ==
    \A c \in calm :
        cmd[c].kind # "unkeyedSearch" /\ Reachable(cmd[c]) => result[c] # "wrongMachine"

\* Every call that begins returns: the bounce and retry budgets are finite.
Termination == \A c \in Calls : pc[c] # "idle" ~> pc[c] = "done"

\* What src/collection_client.go:132 says of retries: they send the same bytes.
RetriesSendSameBytes == \A m \in wire : m.full
===============================================================================
