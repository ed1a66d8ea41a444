-------------------------- MODULE RoutedCommandProofs --------------------------
(***************************************************************************)
(* Theorems about RoutedCommand, for every set of calls, servers and        *)
(* documents and every retry budget.                                       *)
(***************************************************************************)
EXTENDS RoutedCommand, TLAPS, FiniteSetTheorems

(* A resolver returns a URL or its error, whatever document it resolves in. *)
LEMMA RoutesType ==
    ASSUME NEW est, IsEstablishment(est), NEW command \in Command
    PROVE  Routes(est, command) \subseteq URLs \cup {NoURL}
<1>1. \A name : ServerBaseURL(est, name) \in URLs \cup {NoURL}
    BY DEF IsEstablishment, ServerBaseURL
<1>2. \A name, url : url \in URLs => RewriteURL(name, url) \in URLs
    BY RoutingAssumption DEF RewriteURL, Range
<1>3. \A name : MemberURL(est, name) \in URLs \cup {NoURL}
    BY <1>1, <1>2 DEF MemberURL
<1>4. RouteUnkeyed(est) \in URLs
    BY <1>1, <1>2, RoutingAssumption DEF RouteUnkeyed
<1>5. command.kind \in Kinds
    BY DEF Command
<1> QED
    BY <1>3, <1>4, <1>5 DEF Routes, Kinds, RouteWrite, RouteRead, RouteSearch

(* What resolving a route may do to a call keeps the types. *)
LEMMA ResolveType ==
    ASSUME TypeOK, NEW c \in Calls, cache # 0, attempt[c] <= WmRetries, Resolve(c)
    PROVE  /\ pc' \in [Calls -> {"idle", "establish", "reread", "send", "wait", "backoff", "done"}]
           /\ cmd' \in [Calls -> Commands]
           /\ base' \in [Calls -> URLs]
           /\ attempt' \in [Calls -> 0 .. WmRetries + 1]
           /\ try' \in [Calls -> 0 .. TrRetries]
           /\ body' \in [Calls -> BOOLEAN]
           /\ reply' \in [Calls -> {"none"} \cup Replies]
           /\ result' \in [Calls -> {"none"} \cup Results]
<1>1. PICK url \in Routes(Docs[cache], cmd[c]) : Hop(c, url) \/ NoRoute(c, url)
    BY DEF Resolve
<1>2. url \in URLs \cup {NoURL}
    <2>1. cmd[c] \in Command
        BY CommandAssumption DEF TypeOK
    <2>2. IsEstablishment(Docs[cache])
        BY CommandAssumption DEF TypeOK
    <2> QED
        BY <1>1, <2>1, <2>2, RoutesType
<1>3. CASE Hop(c, url)
    BY CommandAssumption, <1>2, <1>3 DEF Hop, TypeOK
<1>4. CASE NoRoute(c, url)
    BY <1>4 DEF NoRoute, Return, TypeOK, Results
<1> QED
    BY <1>1, <1>3, <1>4
-------------------------------------------------------------------------------
(* The inductive invariant.  CallShape says what the steps of a call rely on. *)

CallShape(c) ==
    /\ pc[c] = "idle" => attempt[c] = 0
    /\ pc[c] \in {"send", "wait", "backoff"} => attempt[c] >= 1
    /\ pc[c] \in {"establish", "reread"} => attempt[c] <= WmRetries
    /\ pc[c] = "reread" => cache # 0
    /\ pc[c] = "backoff" => try[c] < TrRetries
    /\ pc[c] = "done" => result[c] \in Results
    /\ fetch[c] = "got" => fetched[c] # 0

\* The database has not executed the command of c and holds no request that
\* could make it do so.
Untouched(c) ==
    /\ execs[c] = 0
    /\ \A m \in wire : m.call = c => ~ m.full

\* While the reader still holds the body, and whenever a new reader may be
\* made, the command is untouched.
FlightInv(c) ==
    /\ execs[c] <= 1
    /\ body[c] => Untouched(c)
    /\ pc[c] \in {"idle", "establish", "reread"} => Untouched(c)
    /\ pc[c] = "wait" /\ reply[c] = "wrongMachine" => Untouched(c)

\* Of one call at most one request with a body is unserved, and then the
\* command was not executed.
WireInv ==
    /\ \A m \in wire : m.full => execs[m.call] = 0
    /\ \A m, n \in wire : m.full /\ n.full /\ m.call = n.call => m = n

Inv ==
    /\ TypeOK
    /\ \A c \in Calls : CallShape(c)
    /\ \A c \in Calls : FlightInv(c)
    /\ WireInv
-------------------------------------------------------------------------------
(* The steps of a call, one assumption per action, for the proofs below. *)

LEMMA StartIsBegin ==
    ASSUME NEW c \in Calls, Start(c)
    PROVE  \E kinds : Begin(c, kinds)
BY DEF Start, Patch, Delete, Read, Search

LEMMA TypeStep ==
    ASSUME Inv, Next
    PROVE  TypeOK'
<1> USE DEF Calls
<1>1. TypeOK /\ \A c \in Calls : CallShape(c)
    BY DEF Inv
<1>2. ASSUME NEW c \in Calls, NEW kinds, Begin(c, kinds)
      PROVE  TypeOK'
    <2>1. pc[c] = "idle" /\ attempt[c] <= WmRetries
        BY CommandAssumption, <1>1, <1>2 DEF Begin, CallShape
    <2>2. CASE cache # 0 /\ Resolve(c) /\ UNCHANGED cacheVars
        <3>1. UNCHANGED <<live, cache, fetch, fetched, adopted, wire, execs>> /\ calm' \subseteq Calls
            BY <1>1, <1>2, <2>2 DEF Begin, cacheVars, serverVars, TypeOK
        <3> QED
            BY <1>1, <2>1, <2>2, <3>1, ResolveType DEF TypeOK, CacheTypeOK
    <2>3. CASE /\ pc' = [pc EXCEPT ![c] = "establish"]
               /\ Ask(c)
               /\ UNCHANGED <<cmd, base, attempt, try, body, reply, result>>
        <3>1. UNCHANGED <<adopted, wire, execs>> /\ calm' \subseteq Calls
            BY <1>1, <1>2 DEF Begin, serverVars, TypeOK
        <3> QED
            BY <1>1, <2>3, <3>1 DEF TypeOK, CacheTypeOK, Ask, FetchStates
    <2> QED
        BY <1>2, <2>2, <2>3 DEF Begin
<1>3. ASSUME NEW c \in Calls, EstablishmentAnswers(c)
      PROVE  TypeOK'
    <2>1. UNCHANGED <<live, cache, adopted, wire, execs, calm>> /\ UNCHANGED callVars
        BY <1>3 DEF EstablishmentAnswers, Served, FetchFails, serverVars
    <2>2. fetch' \in [Callers -> FetchStates]
        BY <1>1, <1>3 DEF EstablishmentAnswers, Served, FetchFails, TypeOK, CacheTypeOK, FetchStates
    <2>3. fetched' \in [Callers -> 0 .. MaxVersion] /\ fetched' \in [Callers -> Nat]
        BY <1>1, <1>3 DEF EstablishmentAnswers, Served, FetchFails, TypeOK, CacheTypeOK
    <2> QED
        BY <1>1, <2>1, <2>2, <2>3 DEF callVars, TypeOK, CacheTypeOK
<1>4. ASSUME NEW c \in Calls, Establish(c)
      PROVE  TypeOK'
    BY <1>1, <1>4 DEF Establish, Store, serverVars, TypeOK, CacheTypeOK, FetchStates
<1>5. ASSUME NEW c \in Calls, EstablishFails(c)
      PROVE  TypeOK'
    BY <1>1, <1>5 DEF EstablishFails, Discard, Return, Results, serverVars, TypeOK,
                      CacheTypeOK, FetchStates
<1>6. ASSUME NEW c \in Calls, Reroute(c)
      PROVE  TypeOK'
    <2>1. cache # 0 /\ attempt[c] <= WmRetries /\ Resolve(c)
        BY <1>1, <1>6 DEF Reroute, CallShape
    <2>2. UNCHANGED <<live, cache, fetch, fetched, adopted, wire, execs, calm>>
        BY <1>6 DEF Reroute, cacheVars, serverVars
    <2> QED
        BY <1>1, <2>1, <2>2, ResolveType DEF TypeOK, CacheTypeOK
<1>7. ASSUME NEW c \in Calls, TokenFails(c) \/ Cancel(c) \/ ReceiveFinal(c)
      PROVE  TypeOK'
    BY <1>1, <1>7 DEF TokenFails, Cancel, ReceiveFinal, Return, Results, Replies,
                      cacheVars, serverVars, TypeOK, CacheTypeOK
<1>8. ASSUME NEW c \in Calls, DialFails(c) \/ GiveUp(c) \/ ReceiveHTTPError(c)
      PROVE  TypeOK'
    BY <1>1, <1>8 DEF DialFails, GiveUp, ReceiveHTTPError, TransportFails, Return, Results,
                      cacheVars, serverVars, TypeOK, CacheTypeOK
<1>9. ASSUME NEW c \in Calls, Post(c)
      PROVE  TypeOK'
    <2> DEFINE m == [call |-> c, attempt |-> attempt[c], try |-> try[c],
                     to |-> Host[base[c]], full |-> body[c]]
    <2>1. m \in Message
        <3>1. Host[base[c]] \in Servers
            BY CommandAssumption, <1>1, <1>9 DEF Post, TypeOK, Range
        <3>2. attempt[c] \in 1 .. WmRetries + 1
            BY CommandAssumption, <1>1, <1>9 DEF Post, TypeOK, CallShape
        <3> QED
            BY <1>1, <3>1, <3>2 DEF TypeOK, Message
    <2>2. wire' = wire \cup {m}
        BY <1>9 DEF Post
    <2> QED
        BY <1>1, <1>9, <2>1, <2>2 DEF Post, cacheVars, TypeOK, CacheTypeOK
<1>10. ASSUME NEW c \in Calls, ReceiveBounce(c)
       PROVE  TypeOK'
    BY <1>1, <1>10 DEF ReceiveBounce, Ask, serverVars, TypeOK, CacheTypeOK, FetchStates
<1>11. ASSUME NEW c \in Calls, Retry(c)
       PROVE  TypeOK'
    <2>1. try[c] + 1 \in 0 .. TrRetries
        BY CommandAssumption, <1>1, <1>11 DEF Retry, TypeOK, CallShape
    <2> QED
        BY <1>1, <1>11, <2>1 DEF Retry, cacheVars, serverVars, TypeOK, CacheTypeOK
<1>12. ASSUME NEW m \in wire, Serve(m)
       PROVE  TypeOK'
    <2>1. m.call \in Calls
        BY <1>1 DEF TypeOK, Message
    <2>2. PICK executed \in BOOLEAN, r \in Replies :
            /\ execs' = IF executed THEN [execs EXCEPT ![m.call] = @ + 1] ELSE execs
            /\ \/ reply' = [reply EXCEPT ![m.call] = r]
               \/ reply' = reply
        BY <1>12 DEF Serve
    <2>3. execs' \in [Calls -> Nat]
        <3>1. execs \in [Calls -> Nat]
            BY <1>1 DEF TypeOK
        <3> QED
            BY <2>1, <2>2, <3>1
    <2>4. reply' \in [Calls -> {"none"} \cup Replies]
        <3>1. reply \in [Calls -> {"none"} \cup Replies]
            BY <1>1 DEF TypeOK
        <3> QED
            BY <2>1, <2>2, <3>1
    <2>5. wire' \subseteq Message
        BY <1>1, <1>12 DEF Serve, TypeOK
    <2> QED
        BY <1>1, <1>12, <2>3, <2>4, <2>5 DEF Serve, cacheVars, TypeOK, CacheTypeOK
<1>13. CASE Publish
    BY CommandAssumption, <1>1, <1>13 DEF Publish, callVars, serverVars, TypeOK, CacheTypeOK
<1>14. ASSUME NEW s \in Servers, Adopt(s)
       PROVE  TypeOK'
    <2>1. PICK v \in adopted[s] + 1 .. live : adopted' = [adopted EXCEPT ![s] = v]
        BY <1>14 DEF Adopt
    <2>2. v \in 1 .. MaxVersion
        BY CommandAssumption, <1>1, <2>1 DEF TypeOK
    <2>3. adopted' \in [Servers -> 1 .. MaxVersion]
        BY <1>1, <2>1, <2>2 DEF TypeOK
    <2> QED
        BY <1>1, <1>14, <2>3 DEF Adopt, cacheVars, callVars, TypeOK, CacheTypeOK
<1> QED
    BY <1>2, <1>3, <1>4, <1>5, <1>6, <1>7, <1>8, <1>9, <1>10, <1>11, <1>12, <1>13, <1>14,
       StartIsBegin DEF Next, Proceed, Environment
LEMMA ShapeStep ==
    ASSUME Inv, Next, NEW d \in Calls
    PROVE  CallShape(d)'
<1> USE DEF Calls
<1>1. TypeOK /\ CallShape(d) /\ \A c \in Calls : CallShape(c)
    BY DEF Inv
<1>2. ASSUME NEW c \in Calls, Resolve(c), cache # 0, pc[c] \in {"idle", "reread"},
             UNCHANGED cacheVars
      PROVE  CallShape(d)'
    <2>1. PICK url : Hop(c, url) \/ NoRoute(c, url)
        BY <1>2 DEF Resolve
    <2>2. attempt[c] \in Nat
        BY CommandAssumption, <1>1 DEF TypeOK
    <2>3. CASE Hop(c, url)
        BY <1>1, <1>2, <2>2, <2>3 DEF Hop, CallShape, TypeOK, cacheVars
    <2>4. CASE NoRoute(c, url)
        BY <1>1, <1>2, <2>4 DEF NoRoute, Return, Results, CallShape, TypeOK, cacheVars
    <2> QED
        BY <2>1, <2>3, <2>4
<1>3. ASSUME NEW c \in Calls, NEW kinds, Begin(c, kinds)
      PROVE  CallShape(d)'
    <2>1. CASE cache = 0
        <3>1. attempt[c] <= WmRetries
            BY CommandAssumption, <1>1, <1>3 DEF Begin, CallShape
        <3> QED
            BY <1>1, <1>3, <2>1, <3>1 DEF Begin, Ask, CallShape, TypeOK, CacheTypeOK
    <2>2. CASE cache # 0
        BY <1>2, <1>3, <2>2 DEF Begin
    <2> QED
        BY <2>1, <2>2
<1>4. ASSUME NEW c \in Calls, EstablishmentAnswers(c)
      PROVE  CallShape(d)'
    BY <1>1, <1>4 DEF EstablishmentAnswers, Served, FetchFails, callVars, CallShape, TypeOK,
                      CacheTypeOK
<1>5. ASSUME NEW c \in Calls, Establish(c)
      PROVE  CallShape(d)'
    BY <1>1, <1>5 DEF Establish, Store, CallShape, TypeOK, CacheTypeOK
<1>6. ASSUME NEW c \in Calls, EstablishFails(c)
      PROVE  CallShape(d)'
    BY <1>1, <1>6 DEF EstablishFails, Discard, Return, Results, CallShape, TypeOK, CacheTypeOK
<1>7. ASSUME NEW c \in Calls, Reroute(c)
      PROVE  CallShape(d)'
    BY <1>1, <1>2, <1>7 DEF Reroute, CallShape
<1>8. ASSUME NEW c \in Calls, TokenFails(c) \/ Cancel(c) \/ ReceiveFinal(c)
      PROVE  CallShape(d)'
    BY <1>1, <1>8 DEF TokenFails, Cancel, ReceiveFinal, Return, Results, CallShape, TypeOK,
                      cacheVars
<1>9. ASSUME NEW c \in Calls, DialFails(c) \/ GiveUp(c) \/ ReceiveHTTPError(c)
      PROVE  CallShape(d)'
    BY <1>1, <1>9 DEF DialFails, GiveUp, ReceiveHTTPError, TransportFails, Return, Results,
                      CallShape, TypeOK, cacheVars
<1>10. ASSUME NEW c \in Calls, Post(c)
       PROVE  CallShape(d)'
    BY <1>1, <1>10 DEF Post, CallShape, TypeOK, cacheVars
<1>11. ASSUME NEW c \in Calls, ReceiveBounce(c)
       PROVE  CallShape(d)'
    BY <1>1, <1>11 DEF ReceiveBounce, Ask, CallShape, TypeOK, CacheTypeOK
<1>12. ASSUME NEW c \in Calls, Retry(c)
       PROVE  CallShape(d)'
    BY <1>1, <1>12 DEF Retry, CallShape, TypeOK, cacheVars
<1>13. ASSUME NEW m \in wire, Serve(m)
       PROVE  CallShape(d)'
    BY <1>1, <1>13 DEF Serve, CallShape, cacheVars
<1>14. CASE Publish
    BY <1>1, <1>14 DEF Publish, callVars, CallShape
<1>15. ASSUME NEW s \in Servers, Adopt(s)
       PROVE  CallShape(d)'
    BY <1>1, <1>15 DEF Adopt, callVars, cacheVars, CallShape
<1> QED
    BY <1>3, <1>4, <1>5, <1>6, <1>7, <1>8, <1>9, <1>10, <1>11, <1>12, <1>13, <1>14, <1>15,
       StartIsBegin DEF Next, Proceed, Environment

(* A step that leaves the wire and the executions alone keeps the flight      *)
(* invariants of a call, if it hands out no body and enters no state in which *)
(* the command must be untouched, unless the command is untouched already.    *)
LEMMA QuietStep ==
    ASSUME Inv, NEW d \in Calls, UNCHANGED <<wire, execs>>,
           body'[d] => body[d] \/ Untouched(d),
           pc'[d] \in {"idle", "establish", "reread"} =>
                pc'[d] = pc[d] \/ Untouched(d),
           pc'[d] = "wait" /\ reply'[d] = "wrongMachine" =>
                Untouched(d) \/ (pc[d] = "wait" /\ reply[d] = "wrongMachine")
    PROVE  FlightInv(d)'
<1>1. FlightInv(d)
    BY DEF Inv
<1>2. Untouched(d) => Untouched(d)'
    BY DEF Untouched
<1> QED
    BY <1>1, <1>2 DEF FlightInv
(* A step of the client that sends nothing is quiet, for every call. *)
LEMMA ClientStepQuiet ==
    ASSUME Inv, NEW c \in Calls, Start(c) \/ (Proceed(c) /\ ~ Post(c)), NEW d \in Calls
    PROVE  FlightInv(d)' /\ UNCHANGED <<wire, execs>>
<1> USE DEF Calls
<1>1. TypeOK /\ FlightInv(c) /\ FlightInv(d)
    BY DEF Inv
<1>2. ASSUME Resolve(c), pc[c] \in {"idle", "reread"}, UNCHANGED <<wire, execs>>
      PROVE  FlightInv(d)'
    <2>1. PICK url : Hop(c, url) \/ NoRoute(c, url)
        BY <1>2 DEF Resolve
    <2>2. Untouched(c)
        BY <1>1, <1>2 DEF FlightInv
    <2>3. CASE Hop(c, url)
        BY <1>1, <1>2, <2>2, <2>3, QuietStep DEF Hop, TypeOK
    <2>4. CASE NoRoute(c, url)
        BY <1>1, <1>2, <2>4, QuietStep DEF NoRoute, Return, TypeOK
    <2> QED
        BY <2>1, <2>3, <2>4
<1>3. ASSUME NEW kinds, Begin(c, kinds)
      PROVE  FlightInv(d)' /\ UNCHANGED <<wire, execs>>
    <2>1. UNCHANGED <<wire, execs>> /\ pc[c] = "idle"
        BY <1>3 DEF Begin, serverVars
    <2>2. CASE Resolve(c)
        BY <1>2, <2>1, <2>2
    <2>3. CASE /\ pc' = [pc EXCEPT ![c] = "establish"]
               /\ UNCHANGED <<cmd, base, attempt, try, body, reply, result>>
        <3>1. Untouched(c)
            BY <1>1, <2>1 DEF FlightInv
        <3> QED
            BY <1>1, <2>1, <2>3, <3>1, QuietStep DEF TypeOK
    <2> QED
        BY <1>3, <2>1, <2>2, <2>3 DEF Begin
<1>4. CASE EstablishmentAnswers(c)
    BY <1>1, <1>4, QuietStep DEF EstablishmentAnswers, callVars, serverVars
<1>5. CASE Establish(c) \/ EstablishFails(c)
    <2>1. UNCHANGED <<wire, execs, body, reply>>
        BY <1>5 DEF Establish, EstablishFails, serverVars
    <2>2. pc[c] = "establish" /\ Untouched(c)
        BY <1>1, <1>5 DEF Establish, EstablishFails, FlightInv
    <2>3. pc' = [pc EXCEPT ![c] = "reread"] \/ pc' = [pc EXCEPT ![c] = "done"]
        BY <1>5 DEF Establish, EstablishFails, Return
    <2> QED
        BY <1>1, <2>1, <2>2, <2>3, QuietStep DEF TypeOK
<1>6. CASE Reroute(c)
    BY <1>2, <1>6 DEF Reroute, serverVars
<1>7. CASE TokenFails(c) \/ Cancel(c) \/ ReceiveFinal(c)
    <2>1. UNCHANGED <<wire, execs, body, reply>> /\ pc' = [pc EXCEPT ![c] = "done"]
        BY <1>7 DEF TokenFails, Cancel, ReceiveFinal, Return, serverVars
    <2> QED
        BY <1>1, <2>1, QuietStep DEF TypeOK
<1>8. CASE DialFails(c) \/ GiveUp(c) \/ ReceiveHTTPError(c)
    <2>1. UNCHANGED <<wire, execs, body, reply>>
        BY <1>8 DEF DialFails, GiveUp, ReceiveHTTPError, TransportFails, serverVars
    <2>2. pc' = [pc EXCEPT ![c] = "done"] \/ pc' = [pc EXCEPT ![c] = "backoff"]
        BY <1>8 DEF DialFails, GiveUp, ReceiveHTTPError, TransportFails, Return
    <2> QED
        BY <1>1, <2>1, <2>2, QuietStep DEF TypeOK
<1>9. CASE ReceiveBounce(c)
    <2>1. Untouched(c)
        BY <1>1, <1>9 DEF ReceiveBounce, FlightInv
    <2> QED
        BY <1>1, <1>9, <2>1, QuietStep DEF ReceiveBounce, serverVars, TypeOK
<1>10. CASE Retry(c)
    BY <1>1, <1>10, QuietStep DEF Retry, serverVars, TypeOK
<1> QED
    BY <1>3, <1>4, <1>5, <1>6, <1>7, <1>8, <1>9, <1>10, StartIsBegin DEF Proceed

(* Sending moves the body from the reader to the wire. *)
LEMMA PostFlight ==
    ASSUME Inv, NEW c \in Calls, Post(c)
    PROVE  (\A d \in Calls : FlightInv(d))' /\ WireInv'
<1> USE DEF Calls
<1> DEFINE m == [call |-> c, attempt |-> attempt[c], try |-> try[c],
                 to |-> Host[base[c]], full |-> body[c]]
<1>1. TypeOK /\ WireInv /\ \A d \in Calls : FlightInv(d)
    BY DEF Inv
<1>2. /\ wire' = wire \cup {m}
      /\ execs' = execs
      /\ pc' = [pc EXCEPT ![c] = "wait"]
      /\ body' = [body EXCEPT ![c] = FALSE]
      /\ reply' = [reply EXCEPT ![c] = "none"]
    BY DEF Post
<1>3. m.call = c /\ m.full = body[c]
    OBVIOUS
<1>4. body[c] => Untouched(c)
    BY <1>1 DEF FlightInv
<1> HIDE DEF m
<1>5. ASSUME NEW d \in Calls
      PROVE  FlightInv(d)'
    <2>1. CASE d = c
        BY <1>1, <1>2, <2>1 DEF FlightInv, TypeOK
    <2>2. CASE d # c
        <3>1. Untouched(d) => Untouched(d)'
            BY <1>2, <1>3, <2>2 DEF Untouched
        <3> QED
            BY <1>1, <1>2, <2>2, <3>1 DEF FlightInv, TypeOK
    <2> QED
        BY <2>1, <2>2
<1>6. WireInv'
    <2>1. ASSUME NEW n \in wire', n.full
          PROVE  execs'[n.call] = 0
        BY <1>1, <1>2, <1>3, <1>4, <2>1 DEF WireInv, Untouched
    <2>2. ASSUME NEW n \in wire', NEW o \in wire', n.full, o.full, n.call = o.call
          PROVE  n = o
        BY <1>1, <1>2, <1>3, <1>4, <2>2 DEF WireInv, Untouched
    <2> QED
        BY <2>1, <2>2 DEF WireInv
<1> QED
    BY <1>5, <1>6

(* Serving a request takes it off the wire; only a request with a body can be *)
(* executed, or answered with wrongMachine.                                   *)
LEMMA ServeFlight ==
    ASSUME Inv, NEW m \in wire, Serve(m)
    PROVE  (\A d \in Calls : FlightInv(d))' /\ WireInv'
<1> USE DEF Calls
<1>1. TypeOK /\ WireInv /\ \A d \in Calls : FlightInv(d)
    BY DEF Inv
<1>2. m.call \in Calls /\ m.full \in BOOLEAN
    BY <1>1 DEF TypeOK, Message
<1>3. wire' = wire \ {m} /\ UNCHANGED <<pc, body>>
    BY DEF Serve
<1>4. PICK executed \in BOOLEAN, r \in Replies :
        /\ <<executed, r>> \in Servings(m)
        /\ execs' = IF executed THEN [execs EXCEPT ![m.call] = @ + 1] ELSE execs
        /\ reply' = [reply EXCEPT ![m.call] = r] \/ reply' = reply
    BY DEF Serve
<1>5. (executed \/ r = "wrongMachine") => m.full
    BY <1>4 DEF Servings
<1>6. r = "wrongMachine" => ~ executed
    BY <1>4 DEF Servings
<1>7. executed => execs[m.call] = 0 /\ execs'[m.call] = 1
    BY <1>1, <1>2, <1>4, <1>5 DEF WireInv, TypeOK
<1>8. \A d \in Calls : d # m.call => execs'[d] = execs[d] /\ reply'[d] = reply[d]
    BY <1>1, <1>2, <1>4 DEF TypeOK
<1>9. \A n \in wire' : n \in wire /\ (m.full /\ n.full => n.call # m.call)
    BY <1>1, <1>3 DEF WireInv
<1>10. ASSUME NEW d \in Calls
       PROVE  Untouched(d) => Untouched(d)'
    BY <1>2, <1>3, <1>4, <1>5, <1>8 DEF Untouched
<1>11. r = "wrongMachine" => Untouched(m.call)'
    <2> HAVE r = "wrongMachine"
    <2>1. execs'[m.call] = 0
        BY <1>1, <1>4, <1>5, <1>6 DEF WireInv
    <2> QED
        BY <1>5, <1>9, <2>1 DEF Untouched
<1>12. ASSUME NEW d \in Calls
       PROVE  FlightInv(d)'
    <2>1. execs'[d] <= 1
        BY <1>1, <1>4, <1>7, <1>8 DEF FlightInv
    <2>2. pc'[d] = "wait" /\ reply'[d] = "wrongMachine" => Untouched(d)'
        <3>1. CASE d = m.call /\ reply' = [reply EXCEPT ![m.call] = r]
            BY <1>1, <1>11, <3>1 DEF TypeOK
        <3>2. CASE reply'[d] = reply[d]
            BY <1>1, <1>3, <1>10, <3>2 DEF FlightInv
        <3> QED
            BY <1>4, <1>8, <3>1, <3>2
    <2> QED
        BY <1>1, <1>3, <1>10, <2>1, <2>2 DEF FlightInv
<1>13. WireInv'
    <2>1. ASSUME NEW n \in wire', n.full
          PROVE  execs'[n.call] = 0
        <3>1. n.call \in Calls /\ n \in wire /\ execs[n.call] = 0
            BY <1>1, <1>3, <2>1 DEF WireInv, TypeOK, Message
        <3> QED
            BY <1>4, <1>5, <1>8, <1>9, <2>1, <3>1
    <2>2. ASSUME NEW n \in wire', NEW o \in wire', n.full, o.full, n.call = o.call
          PROVE  n = o
        BY <1>1, <1>3, <2>2 DEF WireInv
    <2> QED
        BY <2>1, <2>2 DEF WireInv
<1> QED
    BY <1>12, <1>13

LEMMA InvStep ==
    ASSUME Inv, [Next]_vars
    PROVE  Inv'
<1> USE DEF Calls
<1>1. CASE UNCHANGED vars
    BY <1>1 DEF vars, cacheVars, callVars, serverVars, Inv, TypeOK, CacheTypeOK, CallShape,
                FlightInv, Untouched, WireInv
<1>2. CASE Next
    <2>1. TypeOK' /\ \A d \in Calls : CallShape(d)'
        BY <1>2, TypeStep, ShapeStep
    <2>2. (\A d \in Calls : FlightInv(d))' /\ WireInv'
        <3>1. ASSUME NEW c \in Calls, Start(c) \/ (Proceed(c) /\ ~ Post(c))
              PROVE  (\A d \in Calls : FlightInv(d))' /\ WireInv'
            <4>1. UNCHANGED <<wire, execs>> /\ \A d \in Calls : FlightInv(d)'
                BY <3>1, ClientStepQuiet
            <4> QED
                BY <4>1 DEF Inv, WireInv
        <3>2. CASE Publish \/ \E s \in Servers : Adopt(s)
            <4>1. UNCHANGED <<wire, execs, pc, body, reply>>
                BY <3>2 DEF Publish, Adopt, callVars, serverVars
            <4> QED
                BY <4>1 DEF Inv, FlightInv, Untouched, WireInv
        <3> QED
            BY <1>2, <3>1, <3>2, PostFlight, ServeFlight DEF Next, Environment
    <2> QED
        BY <2>1, <2>2 DEF Inv
<1> QED
    BY <1>1, <1>2

LEMMA InvInit == Init => Inv
<1> SUFFICES ASSUME Init
             PROVE  Inv
    OBVIOUS
<1> USE CommandAssumption, RoutingAssumption DEF Calls
<1>1. TypeOK
    BY DEF Init, CacheInit, TypeOK, CacheTypeOK, FetchStates
<1>2. \A c \in Calls : CallShape(c)
    BY DEF Init, CacheInit, CallShape
<1>3. (\A c \in Calls : FlightInv(c)) /\ WireInv
    BY DEF Init, FlightInv, Untouched, WireInv
<1> QED
    BY <1>1, <1>2, <1>3 DEF Inv

LEMMA InvHolds == Spec => []Inv
BY InvInit, InvStep, PTL DEF Spec

-------------------------------------------------------------------------------

(* Every state of executeRouted, doJSON and the establishment cache is one of *)
(* the states the code can be in.                                             *)
THEOREM TypeCorrect == Spec => []TypeOK
<1>1. Inv => TypeOK
    BY DEF Inv
<1> QED
    BY <1>1, InvHolds, PTL

(* No bounce, timeout, retry or late answer makes the database execute the    *)
(* command of one call twice (executeRouted, doJSON).                         *)
THEOREM AtMostOnceCorrect == Spec => []AtMostOnce
<1>1. Inv => AtMostOnce
    BY DEF Inv, FlightInv, AtMostOnce
<1> QED
    BY <1>1, InvHolds, PTL
-------------------------------------------------------------------------------
(* The contract of a call.  Without transport retries every POST carries the  *)
(* command, so an answer tells what was executed; OutcomeInv is what it tells. *)

OutcomeInv(c) ==
    /\ pc[c] = "send" => body[c]
    /\ pc[c] = "wait" /\ reply[c] = "ok" => execs[c] = 1
    /\ pc[c] = "wait" /\ reply[c] = "refused" => Untouched(c)
    /\ pc[c] = "done" /\ result[c] = "ok" => execs[c] = 1
    /\ pc[c] = "done" /\ result[c] \in {"refused", "wrongMachine"} => Untouched(c)

FullInv == \A m \in wire : m.full

ContractInv == Inv /\ FullInv /\ \A c \in Calls : OutcomeInv(c)

LEMMA OutcomeClientStep ==
    ASSUME TrRetries = 0, ContractInv, NEW c \in Calls,
           Start(c) \/ (Proceed(c) /\ ~ Post(c)), NEW d \in Calls
    PROVE  OutcomeInv(d)'
<1> USE DEF Calls
<1>1. TypeOK /\ CallShape(c) /\ FlightInv(c) /\ OutcomeInv(c) /\ OutcomeInv(d)
    BY DEF ContractInv, Inv
<1>2. UNCHANGED <<wire, execs>>
    BY ClientStepQuiet DEF ContractInv
<1>3. Untouched(d)' = Untouched(d)
    BY <1>2 DEF Untouched
<1>4. ASSUME Resolve(c), pc[c] \in {"idle", "reread"}
      PROVE  OutcomeInv(d)'
    <2>1. PICK url : Hop(c, url) \/ NoRoute(c, url)
        BY <1>4 DEF Resolve
    <2>2. CASE Hop(c, url)
        BY <1>1, <1>2, <1>3, <2>2 DEF Hop, OutcomeInv, TypeOK
    <2>3. CASE NoRoute(c, url)
        BY <1>1, <1>2, <1>3, <2>3 DEF NoRoute, Return, OutcomeInv, TypeOK
    <2> QED
        BY <2>1, <2>2, <2>3
<1>5. ASSUME NEW kinds, Begin(c, kinds)
      PROVE  OutcomeInv(d)'
    <2>1. CASE Resolve(c)
        BY <1>4, <1>5, <2>1 DEF Begin
    <2>2. CASE /\ pc' = [pc EXCEPT ![c] = "establish"]
               /\ UNCHANGED <<cmd, base, attempt, try, body, reply, result>>
        BY <1>1, <1>2, <1>3, <2>2 DEF OutcomeInv, TypeOK
    <2> QED
        BY <1>5, <2>1, <2>2 DEF Begin
<1>6. CASE EstablishmentAnswers(c)
    BY <1>1, <1>2, <1>3, <1>6 DEF EstablishmentAnswers, callVars, OutcomeInv
<1>7. CASE Establish(c)
    BY <1>1, <1>2, <1>3, <1>7 DEF Establish, OutcomeInv, TypeOK
<1>8. CASE EstablishFails(c) \/ TokenFails(c) \/ Cancel(c)
    <2>1. /\ UNCHANGED <<body, reply>>
          /\ pc' = [pc EXCEPT ![c] = "done"]
          /\ result' = [result EXCEPT ![c] = "error"]
        BY <1>8 DEF EstablishFails, TokenFails, Cancel, Return
    <2> QED
        BY <1>1, <1>2, <1>3, <2>1 DEF OutcomeInv, TypeOK
<1>9. CASE Reroute(c)
    BY <1>4, <1>9 DEF Reroute
<1>10. CASE DialFails(c) \/ GiveUp(c) \/ ReceiveHTTPError(c)
    <2>1. try[c] = TrRetries
        BY <1>1 DEF TypeOK
    <2>2. /\ UNCHANGED <<body, reply>>
          /\ pc' = [pc EXCEPT ![c] = "done"]
          /\ result' = [result EXCEPT ![c] = "transport"]
        BY <1>10, <2>1 DEF DialFails, GiveUp, ReceiveHTTPError, TransportFails, Return
    <2> QED
        BY <1>1, <1>2, <1>3, <2>2 DEF OutcomeInv, TypeOK
<1>11. CASE ReceiveFinal(c)
    <2>1. /\ pc[c] = "wait"
          /\ UNCHANGED <<body, reply>>
          /\ pc' = [pc EXCEPT ![c] = "done"]
          /\ result' = [result EXCEPT ![c] = reply[c]]
        BY <1>11 DEF ReceiveFinal, Return
    <2>2. CASE d = c
        BY <1>1, <1>2, <1>3, <2>1, <2>2 DEF OutcomeInv, FlightInv, TypeOK
    <2>3. CASE d # c
        BY <1>1, <1>2, <1>3, <2>1, <2>3 DEF OutcomeInv, TypeOK
    <2> QED
        BY <2>2, <2>3
<1>12. CASE ReceiveBounce(c)
    BY <1>1, <1>2, <1>3, <1>12 DEF ReceiveBounce, OutcomeInv, TypeOK
<1>13. CASE Retry(c)
    BY <1>1, <1>13 DEF Retry, CallShape, TypeOK
<1> QED
    BY <1>5, <1>6, <1>7, <1>8, <1>9, <1>10, <1>11, <1>12, <1>13, StartIsBegin DEF Proceed

LEMMA OutcomePost ==
    ASSUME ContractInv, NEW c \in Calls, Post(c)
    PROVE  FullInv' /\ \A d \in Calls : OutcomeInv(d)'
<1> USE DEF Calls
<1> DEFINE m == [call |-> c, attempt |-> attempt[c], try |-> try[c],
                 to |-> Host[base[c]], full |-> body[c]]
<1>1. TypeOK /\ FullInv /\ \A d \in Calls : OutcomeInv(d)
    BY DEF ContractInv, Inv
<1>2. /\ pc[c] = "send"
      /\ wire' = wire \cup {m}
      /\ UNCHANGED <<execs, result>>
      /\ pc' = [pc EXCEPT ![c] = "wait"]
      /\ body' = [body EXCEPT ![c] = FALSE]
      /\ reply' = [reply EXCEPT ![c] = "none"]
    BY DEF Post
<1>3. m.call = c /\ m.full = body[c]
    OBVIOUS
<1> HIDE DEF m
<1>4. FullInv'
    BY <1>1, <1>2, <1>3 DEF FullInv, OutcomeInv
<1>5. ASSUME NEW d \in Calls
      PROVE  OutcomeInv(d)'
    <2>1. CASE d = c
        BY <1>1, <1>2, <2>1 DEF OutcomeInv, TypeOK
    <2>2. CASE d # c
        <3>1. Untouched(d) => Untouched(d)'
            BY <1>2, <1>3, <2>2 DEF Untouched
        <3> QED
            BY <1>1, <1>2, <2>2, <3>1 DEF OutcomeInv, TypeOK
    <2> QED
        BY <2>1, <2>2
<1> QED
    BY <1>4, <1>5

LEMMA OutcomeServe ==
    ASSUME ContractInv, NEW m \in wire, Serve(m)
    PROVE  FullInv' /\ \A d \in Calls : OutcomeInv(d)'
<1> USE DEF Calls
<1>1. TypeOK /\ FullInv /\ WireInv /\ \A d \in Calls : OutcomeInv(d)
    BY DEF ContractInv, Inv
<1>2. m.call \in Calls /\ m.full /\ execs[m.call] = 0
    BY <1>1 DEF TypeOK, Message, FullInv, WireInv
<1>3. wire' = wire \ {m} /\ UNCHANGED <<pc, body, result>>
    BY DEF Serve
<1>4. PICK executed \in BOOLEAN, r \in Replies :
        /\ <<executed, r>> \in Servings(m)
        /\ execs' = IF executed THEN [execs EXCEPT ![m.call] = @ + 1] ELSE execs
        /\ reply' = [reply EXCEPT ![m.call] = r] \/ reply' = reply
    BY DEF Serve
<1>5. /\ r = "ok" => executed
      /\ r \in {"refused", "wrongMachine"} => ~ executed
    BY <1>2, <1>4 DEF Servings
<1>6. /\ executed => execs'[m.call] = 1
      /\ ~ executed => execs'[m.call] = 0
      /\ \A d \in Calls : d # m.call => execs'[d] = execs[d] /\ reply'[d] = reply[d]
    BY <1>1, <1>2, <1>4 DEF TypeOK
<1>7. ~ Untouched(m.call)
    BY <1>2 DEF Untouched
<1>8. ~ executed => Untouched(m.call)'
    <2>1. \A n \in wire' : n.call # m.call
        BY <1>1, <1>3 DEF WireInv, FullInv
    <2> QED
        BY <1>6, <2>1 DEF Untouched
<1>9. FullInv'
    BY <1>1, <1>3 DEF FullInv
<1>10. ASSUME NEW d \in Calls
       PROVE  OutcomeInv(d)'
    <2>1. CASE d # m.call
        <3>1. Untouched(d) => Untouched(d)'
            BY <1>3, <1>6, <2>1 DEF Untouched
        <3> QED
            BY <1>1, <1>3, <1>6, <2>1, <3>1 DEF OutcomeInv
    <2>2. CASE d = m.call
        <3>1. pc[d] = "wait" => reply[d] \notin {"ok", "refused"}
            BY <1>1, <1>2, <1>7, <2>2 DEF OutcomeInv
        <3>2. pc[d] = "done" => result[d] \notin {"ok", "refused", "wrongMachine"}
            BY <1>1, <1>2, <1>7, <2>2 DEF OutcomeInv
        <3>3. reply'[d] = r \/ reply'[d] = reply[d]
            BY <1>1, <1>4, <2>2 DEF TypeOK
        <3>4. reply'[d] = "ok" /\ pc[d] = "wait" => execs'[d] = 1
            BY <1>5, <1>6, <2>2, <3>1, <3>3
        <3>5. reply'[d] = "refused" /\ pc[d] = "wait" => Untouched(d)'
            BY <1>5, <1>8, <2>2, <3>1, <3>3
        <3> QED
            BY <1>1, <1>3, <3>2, <3>4, <3>5 DEF OutcomeInv
    <2> QED
        BY <2>1, <2>2
<1> QED
    BY <1>9, <1>10

LEMMA ContractInvStep ==
    ASSUME TrRetries = 0, ContractInv, [Next]_vars
    PROVE  ContractInv'
<1>1. Inv'
    BY InvStep DEF ContractInv
<1>2. CASE UNCHANGED vars
    BY <1>1, <1>2 DEF vars, callVars, serverVars, ContractInv, FullInv, OutcomeInv, Untouched
<1>3. CASE Next
    <2>1. ASSUME NEW c \in Calls, Start(c) \/ (Proceed(c) /\ ~ Post(c))
          PROVE  FullInv' /\ \A d \in Calls : OutcomeInv(d)'
        <3>1. ASSUME NEW d \in Calls
              PROVE  OutcomeInv(d)' /\ UNCHANGED wire
            BY <2>1, OutcomeClientStep, ClientStepQuiet DEF ContractInv
        <3> QED
            BY <2>1, <3>1 DEF ContractInv, FullInv
    <2>2. CASE Publish \/ \E s \in Servers : Adopt(s)
        <3>1. UNCHANGED <<wire, execs, pc, body, reply, result>>
            BY <2>2 DEF Publish, Adopt, callVars, serverVars
        <3>2. ASSUME NEW d \in Calls
              PROVE  OutcomeInv(d)'
            BY <3>1 DEF ContractInv, OutcomeInv, Untouched
        <3>3. FullInv'
            BY <3>1 DEF ContractInv, FullInv
        <3> QED
            BY <1>1, <3>2, <3>3 DEF ContractInv
    <2> QED
        BY <1>1, <1>3, <2>1, <2>2, OutcomePost, OutcomeServe DEF Next, Environment, ContractInv
<1> QED
    BY <1>2, <1>3

(* What the contract sees of a step of the client: one call moves, from a       *)
(* state before its return, and a call that starts only fails with an error.   *)
LEMMA ClientStepLocal ==
    ASSUME TypeOK, NEW c \in Calls, Start(c) \/ Proceed(c)
    PROVE  \/ UNCHANGED <<pc, result>>
           \/ /\ pc[c] # "done" /\ pc'[c] # "idle"
              /\ \A d \in Calls : d # c => pc'[d] = pc[d] /\ result'[d] = result[d]
              /\ pc[c] = "idle" /\ pc'[c] = "done" => result'[c] = "error"
<1> USE DEF Calls
<1>1. ASSUME Resolve(c), pc[c] \in {"idle", "reread"}
      PROVE  /\ pc'[c] \in {"send", "done"} /\ (pc'[c] = "done" => result'[c] = "error")
             /\ \A d \in Calls : d # c => pc'[d] = pc[d] /\ result'[d] = result[d]
    <2>1. PICK url : Hop(c, url) \/ NoRoute(c, url)
        BY <1>1 DEF Resolve
    <2>2. CASE Hop(c, url)
        BY <2>2 DEF Hop, TypeOK
    <2>3. CASE NoRoute(c, url)
        BY <2>3 DEF NoRoute, Return, TypeOK
    <2> QED
        BY <2>1, <2>2, <2>3
<1>2. ASSUME NEW kinds, Begin(c, kinds)
      PROVE  /\ pc[c] = "idle" /\ pc'[c] # "idle"
             /\ pc'[c] = "done" => result'[c] = "error"
             /\ \A d \in Calls : d # c => pc'[d] = pc[d] /\ result'[d] = result[d]
    <2>1. CASE Resolve(c)
        BY <1>1, <1>2, <2>1 DEF Begin
    <2>2. CASE UNCHANGED result /\ pc' = [pc EXCEPT ![c] = "establish"]
        BY <1>2, <2>2 DEF Begin, TypeOK
    <2> QED
        BY <1>2, <2>1, <2>2 DEF Begin
<1>3. CASE EstablishmentAnswers(c)
    BY <1>3 DEF EstablishmentAnswers, callVars
<1>4. CASE Establish(c) \/ Post(c) \/ ReceiveBounce(c) \/ Retry(c)
    <2>1. PICK next \in {"reread", "wait", "establish", "send"} :
                pc' = [pc EXCEPT ![c] = next] /\ UNCHANGED result
        BY <1>4 DEF Establish, Post, ReceiveBounce, Retry
    <2>2. pc[c] \in {"establish", "send", "wait", "backoff"}
        BY <1>4 DEF Establish, Post, ReceiveBounce, Retry
    <2> QED
        BY <2>1, <2>2 DEF TypeOK
<1>5. CASE Reroute(c)
    BY <1>1, <1>5 DEF Reroute
<1>6. CASE EstablishFails(c) \/ TokenFails(c) \/ Cancel(c) \/ ReceiveFinal(c)
    <2>1. PICK r : Return(c, r)
        BY <1>6 DEF EstablishFails, TokenFails, Cancel, ReceiveFinal
    <2>2. pc[c] \in {"establish", "send", "backoff", "wait"}
        BY <1>6 DEF EstablishFails, TokenFails, Cancel, ReceiveFinal
    <2> QED
        BY <2>1, <2>2 DEF Return, TypeOK
<1>7. CASE DialFails(c) \/ GiveUp(c) \/ ReceiveHTTPError(c)
    <2>1. TransportFails(c) /\ pc[c] \in {"send", "wait"}
        BY <1>7 DEF DialFails, GiveUp, ReceiveHTTPError
    <2>2. CASE Return(c, "transport")
        BY <2>1, <2>2 DEF Return, TypeOK
    <2>3. CASE UNCHANGED result /\ pc' = [pc EXCEPT ![c] = "backoff"]
        BY <2>1, <2>3 DEF TypeOK
    <2> QED
        BY <2>1, <2>2, <2>3 DEF TransportFails
<1> QED
    BY <1>2, <1>3, <1>4, <1>5, <1>6, <1>7, StartIsBegin DEF Proceed

(* Every step of the client and the servers is a step of the contract, or     *)
(* changes nothing a caller or the database can tell.                         *)
LEMMA StepRefines ==
    ASSUME TrRetries = 0, ContractInv, ContractInv', [Next]_vars
    PROVE  [Contract!Next]_<<[c \in Calls |-> IF pc[c] = "idle" THEN "idle"
                                ELSE IF pc[c] = "done" THEN result[c] ELSE "pending"],
                             {c \in Calls : execs[c] > 0}>>
<1> DEFINE out == [c \in Calls |-> IF pc[c] = "idle" THEN "idle"
                                   ELSE IF pc[c] = "done" THEN result[c] ELSE "pending"]
           done == {c \in Calls : execs[c] > 0}
<1> SUFFICES ASSUME ~ (out' = out /\ done' = done)
             PROVE  Contract!Next
    OBVIOUS
<1> USE DEF Calls
<1>1. TypeOK /\ \A c \in Calls : CallShape(c) /\ FlightInv(c) /\ OutcomeInv(c)
    BY DEF ContractInv, Inv
<1>2. TypeOK' /\ \A c \in Calls : (CallShape(c) /\ OutcomeInv(c))'
    BY DEF ContractInv, Inv
<1>3. ~ UNCHANGED vars
    BY DEF vars, callVars, serverVars
<1>4. ASSUME NEW c \in Calls, UNCHANGED execs, \A d \in Calls : d # c => out'[d] = out[d]
      PROVE  out' = [out EXCEPT ![c] = out'[c]] /\ done' = done
    BY <1>4
<1>5. ASSUME NEW c \in Calls, pc[c] = "idle", UNCHANGED execs, out'[c] \in {"pending", "error"},
             \A d \in Calls : d # c => out'[d] = out[d]
      PROVE  Contract!Next
    BY <1>4, <1>5 DEF Contract!Next, Contract!Call, Contract!Reject
<1>6. ASSUME NEW c \in Calls, pc[c] \notin {"idle", "done"}, UNCHANGED execs,
             out'[c] \in Results,
             out'[c] = "ok" => execs[c] = 1,
             out'[c] \in {"refused", "wrongMachine"} => execs[c] = 0,
             \A d \in Calls : d # c => out'[d] = out[d]
      PROVE  Contract!Next
    <2>1. PICK o \in Results : o = out'[c]
        BY <1>6
    <2>2. out[c] = "pending" /\ out' = [out EXCEPT ![c] = o] /\ done' = done
        BY <1>4, <1>6, <2>1
    <2>3. /\ o = "ok" => c \in done
          /\ o \in Contract!Refusals => c \notin done
        BY <1>6, <2>1 DEF Contract!Refusals
    <2>4. Contract!Return(c, o)
        BY <2>2, <2>3 DEF Contract!Return
    <2>5. o \in Contract!Outcomes
        BY DEF Results, Contract!Outcomes, Contract!Refusals, Contract!Unknowns
    <2> QED
        BY <2>4, <2>5 DEF Contract!Next
<1>7. ASSUME NEW c \in Calls, Start(c) \/ Proceed(c), ~ UNCHANGED <<pc, result>>
      PROVE  Contract!Next
    <2>1. UNCHANGED execs
        BY <1>7, ClientStepQuiet DEF ContractInv, Post
    <2>2. /\ pc[c] # "done" /\ pc'[c] # "idle"
          /\ \A d \in Calls : d # c => out'[d] = out[d]
          /\ pc[c] = "idle" /\ pc'[c] = "done" => result'[c] = "error"
        BY <1>1, <1>7, ClientStepLocal
    <2>3. CASE pc[c] = "idle"
        BY <1>5, <2>1, <2>2, <2>3
    <2>4. CASE pc[c] # "idle" /\ pc'[c] = "done"
        <3>1. out'[c] \in Results /\ out'[c] = result'[c]
            BY <1>2, <2>4 DEF CallShape
        <3>2. /\ out'[c] = "ok" => execs[c] = 1
              /\ out'[c] \in {"refused", "wrongMachine"} => execs[c] = 0
            BY <1>2, <2>1, <2>4, <3>1 DEF OutcomeInv, Untouched
        <3> QED
            BY <1>6, <2>1, <2>2, <2>4, <3>1, <3>2
    <2>5. CASE pc[c] # "idle" /\ pc'[c] # "done"
        <3>1. out'[c] = out[c]
            BY <2>2, <2>5
        <3> QED
            BY <2>1, <2>2, <3>1
    <2> QED
        BY <2>3, <2>4, <2>5
<1>8. ASSUME NEW m \in wire, Serve(m)
      PROVE  Contract!Next
    <2>1. /\ m.call \in Calls /\ m.full /\ execs[m.call] = 0
        BY DEF ContractInv, Inv, TypeOK, Message, FullInv, WireInv
    <2>2. out' = out
        BY <1>8 DEF Serve
    <2>3. execs' = execs \/ execs' = [execs EXCEPT ![m.call] = @ + 1]
        BY <1>8 DEF Serve
    <2>4. done' = done \cup {m.call}
        BY <1>1, <2>1, <2>2, <2>3 DEF TypeOK
    <2>5. ~ Untouched(m.call)
        BY <2>1 DEF Untouched
    <2>6. out[m.call] \in {"pending"} \cup Contract!Unknowns
        BY <1>1, <2>1, <2>5
           DEF FlightInv, OutcomeInv, CallShape, Results, Contract!Unknowns
    <2>7. Contract!Execute(m.call)
        BY <2>1, <2>2, <2>4, <2>6 DEF Contract!Execute
    <2> QED
        BY <2>1, <2>7 DEF Contract!Next
<1>9. CASE Publish \/ \E s \in Servers : Adopt(s)
    BY <1>9 DEF Publish, Adopt, callVars, serverVars
<1>10. ASSUME NEW c \in Calls, Start(c) \/ Proceed(c), UNCHANGED <<pc, result>>
       PROVE  FALSE
    BY <1>10, ClientStepQuiet DEF ContractInv, Post
<1> QED
    BY <1>3, <1>7, <1>8, <1>9, <1>10 DEF Next, Environment

(* Without transport retries, executeRouted keeps the contract of a call: a   *)
(* success was executed, and a refusal never is.  (AtMostOnceCorrect says      *)
(* that no command is executed twice.)                                        *)
THEOREM ContractImplemented ==
    ASSUME TrRetries = 0
    PROVE  Spec => ImplementsContract
<1>1. Init => ContractInv
    <2>1. Init => Inv
        BY InvInit
    <2>2. Init => FullInv /\ \A c \in Calls : OutcomeInv(c)
        BY DEF Init, FullInv, OutcomeInv, Calls
    <2> QED
        BY <2>1, <2>2 DEF ContractInv
<1>2. ContractInv /\ [Next]_vars => ContractInv'
    BY ContractInvStep
<1>3. Init => Contract!Init
    BY DEF Init, Contract!Init, Calls
<1>4. ContractInv /\ ContractInv' /\ [Next]_vars =>
        [Contract!Next]_<<[c \in Calls |-> IF pc[c] = "idle" THEN "idle"
                             ELSE IF pc[c] = "done" THEN result[c] ELSE "pending"],
                          {c \in Calls : execs[c] > 0}>>
    BY StepRefines
<1> QED
    BY <1>1, <1>2, <1>3, <1>4, PTL DEF Spec, ImplementsContract, Contract!Spec
-------------------------------------------------------------------------------
(* Routes do not depend on the order in which Go walks a shard map. *)

LEMMA OneAssignment ==
    ASSUME NEW est, WellFormed(est), NEW slot \in Slots,
           NEW a \in AssignmentsFor(est, slot), NEW b \in AssignmentsFor(est, slot)
    PROVE  a = b
<1>1. PICK k \in DOMAIN est.shardMap : Contains(ParseRange(k), slot) /\ a = est.shardMap[k]
    BY DEF AssignmentsFor
<1>2. PICK l \in DOMAIN est.shardMap : Contains(ParseRange(l), slot) /\ b = est.shardMap[l]
    BY DEF AssignmentsFor
<1>3. Partition(DOMAIN est.shardMap)
    BY <1>1 DEF WellFormed
<1>4. PICK raw \in DOMAIN est.shardMap :
        \A other \in DOMAIN est.shardMap : Contains(ParseRange(other), slot) => other = raw
    BY <1>3 DEF Partition
<1>5. k = l
    BY <1>1, <1>2, <1>4
<1> QED
    BY <1>1, <1>2, <1>5

LEMMA OneRoute ==
    ASSUME NEW est, WellFormed(est), NEW command \in Command,
           NEW u \in Routes(est, command), NEW v \in Routes(est, command)
    PROVE  u = v
<1>1. command.slot \in Slots
    BY DEF Command
<1>2. \A a, b \in AssignmentsFor(est, command.slot) : a = b
    BY <1>1, OneAssignment
<1>3. \A x, y \in RouteWrite(est, command.slot) : x = y
    BY <1>2 DEF RouteWrite
<1>4. \A x, y \in RouteRead(est, command.slot) : x = y
    BY <1>2 DEF RouteRead
<1>5. \A x, y \in RouteSearch(est, command.slot) : x = y
    BY <1>2 DEF RouteSearch
<1>6. command.kind \in Kinds
    BY DEF Command
<1> QED
    BY <1>3, <1>4, <1>5, <1>6 DEF Routes, Kinds

CachedInv == cache # 0 => WellFormed(Docs[cache])

LEMMA CachedStep ==
    ASSUME CachedInv, [Next]_vars
    PROVE  CachedInv'
<1>1. ASSUME UNCHANGED cache
      PROVE  CachedInv'
    BY <1>1 DEF CachedInv
<1>2. ASSUME NEW c \in Calls, Establish(c)
      PROVE  CachedInv'
    BY <1>2 DEF Establish, Store, CachedInv
<1>3. ASSUME NEW c \in Calls, Start(c) \/ (Proceed(c) /\ ~ Establish(c))
      PROVE  UNCHANGED cache
    <2>1. ASSUME NEW kinds, Begin(c, kinds)
          PROVE  UNCHANGED cache
        BY <2>1 DEF Begin, Ask, cacheVars
    <2> QED
        BY <1>3, <2>1, StartIsBegin
           DEF Proceed, EstablishmentAnswers, Served, FetchFails, EstablishFails, Discard,
               Reroute, TokenFails, DialFails, Post, GiveUp, ReceiveHTTPError, ReceiveFinal,
               ReceiveBounce, Ask, Retry, Cancel, cacheVars
<1>4. Environment => UNCHANGED cache
    BY DEF Environment, Serve, Publish, Adopt, cacheVars
<1> QED
    BY <1>1, <1>2, <1>3, <1>4 DEF Next, vars, cacheVars

(* Only validated documents are cached, so the random order in which           *)
(* AssignmentForSlot walks the shard map never decides where a command goes.   *)
THEOREM RoutesDeterministicCorrect == Spec => []RoutesDeterministic
<1>1. Init => CachedInv
    BY DEF Init, CacheInit, CachedInv
<1>2. CachedInv /\ [Next]_vars => CachedInv'
    BY CachedStep
<1>3. CachedInv => RoutesDeterministic
    BY CommandAssumption, OneRoute DEF CachedInv, RoutesDeterministic
<1> QED
    BY <1>1, <1>2, <1>3, PTL DEF Spec
-------------------------------------------------------------------------------
(* Once the topology has settled, a call is bounced only while its route comes *)
(* from an older document, and after its own refresh only a call that still    *)
(* holds one of those can put one back in the cache, once.  So each hop but    *)
(* the first uses up one of them, and there are at most as many as other calls. *)

Settled == live = MaxVersion /\ \A s \in Servers : adopted[s] = MaxVersion

\* The other calls that have been given an older document and may yet cache it.
Holders(c) == {d \in Calls \ {c} : fetch[d] = "got" /\ fetched[d] # MaxVersion}

\* The hops of c so far, and those that older documents may still cost it.
Stale(c) == attempt[c] + Cardinality(Holders(c))

LastRoute(c) == base[c] \in Routes(Docs[MaxVersion], cmd[c])

Routable(c) == cmd[c].kind # "unkeyedSearch" /\ Reachable(cmd[c])

StaleInv(c) ==
    /\ pc[c] \in {"send", "wait", "backoff"} => LastRoute(c) \/ Stale(c) <= Cardinality(Calls)
    /\ pc[c] \in {"establish", "reread"} => Stale(c) <= Cardinality(Calls)
    /\ pc[c] = "reread" => cache = MaxVersion \/ Stale(c) < Cardinality(Calls)
    /\ pc[c] = "wait" /\ reply[c] = "wrongMachine" => ~ LastRoute(c)
    /\ result[c] = "wrongMachine" => WmRetries < Cardinality(Calls)

CalmInv(c) ==
    /\ Settled
    /\ pc[c] # "idle"
    /\ fetch[c] = "got" => fetched[c] = MaxVersion
    /\ Routable(c) => StaleInv(c)

\* A call fetches while it establishes and only then, and has a result at its end.
RestInv(c) ==
    /\ fetch[c] # "none" => pc[c] = "establish"
    /\ pc[c] = "idle" => result[c] = "none"

\* The POSTs of one hop go to one server.
TargetInv ==
    \A m \in wire :
        /\ m.attempt <= attempt[m.call]
        /\ m.attempt = attempt[m.call] => m.to = Host[base[m.call]]

SettledInv ==
    /\ Inv
    /\ \A c \in Calls : RestInv(c)
    /\ TargetInv
    /\ \A c \in calm : CalmInv(c)

(* A set that loses members, or one of them, and the size of it. *)
LEMMA Fewer ==
    ASSUME NEW S, IsFiniteSet(S), NEW T \in SUBSET S
    PROVE  /\ Cardinality(S) \in Nat /\ Cardinality(T) \in Nat
           /\ Cardinality(T) <= Cardinality(S)
           /\ T # S => Cardinality(T) < Cardinality(S)
<1>1. IsFiniteSet(T) /\ Cardinality(T) <= Cardinality(S)
    BY FS_Subset
<1>2. Cardinality(S) \in Nat /\ Cardinality(T) \in Nat
    BY <1>1, FS_CardinalityType
<1>3. T # S => Cardinality(T) # Cardinality(S)
    BY FS_Subset
<1> QED
    BY <1>1, <1>2, <1>3

(* What a step of another call, a server or the wire may do to a call that     *)
(* began when the topology had settled.                                        *)
LEMMA CalmKept ==
    ASSUME IsFiniteSet(Calls), TypeOK, NEW c \in Calls, CalmInv(c),
           live' = live, adopted' = adopted,
           pc'[c] = pc[c], cmd'[c] = cmd[c], base'[c] = base[c], attempt'[c] = attempt[c],
           result'[c] = result[c], fetch'[c] = fetch[c], fetched'[c] = fetched[c],
           reply'[c] = reply[c] \/ (Routable(c) /\ reply'[c] = "wrongMachine" => ~ LastRoute(c)),
           Holders(c)' \subseteq Holders(c),
           cache' \in {cache, MaxVersion} \/ Holders(c)' # Holders(c)
    PROVE  CalmInv(c)'
<1>1. /\ Cardinality(Holders(c)) \in Nat /\ Cardinality(Holders(c)') \in Nat
      /\ Cardinality(Holders(c)') <= Cardinality(Holders(c))
      /\ Holders(c)' # Holders(c) => Cardinality(Holders(c)') < Cardinality(Holders(c))
    <2>1. Holders(c) \subseteq Calls
        BY DEF Holders
    <2>2. IsFiniteSet(Holders(c))
        BY <2>1, FS_Subset
    <2> QED
        BY <2>2, Fewer
<1>2. Cardinality(Calls) \in Nat /\ attempt[c] \in Nat
    BY CommandAssumption, FS_CardinalityType DEF TypeOK
<1>3. Routable(c)' = Routable(c) /\ LastRoute(c)' = LastRoute(c)
    BY DEF Routable, LastRoute
<1>4. Settled' /\ pc'[c] # "idle" /\ (fetch'[c] = "got" => fetched'[c] = MaxVersion)
    BY DEF CalmInv, Settled
<1>5. ASSUME Routable(c)
      PROVE  StaleInv(c)'
    <2>1. StaleInv(c)
        BY <1>5 DEF CalmInv
    <2>2. Stale(c)' \in Nat /\ Stale(c) \in Nat /\ Stale(c)' <= Stale(c)
          /\ (Holders(c)' # Holders(c) => Stale(c)' < Stale(c))
        BY <1>1, <1>2 DEF Stale
    <2>3. /\ pc'[c] \in {"send", "wait", "backoff"} =>
                LastRoute(c)' \/ Stale(c)' <= Cardinality(Calls)
          /\ pc'[c] \in {"establish", "reread"} => Stale(c)' <= Cardinality(Calls)
        BY <1>2, <1>3, <2>1, <2>2 DEF StaleInv
    <2>4. pc'[c] = "reread" => cache' = MaxVersion \/ Stale(c)' < Cardinality(Calls)
        BY <1>2, <2>1, <2>2 DEF StaleInv
    <2>5. pc'[c] = "wait" /\ reply'[c] = "wrongMachine" => ~ LastRoute(c)'
        BY <1>3, <1>5, <2>1 DEF StaleInv
    <2>6. result'[c] = "wrongMachine" => WmRetries < Cardinality(Calls)
        BY <2>1 DEF StaleInv
    <2> QED
        BY <2>3, <2>4, <2>5, <2>6 DEF StaleInv
<1> QED
    BY <1>3, <1>4, <1>5 DEF CalmInv

(* The number of documents other calls may still put in the cache. *)
LEMMA HoldersSize ==
    ASSUME IsFiniteSet(Calls), NEW c \in Calls
    PROVE  /\ Cardinality(Calls) \in Nat
           /\ Cardinality(Holders(c)) \in Nat
           /\ Cardinality(Holders(c)) + 1 <= Cardinality(Calls)
<1>1. Holders(c) \in SUBSET (Calls \ {c})
    BY DEF Holders
<1>2. IsFiniteSet(Calls \ {c}) /\ Cardinality(Calls \ {c}) = Cardinality(Calls) - 1
    BY FS_RemoveElement
<1>3. Cardinality(Holders(c)) <= Cardinality(Calls \ {c}) /\ Cardinality(Holders(c)) \in Nat
    BY <1>1, <1>2, Fewer
<1>4. Cardinality(Calls) \in Nat
    BY FS_CardinalityType
<1> QED
    BY <1>2, <1>3, <1>4

(* A step of a call touches no other call; through the cache it hands over a   *)
(* document that its fetch was given, once.                                    *)
LEMMA CallLocal ==
    ASSUME TypeOK, NEW d \in Calls, Start(d) \/ Proceed(d)
    PROVE  /\ live' = live /\ adopted' = adopted
           /\ \A c \in Calls : c # d =>
                /\ pc'[c] = pc[c] /\ cmd'[c] = cmd[c] /\ base'[c] = base[c]
                /\ attempt'[c] = attempt[c] /\ reply'[c] = reply[c] /\ result'[c] = result[c]
                /\ fetch'[c] = fetch[c] /\ fetched'[c] = fetched[c]
           /\ \/ cache' = cache
              \/ fetch[d] = "got" /\ cache' = fetched[d] /\ fetch'[d] = "none"
           /\ fetch'[d] = "got" => \/ fetch[d] = "got" /\ fetched'[d] = fetched[d]
                                   \/ fetched'[d] = live
           /\ cmd' = cmd
<1> USE DEF Calls
<1>1. ASSUME Resolve(d)
      PROVE  /\ \A c \in Calls : c # d =>
                    /\ pc'[c] = pc[c] /\ cmd'[c] = cmd[c] /\ base'[c] = base[c]
                    /\ attempt'[c] = attempt[c] /\ reply'[c] = reply[c] /\ result'[c] = result[c]
             /\ cmd' = cmd
    <2>1. PICK url : Hop(d, url) \/ NoRoute(d, url)
        BY <1>1 DEF Resolve
    <2>2. CASE Hop(d, url)
        BY <2>2 DEF Hop, TypeOK
    <2>3. CASE NoRoute(d, url)
        BY <2>3 DEF NoRoute, Return, TypeOK
    <2> QED
        BY <2>1, <2>2, <2>3
<1>2. ASSUME NEW kinds, Begin(d, kinds)
      PROVE  /\ live' = live /\ adopted' = adopted /\ cache' = cache
             /\ fetched' = fetched
             /\ fetch'[d] # "got" \/ fetch' = fetch
             /\ cmd' = cmd
             /\ \A c \in Calls : c # d =>
                    /\ pc'[c] = pc[c] /\ cmd'[c] = cmd[c] /\ base'[c] = base[c]
                    /\ attempt'[c] = attempt[c] /\ reply'[c] = reply[c] /\ result'[c] = result[c]
                    /\ fetch'[c] = fetch[c] /\ fetched'[c] = fetched[c]
    <2>1. CASE Resolve(d) /\ UNCHANGED cacheVars
        BY <1>1, <1>2, <2>1 DEF Begin, cacheVars, serverVars
    <2>2. CASE /\ pc' = [pc EXCEPT ![d] = "establish"]
               /\ Ask(d)
               /\ UNCHANGED <<cmd, base, attempt, try, body, reply, result>>
        BY <1>2, <2>2 DEF Begin, Ask, serverVars, TypeOK, CacheTypeOK
    <2> QED
        BY <1>2, <2>1, <2>2 DEF Begin
<1>3. CASE EstablishmentAnswers(d)
    BY <1>3 DEF EstablishmentAnswers, Served, FetchFails, callVars, serverVars, TypeOK, CacheTypeOK
<1>4. CASE Establish(d)
    BY <1>4 DEF Establish, Store, serverVars, TypeOK, CacheTypeOK
<1>5. CASE EstablishFails(d)
    BY <1>5 DEF EstablishFails, Discard, Return, serverVars, TypeOK, CacheTypeOK
<1>6. CASE Reroute(d)
    BY <1>1, <1>6 DEF Reroute, cacheVars, serverVars
<1>7. CASE TokenFails(d) \/ Cancel(d) \/ ReceiveFinal(d)
    BY <1>7 DEF TokenFails, Cancel, ReceiveFinal, Return, cacheVars, serverVars, TypeOK
<1>8. CASE DialFails(d) \/ GiveUp(d) \/ ReceiveHTTPError(d)
    BY <1>8 DEF DialFails, GiveUp, ReceiveHTTPError, TransportFails, Return, cacheVars,
                serverVars, TypeOK
<1>9. CASE Post(d)
    BY <1>9 DEF Post, cacheVars, TypeOK
<1>10. CASE ReceiveBounce(d)
    BY <1>10 DEF ReceiveBounce, Ask, serverVars, TypeOK, CacheTypeOK
<1>11. CASE Retry(d)
    BY <1>11 DEF Retry, cacheVars, serverVars, TypeOK
<1> QED
    BY <1>2, <1>3, <1>4, <1>5, <1>6, <1>7, <1>8, <1>9, <1>10, <1>11, StartIsBegin DEF Proceed

LEMMA OtherCallCalm ==
    ASSUME IsFiniteSet(Calls), TypeOK, NEW c \in Calls, CalmInv(c),
           NEW d \in Calls, d # c, Start(d) \/ Proceed(d)
    PROVE  CalmInv(c)'
<1>1. live = MaxVersion
    BY DEF CalmInv, Settled
<1>2. Holders(c)' \subseteq Holders(c)
    BY <1>1, CallLocal DEF Holders
<1>3. cache' \in {cache, MaxVersion} \/ Holders(c)' # Holders(c)
    <2>1. ASSUME fetch[d] = "got", fetched[d] # MaxVersion, fetch'[d] = "none"
          PROVE  Holders(c)' # Holders(c)
        <3>1. d \in Holders(c) /\ d \notin Holders(c)'
            BY <2>1 DEF Holders
        <3> QED
            BY <3>1
    <2> QED
        BY <2>1, CallLocal
<1> QED
    BY <1>2, <1>3, CallLocal, CalmKept

(* A new route is right for the last document, or uses up one that is older. *)
LEMMA HopCalm ==
    ASSUME IsFiniteSet(Calls), TypeOK, NEW c \in Calls, Resolve(c),
           Holders(c)' = Holders(c), Settled', Stale(c) <= Cardinality(Calls),
           cache = MaxVersion \/ Stale(c) < Cardinality(Calls),
           fetch'[c] = "none", result[c] = "wrongMachine" => WmRetries < Cardinality(Calls)
    PROVE  CalmInv(c)'
<1> USE DEF Calls
<1>1. PICK url \in Routes(Docs[cache], cmd[c]) : Hop(c, url) \/ NoRoute(c, url)
    BY DEF Resolve
<1>2. CASE Hop(c, url)
    <2>1. /\ pc'[c] = "send" /\ base'[c] = url /\ attempt'[c] = attempt[c] + 1
          /\ cmd' = cmd /\ result' = result
        BY <1>2 DEF Hop, TypeOK
    <2>2. Cardinality(Calls) \in Nat /\ Cardinality(Holders(c)) \in Nat /\ attempt[c] \in Nat
        BY CommandAssumption, HoldersSize DEF TypeOK
    <2>3. LastRoute(c)' \/ Stale(c)' <= Cardinality(Calls)
        <3>1. CASE cache = MaxVersion
            BY <1>1, <2>1, <3>1 DEF LastRoute
        <3>2. CASE Stale(c) < Cardinality(Calls)
            BY <2>1, <2>2, <3>2 DEF Stale
        <3> QED
            BY <3>1, <3>2
    <2>4. StaleInv(c)'
        BY <2>1, <2>3 DEF StaleInv
    <2> QED
        BY <2>1, <2>4 DEF CalmInv
<1>3. CASE NoRoute(c, url)
    <2>1. pc'[c] = "done" /\ result'[c] = "error"
        BY <1>3 DEF NoRoute, Return, TypeOK
    <2> QED
        BY <2>1 DEF CalmInv, StaleInv
<1> QED
    BY <1>1, <1>2, <1>3

LEMMA BeginCalm ==
    ASSUME IsFiniteSet(Calls), TypeOK, NEW c \in Calls, CallShape(c), RestInv(c),
           NEW kinds, Begin(c, kinds), c \in calm', c \notin calm,
           Holders(c)' = Holders(c)
    PROVE  CalmInv(c)'
<1> USE DEF Calls
<1>1. live = MaxVersion /\ \A s \in Servers : adopted[s] = live
    BY DEF Begin
<1>2. /\ pc[c] = "idle" /\ attempt[c] = 0 /\ result[c] = "none" /\ fetch[c] = "none"
    BY DEF Begin, CallShape, RestInv
<1>3. Stale(c) < Cardinality(Calls) /\ Stale(c) <= Cardinality(Calls)
    BY <1>2, HoldersSize DEF Stale
<1>4. live' = live /\ adopted' = adopted
    BY DEF Begin, Ask, cacheVars, serverVars
<1>5. Settled'
    BY <1>1, <1>4 DEF Settled
<1>6. CASE Resolve(c) /\ UNCHANGED cacheVars
    BY <1>2, <1>3, <1>5, <1>6, HopCalm DEF cacheVars
<1>7. CASE /\ pc' = [pc EXCEPT ![c] = "establish"]
           /\ Ask(c)
           /\ UNCHANGED <<cmd, base, attempt, try, body, reply, result>>
    <2>1. /\ pc'[c] = "establish" /\ attempt'[c] = attempt[c] /\ result'[c] = "none"
          /\ fetch'[c] = "asked"
        BY <1>2, <1>7 DEF Ask, TypeOK, CacheTypeOK
    <2>2. Stale(c)' = Stale(c)
        BY <2>1 DEF Stale
    <2> QED
        BY <1>3, <1>5, <2>1, <2>2 DEF CalmInv, StaleInv
<1> QED
    BY <1>6, <1>7 DEF Begin

LEMMA ProceedCalm ==
    ASSUME IsFiniteSet(Calls), TypeOK, NEW c \in Calls, CallShape(c), RestInv(c), CalmInv(c),
           Proceed(c), Holders(c)' = Holders(c), live' = live, adopted' = adopted
    PROVE  CalmInv(c)'
<1> USE DEF Calls
<1>1. Settled'
    BY DEF CalmInv, Settled
<1>2. Cardinality(Calls) \in Nat /\ Cardinality(Holders(c)) \in Nat /\ attempt[c] \in Nat
    BY CommandAssumption, HoldersSize DEF TypeOK
<1>3. attempt'[c] = attempt[c] => Stale(c)' = Stale(c)
    BY DEF Stale
<1>4. cmd' = cmd => Routable(c)' = Routable(c)
    BY DEF Routable
<1>5. cmd' = cmd /\ base'[c] = base[c] => LastRoute(c)' = LastRoute(c)
    BY DEF LastRoute
<1>6. Routable(c) => StaleInv(c)
    BY DEF CalmInv
<1>7. CASE EstablishmentAnswers(c)
    <2>1. /\ UNCHANGED callVars /\ cache' = cache
          /\ fetch'[c] = "got" => fetched'[c] = MaxVersion
        BY <1>7 DEF EstablishmentAnswers, Served, FetchFails, CalmInv, Settled, TypeOK, CacheTypeOK
    <2> QED
        BY <1>1, <1>3, <1>4, <1>5, <1>6, <2>1 DEF callVars, CalmInv, StaleInv
<1>8. CASE Establish(c)
    <2>1. /\ cache' = MaxVersion /\ fetch'[c] = "none" /\ pc[c] = "establish"
          /\ pc'[c] = "reread" /\ UNCHANGED <<cmd, base, attempt, result>>
        BY <1>8 DEF Establish, Store, CalmInv, TypeOK, CacheTypeOK
    <2> QED
        BY <1>1, <1>3, <1>4, <1>6, <2>1 DEF CalmInv, StaleInv
<1>9. CASE EstablishFails(c)
    <2>1. pc'[c] = "done" /\ result'[c] = "error" /\ fetch'[c] = "none"
        BY <1>9 DEF EstablishFails, Discard, Return, TypeOK, CacheTypeOK
    <2> QED
        BY <1>1, <2>1 DEF CalmInv, StaleInv
<1>10. CASE Reroute(c)
    <2>1. pc[c] = "reread" /\ Resolve(c) /\ fetch'[c] = "none" /\ fetch[c] = "none" /\ cmd' = cmd
        <3>1. cmd' = cmd
            BY <1>10 DEF Reroute, Resolve, Hop, NoRoute, Return
        <3> QED
            BY <1>10, <3>1 DEF Reroute, RestInv, cacheVars
    <2>2. CASE Routable(c)
        BY <1>1, <1>6, <2>1, <2>2, HopCalm DEF StaleInv
    <2>3. CASE ~ Routable(c)
        <3>1. pc'[c] # "idle"
            BY <2>1 DEF Resolve, Hop, NoRoute, Return, TypeOK
        <3> QED
            BY <1>1, <1>4, <2>1, <2>3, <3>1 DEF CalmInv
    <2> QED
        BY <2>2, <2>3
<1>11. CASE TokenFails(c) \/ Cancel(c)
    <2>1. pc'[c] = "done" /\ result'[c] = "error" /\ UNCHANGED <<fetch, fetched>>
        BY <1>11 DEF TokenFails, Cancel, Return, cacheVars, TypeOK
    <2> QED
        BY <1>1, <2>1 DEF CalmInv, StaleInv
<1>12. CASE ReceiveFinal(c)
    <2>1. /\ pc[c] = "wait" /\ pc'[c] = "done" /\ result'[c] = reply[c] /\ cmd' = cmd
          /\ reply[c] = "wrongMachine" => attempt[c] = WmRetries + 1
          /\ UNCHANGED <<fetch, fetched>>
        BY <1>12 DEF ReceiveFinal, Return, cacheVars, TypeOK
    <2>2. ASSUME Routable(c), reply[c] = "wrongMachine"
          PROVE  WmRetries < Cardinality(Calls)
        <3>1. ~ LastRoute(c) /\ Stale(c) <= Cardinality(Calls)
            BY <1>6, <2>1, <2>2 DEF StaleInv
        <3>2. WmRetries + 1 + Cardinality(Holders(c)) <= Cardinality(Calls)
            BY <2>1, <2>2, <3>1 DEF Stale
        <3> QED
            BY CommandAssumption, <1>2, <3>2
    <2> QED
        BY <1>1, <1>4, <2>1, <2>2 DEF CalmInv, StaleInv
<1>13. CASE DialFails(c) \/ GiveUp(c) \/ ReceiveHTTPError(c)
    <2>1. /\ TransportFails(c) /\ pc[c] \in {"send", "wait"} /\ UNCHANGED <<fetch, fetched>>
        BY <1>13 DEF DialFails, GiveUp, ReceiveHTTPError, cacheVars
    <2>2. CASE pc' = [pc EXCEPT ![c] = "backoff"] /\ UNCHANGED <<cmd, base, attempt, result>>
        <3>1. pc'[c] = "backoff"
            BY <2>2 DEF TypeOK
        <3> QED
            BY <1>1, <1>3, <1>4, <1>5, <1>6, <2>1, <2>2, <3>1 DEF CalmInv, StaleInv
    <2>3. CASE Return(c, "transport")
        <3>1. pc'[c] = "done" /\ result'[c] = "transport"
            BY <2>3 DEF Return, TypeOK
        <3> QED
            BY <1>1, <2>1, <3>1 DEF CalmInv, StaleInv
    <2> QED
        BY <2>1, <2>2, <2>3 DEF TransportFails
<1>14. CASE Post(c)
    <2>1. /\ pc[c] = "send" /\ pc'[c] = "wait" /\ reply'[c] = "none"
          /\ UNCHANGED <<cmd, base, attempt, result, fetch, fetched>>
        BY <1>14 DEF Post, cacheVars, TypeOK
    <2> QED
        BY <1>1, <1>3, <1>4, <1>5, <1>6, <2>1 DEF CalmInv, StaleInv
<1>15. CASE ReceiveBounce(c)
    <2>1. /\ pc[c] = "wait" /\ reply[c] = "wrongMachine" /\ pc'[c] = "establish"
          /\ fetch'[c] = "asked" /\ UNCHANGED <<cmd, base, attempt, result>>
        BY <1>15 DEF ReceiveBounce, Ask, TypeOK, CacheTypeOK
    <2> QED
        BY <1>1, <1>3, <1>4, <1>6, <2>1 DEF CalmInv, StaleInv
<1>16. CASE Retry(c)
    <2>1. /\ pc[c] = "backoff" /\ pc'[c] = "send"
          /\ UNCHANGED <<cmd, base, attempt, result, fetch, fetched>>
        BY <1>16 DEF Retry, cacheVars, TypeOK
    <2> QED
        BY <1>1, <1>3, <1>4, <1>5, <1>6, <2>1 DEF CalmInv, StaleInv
<1> QED
    BY <1>7, <1>8, <1>9, <1>10, <1>11, <1>12, <1>13, <1>14, <1>15, <1>16 DEF Proceed

(* Under the last document, the server that the last document routes to is    *)
(* never the wrong one, whichever POST of the hop it answers.                 *)
LEMMA ServeCalm ==
    ASSUME IsFiniteSet(Calls), TypeOK, TargetInv, NEW c \in Calls, CalmInv(c),
           NEW m \in wire, Serve(m)
    PROVE  CalmInv(c)'
<1> USE DEF Calls
<1>1. PICK executed \in BOOLEAN, r \in Replies :
        /\ <<executed, r>> \in Servings(m)
        /\ \/ Awaited(m) /\ reply' = [reply EXCEPT ![m.call] = r]
           \/ reply' = reply
    BY DEF Serve
<1>2. UNCHANGED <<live, cache, fetch, fetched, adopted, pc, cmd, base, attempt, try, result>>
    BY DEF Serve, cacheVars
<1>3. Holders(c)' = Holders(c)
    BY <1>2 DEF Holders
<1>4. m.call \in Calls /\ m.to \in Servers
    BY DEF TypeOK, Message
<1>5. ASSUME Routable(c), reply'[c] = "wrongMachine", reply'[c] # reply[c], LastRoute(c)
      PROVE  FALSE
    <2>1. m.call = c /\ r = "wrongMachine" /\ Awaited(m)
        BY <1>1, <1>4, <1>5 DEF TypeOK
    <2>2. ~ Accepts(m.to, cmd[c])
        BY <1>1, <2>1 DEF Servings
    <2>3. m.to = Host[base[c]] /\ adopted[m.to] = MaxVersion
        BY <1>4, <2>1 DEF TargetInv, Awaited, CalmInv, Settled
    <2>4. PICK a \in AssignmentsFor(Docs[MaxVersion], cmd[c].slot) :
            m.to \in IF cmd[c].kind = "read" THEN Range(a.read)
                     ELSE IF cmd[c].kind = "search" THEN Range(a.read) \cup {a.sot}
                     ELSE {a.sot}
        BY <1>5, <2>3 DEF LastRoute, Routable, Reachable
    <2>5. cmd[c].kind \in {"patch", "delete", "read", "search"}
        BY CommandAssumption, <1>5 DEF TypeOK, Command, Kinds, Routable
    <2>6. CASE cmd[c].kind \in {"patch", "delete"}
        BY <2>2, <2>3, <2>4, <2>6 DEF Accepts
    <2>7. CASE cmd[c].kind = "read"
        BY <2>2, <2>3, <2>4, <2>7 DEF Accepts
    <2>8. CASE cmd[c].kind = "search"
        BY <2>2, <2>3, <2>4, <2>8 DEF Accepts
    <2> QED
        BY <2>5, <2>6, <2>7, <2>8
<1> QED
    BY <1>2, <1>3, <1>5, CalmKept

LEMMA RestStep ==
    ASSUME TypeOK, [Next]_vars, NEW c \in Calls, RestInv(c)
    PROVE  RestInv(c)'
<1> USE DEF Calls
<1>1. ASSUME UNCHANGED <<pc, fetch, result>>
      PROVE  RestInv(c)'
    BY <1>1 DEF RestInv
<1>2. ASSUME NEW d \in Calls, d # c, Start(d) \/ Proceed(d)
      PROVE  RestInv(c)'
    BY <1>2, CallLocal DEF RestInv
<1>3. ASSUME Resolve(c), UNCHANGED cacheVars, pc[c] # "establish"
      PROVE  RestInv(c)'
    <2>1. pc'[c] \in {"send", "done"}
        BY <1>3 DEF Resolve, Hop, NoRoute, Return, TypeOK
    <2> QED
        BY <1>3, <2>1 DEF RestInv, cacheVars
<1>4. ASSUME NEW kinds, Begin(c, kinds)
      PROVE  RestInv(c)'
    <2>1. CASE Resolve(c) /\ UNCHANGED cacheVars
        BY <1>3, <1>4, <2>1 DEF Begin
    <2>2. CASE pc' = [pc EXCEPT ![c] = "establish"]
        BY <2>2 DEF RestInv, TypeOK
    <2> QED
        BY <1>4, <2>1, <2>2 DEF Begin
<1>5. CASE EstablishmentAnswers(c)
    BY <1>5 DEF EstablishmentAnswers, Served, FetchFails, callVars, RestInv, TypeOK
<1>6. CASE Establish(c) \/ EstablishFails(c)
    BY <1>6 DEF Establish, EstablishFails, Store, Discard, Return, RestInv, TypeOK, CacheTypeOK
<1>7. CASE Reroute(c)
    BY <1>3, <1>7 DEF Reroute
<1>8. ASSUME pc[c] \in {"send", "wait", "backoff"}, UNCHANGED fetch,
             pc'[c] \in {"send", "wait", "backoff", "done"}
      PROVE  RestInv(c)'
    BY <1>8 DEF RestInv
<1>9. CASE TokenFails(c) \/ Cancel(c) \/ ReceiveFinal(c) \/ Post(c) \/ Retry(c)
    BY <1>8, <1>9 DEF TokenFails, Cancel, ReceiveFinal, Post, Retry, Return, cacheVars, TypeOK
<1>10. CASE DialFails(c) \/ GiveUp(c) \/ ReceiveHTTPError(c)
    BY <1>8, <1>10 DEF DialFails, GiveUp, ReceiveHTTPError, TransportFails, Return, cacheVars,
                       TypeOK
<1>11. CASE ReceiveBounce(c)
    BY <1>11 DEF ReceiveBounce, RestInv, TypeOK
<1>12. CASE Environment
    BY <1>1, <1>12 DEF Environment, Serve, Publish, Adopt, cacheVars, callVars
<1>13. CASE UNCHANGED vars
    BY <1>1, <1>13 DEF vars, cacheVars, callVars
<1> QED
    BY <1>2, <1>4, <1>5, <1>6, <1>7, <1>9, <1>10, <1>11, <1>12, <1>13, StartIsBegin
       DEF Next, Proceed

(* A new hop outnumbers every POST of the earlier ones. *)
LEMMA TargetStep ==
    ASSUME TypeOK, [Next]_vars, TargetInv
    PROVE  TargetInv'
<1> USE DEF Calls
<1>1. \A m \in wire : m.call \in Calls /\ m.attempt \in Nat
    BY CommandAssumption DEF TypeOK, Message
<1>2. \A c \in Calls : attempt[c] \in Nat
    BY CommandAssumption DEF TypeOK
<1>3. ASSUME wire' \subseteq wire, UNCHANGED <<base, attempt>>
      PROVE  TargetInv'
    BY <1>3 DEF TargetInv
<1>4. ASSUME NEW c \in Calls, Start(c) \/ Proceed(c), wire' = wire,
             attempt'[c] = attempt[c] + 1
      PROVE  TargetInv'
    BY <1>1, <1>2, <1>4, CallLocal DEF TargetInv
<1>5. ASSUME NEW c \in Calls, Start(c) \/ Proceed(c), wire' = wire, Resolve(c)
      PROVE  TargetInv'
    <2>1. attempt'[c] = attempt[c] + 1 \/ UNCHANGED <<base, attempt>>
        BY <1>5 DEF Resolve, Hop, NoRoute, TypeOK
    <2> QED
        BY <1>3, <1>4, <1>5, <2>1
<1>6. ASSUME NEW c \in Calls, NEW kinds, Begin(c, kinds), Start(c)
      PROVE  TargetInv'
    BY <1>3, <1>5, <1>6 DEF Begin, serverVars
<1>7. ASSUME NEW c \in Calls, Post(c)
      PROVE  TargetInv'
    <2> DEFINE n == [call |-> c, attempt |-> attempt[c], try |-> try[c],
                     to |-> Host[base[c]], full |-> body[c]]
    <2>1. wire' = wire \cup {n} /\ UNCHANGED <<base, attempt>>
        BY <1>7 DEF Post
    <2>2. n.call = c /\ n.attempt = attempt[c] /\ n.to = Host[base[c]]
        OBVIOUS
    <2> HIDE DEF n
    <2> QED
        BY <1>2, <1>7, <2>1, <2>2 DEF TargetInv
<1>8. ASSUME NEW c \in Calls, Proceed(c)
      PROVE  TargetInv'
    <2>1. CASE Reroute(c)
        BY <1>5, <1>8, <2>1 DEF Reroute, serverVars
    <2>2. CASE \/ EstablishmentAnswers(c) \/ Establish(c) \/ EstablishFails(c)
               \/ ReceiveBounce(c) \/ Retry(c) \/ TokenFails(c) \/ Cancel(c)
        BY <1>3, <2>2 DEF EstablishmentAnswers, Establish, EstablishFails, ReceiveBounce, Retry,
                          TokenFails, Cancel, serverVars, callVars
    <2>3. CASE DialFails(c) \/ GiveUp(c) \/ ReceiveHTTPError(c) \/ ReceiveFinal(c)
        BY <1>3, <2>3 DEF DialFails, GiveUp, ReceiveHTTPError, TransportFails, ReceiveFinal,
                          serverVars
    <2> QED
        BY <1>7, <1>8, <2>1, <2>2, <2>3 DEF Proceed
<1>9. CASE Environment
    <2>1. ASSUME NEW m \in wire, Serve(m)
          PROVE  TargetInv'
        BY <1>3, <2>1 DEF Serve
    <2>2. ASSUME NEW s \in Servers, Adopt(s)
          PROVE  TargetInv'
        BY <1>3, <2>2 DEF Adopt, callVars
    <2>3. CASE Publish
        BY <1>3, <2>3 DEF Publish, callVars, serverVars
    <2> QED
        BY <1>9, <2>1, <2>2, <2>3 DEF Environment
<1>10. CASE UNCHANGED vars
    BY <1>3, <1>10 DEF vars, callVars, serverVars
<1> QED
    BY <1>6, <1>8, <1>9, <1>10, StartIsBegin DEF Next

LEMMA CalmStep ==
    ASSUME IsFiniteSet(Calls), SettledInv, [Next]_vars, NEW c \in calm'
    PROVE  CalmInv(c)'
<1> USE DEF Calls
<1>1. /\ TypeOK /\ TargetInv
      /\ \A d \in Calls : CallShape(d) /\ RestInv(d)
      /\ \A d \in calm : d \in Calls /\ CalmInv(d)
    BY DEF SettledInv, Inv, TypeOK
<1>2. ASSUME NEW d \in Calls, NEW kinds, Begin(d, kinds)
      PROVE  calm' = calm \/ calm' = calm \cup {d}
    BY <1>2 DEF Begin
<1>3. ASSUME NEW d \in Calls, Proceed(d)
      PROVE  calm' = calm
    BY <1>3 DEF Proceed, EstablishmentAnswers, Establish, EstablishFails, Reroute, TokenFails,
                DialFails, Post, GiveUp, ReceiveHTTPError, ReceiveFinal, ReceiveBounce, Retry,
                Cancel
<1>4. ASSUME NEW d \in Calls, Start(d) \/ Proceed(d)
      PROVE  CalmInv(c)'
    <2>1. c \in calm \/ c = d
        BY <1>2, <1>3, <1>4, StartIsBegin
    <2>2. CASE c # d
        BY <1>1, <1>4, <2>1, <2>2, OtherCallCalm
    <2>3. CASE c = d
        <3>1. Holders(c)' = Holders(c) /\ live' = live /\ adopted' = adopted
            BY <1>1, <1>4, <2>3, CallLocal DEF Holders
        <3>2. ASSUME NEW kinds, Begin(c, kinds)
              PROVE  CalmInv(c)'
            <4>1. c \notin calm
                BY <1>1, <3>2 DEF Begin, CalmInv
            <4> QED
                BY <1>1, <1>4, <2>3, <3>1, <3>2, <4>1, BeginCalm
        <3>3. CASE Proceed(c)
            <4>1. c \in calm
                BY <1>3, <1>4, <2>3, <3>3
            <4> QED
                BY <1>1, <3>1, <3>3, <4>1, ProceedCalm
        <3> QED
            BY <1>4, <2>3, <3>2, <3>3, StartIsBegin
    <2> QED
        BY <2>2, <2>3
<1>5. ASSUME NEW m \in wire, Serve(m)
      PROVE  CalmInv(c)'
    <2>1. c \in calm
        BY <1>5 DEF Serve
    <2> QED
        BY <1>1, <1>5, <2>1, ServeCalm
<1>6. CASE Publish \/ \E s \in Servers : Adopt(s)
    <2>1. c \in calm
        BY <1>6 DEF Publish, Adopt
    <2>2. live = MaxVersion /\ \A s \in Servers : adopted[s] = live
        BY <1>1, <2>1 DEF CalmInv, Settled
    <2>3. live \in Nat
        BY <1>1 DEF TypeOK, CacheTypeOK
    <2> QED
        BY <1>6, <2>2, <2>3, CommandAssumption DEF Publish, Adopt
<1>7. CASE UNCHANGED vars
    <2>1. UNCHANGED <<live, cache, fetch, fetched, adopted, pc, cmd, base, attempt, reply, result>>
          /\ c \in calm
        BY <1>7 DEF vars, cacheVars, callVars, serverVars
    <2>2. Holders(c)' = Holders(c)
        BY <2>1 DEF Holders
    <2> QED
        BY <1>1, <2>1, <2>2, CalmKept
<1> QED
    BY <1>4, <1>5, <1>6, <1>7 DEF Next, Environment

LEMMA SettledInvInit == Init => SettledInv
<1> SUFFICES ASSUME Init
             PROVE  SettledInv
    OBVIOUS
<1> USE DEF Calls
<1>1. Inv
    BY InvInit
<1>2. (\A c \in Calls : RestInv(c)) /\ TargetInv /\ calm = {}
    BY DEF Init, CacheInit, RestInv, TargetInv
<1> QED
    BY <1>1, <1>2 DEF SettledInv

(* While no more calls share the client than its bounce budget, none of them    *)
(* that began after the topology settled reports wrongMachine: the refreshes    *)
(* of a call outlast every older document that the others may still cache       *)
(* (executeRouted, establishmentCache.set).  The hypothesis is sharp: with one  *)
(* call more, each of the others can put an older document back just before a   *)
(* route is resolved, and together they use the budget up.                      *)
THEOREM SettledNeverWrongMachineCorrect ==
    ASSUME IsFiniteSet(Calls), Cardinality(Calls) <= WmRetries
    PROVE  Spec => []SettledNeverWrongMachine
<1>1. SettledInv /\ [Next]_vars => SettledInv'
    <2>1. SUFFICES ASSUME SettledInv, [Next]_vars
                   PROVE  SettledInv'
        OBVIOUS
    <2>2. Inv'
        BY <2>1, InvStep DEF SettledInv
    <2>3. \A c \in Calls : RestInv(c)'
        BY <2>1, RestStep DEF SettledInv, Inv
    <2>4. TargetInv'
        BY <2>1, TargetStep DEF SettledInv, Inv
    <2>5. \A c \in calm' : CalmInv(c)'
        BY <2>1, CalmStep
    <2> QED
        BY <2>2, <2>3, <2>4, <2>5 DEF SettledInv, Calls
<1>2. SettledInv => SettledNeverWrongMachine
    <2>1. SUFFICES ASSUME SettledInv, NEW c \in calm, Routable(c)
                   PROVE  result[c] # "wrongMachine"
        BY DEF SettledNeverWrongMachine, Routable
    <2>2. result[c] = "wrongMachine" => WmRetries < Cardinality(Calls)
        BY <2>1 DEF SettledInv, CalmInv, StaleInv
    <2>3. Cardinality(Calls) \in Nat /\ WmRetries \in Nat
        BY CommandAssumption, FS_CardinalityType
    <2> QED
        BY <2>2, <2>3
<1> QED
    BY <1>1, <1>2, SettledInvInit, PTL DEF Spec
===============================================================================
