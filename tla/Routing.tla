------------------------------- MODULE Routing --------------------------------
(***************************************************************************)
(* Route resolution (src/routing.go, src/search.go, src/establish.go): from *)
(* an establishment document and a command to the URL the command is posted *)
(* to.  A document is a record                                              *)
(*                                                                         *)
(*   [server   |-> general.establishmentServer,                            *)
(*    servers  |-> function from server names to base URLs,                *)
(*    shardMap |-> function from range keys to [sot, read] assignments]    *)
(*                                                                         *)
(* and a command is [kind, slot], slot being the CRC32 slot of the document *)
(* id or of the search path.  NoServer stands for an empty server name and *)
(* NoURL for an empty base URL, and for the error a resolver returns when  *)
(* it finds no server.                                                     *)
(***************************************************************************)
EXTENDS ShardRange, Functions

CONSTANTS
    Servers,            \* server names
    NoServer,
    URLs,               \* base URLs
    NoURL,
    EstablishmentURL,   \* Config.EstablishmentURL
    PreferServer,       \* Config.PreferServer, NoServer when it is not set
    Rewrite             \* Config.BaseURLRewrite: from names and URLs to URLs

ASSUME RoutingAssumption ==
    /\ NoServer \notin Servers
    /\ NoURL \notin URLs
    /\ EstablishmentURL \in URLs
    /\ PreferServer \in Servers \cup {NoServer}
    /\ DOMAIN Rewrite \subseteq Servers \cup {NoServer} \cup URLs
    /\ Range(Rewrite) \subseteq URLs

IsAssignment(a) == a.sot \in Servers \cup {NoServer} /\ a.read \in Seq(Servers)

IsEstablishment(est) ==
    /\ est.server \in Servers \cup {NoServer}
    /\ \A name \in DOMAIN est.servers : est.servers[name] \in URLs \cup {NoURL}
    /\ \A raw \in DOMAIN est.shardMap : raw \in Seq(Int) /\ IsAssignment(est.shardMap[raw])

Kinds == {"patch", "delete", "read", "search", "unkeyedSearch"}

Command == [kind : Kinds, slot : Slots]

-------------------------------------------------------------------------------

\* Mutant of WellFormed: coverage is not validated.
WellFormedKeys(est) == \A raw \in DOMAIN est.shardMap : Parses(raw)

\* parseEstablishment accepts a document whose keys all parse and, unless there
\* is none, partition the slots (module ShardMap checks the loop that decides it).
WellFormed(est) ==
    /\ \A raw \in DOMAIN est.shardMap : Parses(raw)
    /\ DOMAIN est.shardMap # {} => Partition(DOMAIN est.shardMap)

\* AssignmentForSlot walks the shard map in Go's random map order and returns
\* the first range that contains the slot: any of these.
AssignmentsFor(est, slot) ==
    {est.shardMap[raw] : raw \in
        {key \in DOMAIN est.shardMap : Parses(key) /\ Contains(ParseRange(key), slot)}}

ServerBaseURL(est, name) ==
    IF name \in DOMAIN est.servers THEN est.servers[name] ELSE NoURL

\* The rewrite map is consulted by server name first, then by base URL.
RewriteURL(name, url) ==
    IF name \in DOMAIN Rewrite THEN Rewrite[name]
    ELSE IF url \in DOMAIN Rewrite THEN Rewrite[url]
    ELSE url

\* A shard member is never reached through a fallback: no base URL is an error.
MemberURL(est, name) ==
    IF ServerBaseURL(est, name) = NoURL THEN NoURL
    ELSE RewriteURL(name, ServerBaseURL(est, name))

\* Reads go to a SHARD_READ_MEMBER and to nothing else, the preferred one first.
PickReadMember(a) ==
    IF PreferServer \in Range(a.read) THEN PreferServer
    ELSE IF a.read # <<>> THEN a.read[1]
    ELSE NoServer

\* routeSearch: the preferred server when it is a member of the shard, else the
\* SOT member, else the first read member.
SearchMember(a) ==
    IF PreferServer # NoServer /\ PreferServer \in Range(a.read) \cup {a.sot} THEN PreferServer
    ELSE IF a.sot # NoServer THEN a.sot
    ELSE IF a.read # <<>> THEN a.read[1]
    ELSE NoServer

\* routeDocument with RouteWrite and with RouteRead.
RouteWrite(est, slot) == {MemberURL(est, a.sot) : a \in AssignmentsFor(est, slot)}

RouteRead(est, slot) == {MemberURL(est, PickReadMember(a)) : a \in AssignmentsFor(est, slot)}

RouteSearch(est, slot) == {MemberURL(est, SearchMember(a)) : a \in AssignmentsFor(est, slot)}

\* A search without path segments (and a document command without an id) goes
\* to the preferred or the establishment server, whatever the shard map says.
RouteUnkeyed(est) ==
    LET name == IF PreferServer # NoServer THEN PreferServer ELSE est.server
        url  == ServerBaseURL(est, name)
    IN  RewriteURL(name, IF url = NoURL THEN EstablishmentURL ELSE url)

\* Every outcome of the resolver of a command; NoURL is its error return.
Routes(est, cmd) ==
    LET found == CASE cmd.kind \in {"patch", "delete"} -> RouteWrite(est, cmd.slot)
                   [] cmd.kind = "read"                -> RouteRead(est, cmd.slot)
                   [] cmd.kind = "search"              -> RouteSearch(est, cmd.slot)
                   [] cmd.kind = "unkeyedSearch"       -> {RouteUnkeyed(est)}
    IN  IF found = {} THEN {NoURL} ELSE found
===============================================================================
