------------------------------- MODULE Catalog --------------------------------
(***************************************************************************)
(* The catalog side of the client: Establish with declared collections      *)
(* (src/client.go, src/collection.go), Collection.Bind                      *)
(* (src/collection_client.go), the admin commands that change the catalog    *)
(* and then refresh the cache (src/admin.go), and Schema, which asks for an  *)
(* old schema (src/client.go), all over one shared establishment cache.      *)
(*                                                                         *)
(* A published document is reduced to its catalog: the schema version of    *)
(* each collection, 0 for one that does not exist, and the collections that *)
(* have the search the admin commands name.  Every caller makes one call.    *)
(***************************************************************************)
EXTENDS EstablishCache, Sequences, Functions

CONSTANTS
    Collections,
    MaxSchema,      \* bound on schema versions
    MaxPublished,   \* bound on how many documents the server publishes
    Ops             \* the calls the callers may make

(***************************************************************************)
(* kind is the call, and wants maps each collection it names to the version *)
(* it declares or asks for (the commands on a search do not look at it).    *)
(* An establish that names none is the refresh of executeRouted.            *)
(***************************************************************************)
Admin == {"ensure", "searchEnsure", "searchDelete"}

IsOp(o) ==
    /\ o.kind \in {"establish", "bind", "schema"} \cup Admin
    /\ DOMAIN o.wants \subseteq Collections
    /\ Range(o.wants) \subseteq 1 .. MaxSchema
    /\ o.kind # "establish" => \E col \in Collections : DOMAIN o.wants = {col}

ASSUME CatalogAssumption ==
    /\ MaxSchema \in Nat \ {0}
    /\ MaxPublished \in Nat \ {0}
    /\ \A o \in Ops : IsOp(o)

VARIABLES
    catalog,    \* the catalog of each published document, in order
    op,         \* the call of each caller
    pc,         \* where it is
    wire,       \* callers whose admin or schema request no server has served yet
    reply,      \* the answer to that request
    bound,      \* the schema version a Bind compiled, 0 before
    result,     \* what the call returned
    applied,    \* ghost: the document that had what an admin command asked for
    raced       \* ghost: calls whose document another store did or may replace

clientVars == <<op, pc, reply, bound, result>>
serverVars == <<catalog, wire, applied>>
vars == <<cacheVars, serverVars, clientVars, raced>>

Catalogs == [schemas : [Collections -> 0 .. MaxSchema], searches : SUBSET Collections]

Results == {"none", "ok", "refused", "error", "catalogError", "refreshFailed"}

TypeOK ==
    /\ CacheTypeOK
    /\ catalog \in Seq(Catalogs)
    /\ live = Len(catalog)
    /\ cache <= live
    /\ op \in [Callers -> Ops]
    /\ pc \in [Callers -> {"idle", "wait", "establish", "reread", "done"}]
    /\ wire \subseteq Callers
    /\ reply \in [Callers -> {"none", "ok", "refused"}]
    /\ bound \in [Callers -> 0 .. MaxSchema]
    /\ result \in [Callers -> Results]
    /\ applied \in [Callers -> 0 .. live]
    /\ raced \subseteq Callers
    /\ \A c \in Callers : pc[c] = "done" <=> result[c] # "none"

Init ==
    /\ CacheInit
    /\ \E document \in Catalogs :
        /\ \A col \in document.searches : document.schemas[col] # 0
        /\ catalog = <<document>>
    /\ op \in [Callers -> Ops]
    /\ pc = [c \in Callers |-> "idle"]
    /\ wire = {}
    /\ reply = [c \in Callers |-> "none"]
    /\ bound = [c \in Callers |-> 0]
    /\ result = [c \in Callers |-> "none"]
    /\ applied = [c \in Callers |-> 0]
    /\ raced = {}

-------------------------------------------------------------------------------

\* validateCatalog: every declared collection exists at the declared version.
Matches(document, wants) == \A col \in DOMAIN wants : document.schemas[col] = wants[col]

\* The collection a Bind or an admin command names, and the version it wants.
Named(c) == CHOOSE col \in Collections : col \in DOMAIN op[c].wants
Wanted(c) == op[c].wants[Named(c)]

Return(c, r) ==
    /\ pc' = [pc EXCEPT ![c] = "done"]
    /\ result' = [result EXCEPT ![c] = r]

Fetch(c) ==
    /\ pc' = [pc EXCEPT ![c] = "establish"]
    /\ Ask(c)

-------------------------------------------------------------------------------
\* The calls.

BeginEstablish(c) ==
    /\ pc[c] = "idle"
    /\ op[c].kind = "establish"
    /\ Fetch(c)
    /\ UNCHANGED <<op, reply, bound, result, serverVars, raced>>

\* Bind on a nil cache establishes, declaring its collection.
BeginBind(c) ==
    /\ pc[c] = "idle"
    /\ op[c].kind = "bind"
    /\ cache = 0
    /\ Fetch(c)
    /\ UNCHANGED <<op, reply, bound, result, serverVars, raced>>

\* Bind on a cached document validates and compiles that document.
BindCached(c) ==
    /\ pc[c] = "idle"
    /\ op[c].kind = "bind"
    /\ cache # 0
    /\ IF Matches(catalog[cache], op[c].wants)
       THEN Return(c, "ok") /\ bound' = [bound EXCEPT ![c] = catalog[cache].schemas[Named(c)]]
       ELSE Return(c, "catalogError") /\ UNCHANGED bound
    /\ UNCHANGED <<op, reply, cacheVars, serverVars, raced>>

\* Schema on a nil cache establishes first (establishmentBase).
BeginSchema(c) ==
    /\ pc[c] = "idle"
    /\ op[c].kind = "schema"
    /\ cache = 0
    /\ Fetch(c)
    /\ UNCHANGED <<op, reply, bound, result, serverVars, raced>>

Request(c) ==
    /\ pc' = [pc EXCEPT ![c] = "wait"]
    /\ wire' = wire \cup {c}
    /\ UNCHANGED <<op, reply, bound, result, cacheVars, catalog, applied, raced>>

\* The base URL comes from the cached document, of which Schema takes for
\* granted that it is there.
RequestSchema(c) ==
    /\ op[c].kind = "schema"
    /\ \/ pc[c] = "idle" /\ cache # 0
       \/ pc[c] = "reread"
    /\ IF cache = 0
       THEN Return(c, "panic") /\ UNCHANGED <<op, reply, bound, cacheVars, serverVars, raced>>
       ELSE Request(c)

\* postAdminAndRefresh: the command goes to the establishment server.
BeginAdmin(c) ==
    /\ pc[c] = "idle"
    /\ op[c].kind \in Admin
    /\ Request(c)

\* Mutant of ReceiveAdmin: the refresh is forgotten.
ReceiveAdminUnrefreshed(c) ==
    /\ pc[c] = "wait"
    /\ op[c].kind \in Admin
    /\ reply[c] # "none"
    /\ Return(c, reply[c])
    /\ UNCHANGED <<op, reply, bound, cacheVars, serverVars, raced>>

\* Any answer without a transport error, ok:false included, is followed by the
\* refresh.
ReceiveAdmin(c) ==
    /\ pc[c] = "wait"
    /\ op[c].kind \in Admin
    /\ reply[c] # "none"
    /\ Fetch(c)
    /\ UNCHANGED <<op, reply, bound, result, serverVars, raced>>

\* Schema returns the answer, an AppError when it is not ok.
ReceiveSchema(c) ==
    /\ pc[c] = "wait"
    /\ op[c].kind = "schema"
    /\ reply[c] # "none"
    /\ Return(c, reply[c])
    /\ UNCHANGED <<op, reply, bound, cacheVars, serverVars, raced>>

\* A transport error, a token error or a cancelled context.
RequestFails(c) ==
    /\ pc[c] = "wait"
    /\ Return(c, "error")
    /\ UNCHANGED <<op, reply, bound, cacheVars, serverVars, raced>>

\* What Establish validates: nothing after an admin command or for a Schema.
Declared(c) == IF op[c].kind \in {"establish", "bind"} THEN op[c].wants ELSE [col \in {} |-> 0]

\* Mutant of Establish: every call returns the answer of the admin command.
EstablishReturnsReply(c) ==
    /\ pc[c] = "establish"
    /\ fetch[c] = "got"
    /\ Matches(catalog[fetched[c]], Declared(c))
    /\ Store(c)
    /\ Return(c, reply[c])
    /\ raced' = raced \cup {d \in Callers \ {c} : pc[d] = "reread"}
    /\ UNCHANGED <<op, reply, bound, serverVars>>

\* Mutant of Establish: the document is cached before it is validated.
EstablishUnvalidated(c) ==
    /\ pc[c] = "establish"
    /\ fetch[c] = "got"
    /\ Store(c)
    /\ IF op[c].kind \in {"bind", "schema"}
       THEN pc' = [pc EXCEPT ![c] = "reread"] /\ UNCHANGED result
       ELSE Return(c, IF op[c].kind \in Admin THEN reply[c] ELSE "ok")
    /\ raced' = raced \cup {d \in Callers \ {c} : pc[d] = "reread"}
                      \cup {d \in {c} : \E e \in Callers \ {c} :
                                            fetch[e] = "got" /\ fetched[e] < fetched[c]}
    /\ UNCHANGED <<op, reply, bound, serverVars>>

\* The fetched document is validated, then cached.  Bind and Schema go on to read
\* the cache; Establish and the admin commands return.
Establish(c) ==
    /\ pc[c] = "establish"
    /\ fetch[c] = "got"
    /\ Matches(catalog[fetched[c]], Declared(c))
    /\ Store(c)
    /\ IF op[c].kind \in {"bind", "schema"}
       THEN pc' = [pc EXCEPT ![c] = "reread"] /\ UNCHANGED result
       ELSE Return(c, IF op[c].kind \in Admin THEN reply[c] ELSE "ok")
    /\ raced' = raced \cup {d \in Callers \ {c} : pc[d] = "reread"}
                      \cup {d \in {c} : \E e \in Callers \ {c} :
                                            fetch[e] = "got" /\ fetched[e] < fetched[c]}
    /\ UNCHANGED <<op, reply, bound, serverVars>>

\* Mutant of EstablishFails: a mismatch is not an error.
EstablishFailsOnly(c) ==
    /\ pc[c] = "establish"
    /\ fetch[c] = "failed"
    /\ Discard(c)
    /\ Return(c, IF op[c].kind \in Admin THEN "refreshFailed" ELSE "error")
    /\ UNCHANGED <<op, reply, bound, serverVars, raced>>

\* The fetch failed, or the document does not match the declared catalog.
EstablishFails(c) ==
    /\ pc[c] = "establish"
    /\ Discard(c)
    /\ \/ fetch[c] = "failed"
          /\ Return(c, IF op[c].kind \in Admin THEN "refreshFailed" ELSE "error")
       \/ fetch[c] = "got"
          /\ ~ Matches(catalog[fetched[c]], Declared(c))
          /\ Return(c, "catalogError")
    /\ UNCHANGED <<op, reply, bound, serverVars, raced>>

\* Bind compiles the schema of whatever document the cache holds now.
CompileSchema(c) ==
    /\ pc[c] = "reread"
    /\ op[c].kind = "bind"
    /\ LET version == catalog[cache].schemas[Named(c)]
       IN  IF version = 0
           THEN Return(c, "error") /\ UNCHANGED bound
           ELSE Return(c, "ok") /\ bound' = [bound EXCEPT ![c] = version]
    /\ UNCHANGED <<op, reply, cacheVars, serverVars, raced>>

-------------------------------------------------------------------------------
\* The establishment server.

EstablishmentAnswers(c) ==
    /\ Served(c) \/ FetchFails(c)
    /\ UNCHANGED <<clientVars, serverVars, raced>>

Answer(c, r) ==
    \/ pc[c] = "wait" /\ reply' = [reply EXCEPT ![c] = r]
    \/ UNCHANGED reply

Publish(document) ==
    /\ live < MaxPublished
    /\ catalog' = Append(catalog, document)
    /\ live' = live + 1

\* collectionEnsure creates a collection, upgrades it by one version, or finds
\* it as asked.
EnsureCollection(c, current) ==
    LET version == current.schemas[Named(c)]
    IN  \/ /\ Wanted(c) = version + 1
           /\ Publish([current EXCEPT !.schemas[Named(c)] = Wanted(c)])
        \/ Wanted(c) = version /\ UNCHANGED <<catalog, live>>

\* searchEnsure defines the search, searchDelete removes it.
ChangeSearch(c, current) ==
    LET found == Named(c) \in current.searches
        ensure == op[c].kind = "searchEnsure"
    IN  /\ current.schemas[Named(c)] # 0
        /\ IF found = ensure
           THEN UNCHANGED <<catalog, live>>
           ELSE Publish([current EXCEPT !.searches =
                            IF ensure THEN @ \cup {Named(c)} ELSE @ \ {Named(c)}])

\* An admin command is applied, or refused for whatever reason.
ServeAdmin(c) ==
    /\ c \in wire
    /\ op[c].kind \in Admin
    /\ wire' = wire \ {c}
    /\ \/ /\ IF op[c].kind = "ensure"
             THEN EnsureCollection(c, catalog[live])
             ELSE ChangeSearch(c, catalog[live])
          /\ Answer(c, "ok")
          /\ applied' = [applied EXCEPT ![c] = live']
       \/ Answer(c, "refused") /\ UNCHANGED <<catalog, live, applied>>
    /\ UNCHANGED <<cache, fetch, fetched, op, pc, bound, result, raced>>

\* Every version up to the current one can be read.
ServeSchema(c) ==
    /\ c \in wire
    /\ op[c].kind = "schema"
    /\ wire' = wire \ {c}
    /\ \/ Wanted(c) <= catalog[live].schemas[Named(c)] /\ Answer(c, "ok")
       \/ Answer(c, "refused")
    /\ UNCHANGED <<cacheVars, catalog, applied, op, pc, bound, result, raced>>

-------------------------------------------------------------------------------

Proceed(c) ==
    \/ EstablishmentAnswers(c)
    \/ ReceiveAdmin(c)
    \/ ReceiveSchema(c)
    \/ RequestFails(c)
    \/ Establish(c)
    \/ EstablishFails(c)
    \/ CompileSchema(c)
    \/ (pc[c] # "idle" /\ RequestSchema(c))

Start(c) ==
    \/ BeginEstablish(c)
    \/ BeginBind(c)
    \/ BindCached(c)
    \/ BeginSchema(c)
    \/ (pc[c] = "idle" /\ RequestSchema(c))
    \/ BeginAdmin(c)

Next == \E c \in Callers : Start(c) \/ Proceed(c) \/ ServeAdmin(c) \/ ServeSchema(c)

Spec == Init /\ [][Next]_vars

\* A call that has begun is scheduled and its waits are bounded by timeouts.
Fairness == \A c \in Callers : WF_vars(Proceed(c))

FairSpec == Spec /\ Fairness

-------------------------------------------------------------------------------
\* Properties.

\* establishmentBase and Bind use the cache right after Establish succeeded
\* (the former without a nil check): whatever other calls store or fail to
\* store meanwhile, a cache that was filled is never seen nil.
NeverNilAgain == [][cache # 0 => cache' # 0]_vars

\* What an admin call reported as applied is in the document that the next Bind
\* or route sees, and in every later one until another admin call undoes it,
\* unless an older document had been fetched and not stored when the refresh was
\* stored (postAdminAndRefresh, Establish).
EnsureVisibleUnlessRaced ==
    \A c \in Callers \ raced :
        op[c].kind \in Admin /\ result[c] = "ok" =>
            /\ cache # 0 /\ cache >= applied[c]
            /\ op[c].kind = "ensure" => catalog[cache].schemas[Named(c)] >= Wanted(c)
            /\ (op[c].kind = "searchEnsure" /\ Named(c) \notin catalog[cache].searches) =>
                   \E d \in Callers :
                       op[d].kind = "searchDelete" /\ Named(d) = Named(c) /\ applied[d] > applied[c]

\* A bound collection holds the schema version it declares, unless another call
\* stored a document between Bind's Establish and its read of the cache.
BoundUnlessRaced ==
    \A c \in Callers \ raced :
        op[c].kind = "bind" /\ result[c] = "ok" => bound[c] = Wanted(c)

\* Every call returns.
Termination == \A c \in Callers : pc[c] # "idle" ~> pc[c] = "done"

\* What the comment of Bind says: the collection's version was validated against
\* the schemas it compiles.
BoundSchemaMatchesDeclared ==
    \A c \in Callers : op[c].kind = "bind" /\ result[c] = "ok" => bound[c] = Wanted(c)
===============================================================================
