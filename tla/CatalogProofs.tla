----------------------------- MODULE CatalogProofs -----------------------------
(***************************************************************************)
(* For any callers, collections, schema versions and calls, the cache never *)
(* goes back to nil, what an admin command reported as applied stays in     *)
(* sight, and a Bind holds the version it declared, unless the call raced   *)
(* in the way its property names.                                          *)
(***************************************************************************)
EXTENDS Catalog, TLAPS

IsAdmin(c) == op[c].kind \in Admin

(* A fetch belongs to a call in Establish and its answer is a published document; *)
(* a call that reads the cache again finds it filled.                             *)
FetchInv ==
    \A c \in Callers :
        /\ fetch[c] # "none" <=> pc[c] = "establish"
        /\ fetched[c] <= live
        /\ fetch[c] = "got" => fetched[c] # 0
        /\ pc[c] = "reread" => cache # 0 /\ op[c].kind \in {"bind", "schema"}

(* A request is answered once, the answer is what an admin command returns after  *)
(* its refresh, and an answer that says so means it was applied.                  *)
ReplyInv ==
    \A c \in Callers :
        /\ c \in wire \/ pc[c] \in {"idle", "reread"} => reply[c] = "none"
        /\ pc[c] = "establish" => (reply[c] # "none" <=> IsAdmin(c))
        /\ IsAdmin(c) /\ reply[c] = "ok" => applied[c] # 0
        /\ IsAdmin(c) /\ result[c] = "ok" => reply[c] = "ok"

(* What an admin command did is in the document published for it and in the later *)
(* ones: versions only grow, and only a searchDelete removes a search.            *)
EffectInv ==
    \A c \in Callers : IsAdmin(c) /\ applied[c] # 0 =>
        \A n \in applied[c] .. live :
            /\ op[c].kind = "ensure" => catalog[n].schemas[Named(c)] >= Wanted(c)
            /\ (op[c].kind = "searchEnsure" /\ Named(c) \notin catalog[n].searches) =>
                   \E d \in Callers :
                       op[d].kind = "searchDelete" /\ Named(d) = Named(c) /\ applied[d] > applied[c]

(* The refresh of an applied command gets a document at least as late; after its  *)
(* store only such documents are cached or about to be, unless the call raced.    *)
FreshInv ==
    \A c \in Callers : IsAdmin(c) /\ reply[c] = "ok" =>
        /\ fetch[c] = "got" => fetched[c] >= applied[c]
        /\ c \notin raced /\ result[c] = "ok" =>
               /\ cache >= applied[c]
               /\ \A d \in Callers : fetch[d] = "got" => fetched[d] >= applied[c]

(* Between its store and its read of the cache, a Bind that did not race has the  *)
(* document it validated.                                                        *)
ValidatedInv ==
    \A c \in Callers \ raced :
        pc[c] = "reread" /\ op[c].kind = "bind" => Matches(catalog[cache], op[c].wants)

Inv ==
    /\ TypeOK /\ FetchInv /\ ReplyInv
    /\ EffectInv /\ FreshInv
    /\ ValidatedInv /\ BoundUnlessRaced

LEMMA OpType ==
    ASSUME TypeOK, NEW c \in Callers
    PROVE  /\ op[c].kind \in {"establish", "bind", "schema"} \cup Admin
           /\ op[c].kind # "establish" =>
                  /\ Named(c) \in Collections
                  /\ DOMAIN op[c].wants = {Named(c)}
                  /\ Wanted(c) \in 1 .. MaxSchema
<1>1. IsOp(op[c])
    BY CatalogAssumption DEF TypeOK
<1>2. op[c].kind \in {"establish", "bind", "schema"} \cup Admin
    BY <1>1 DEF IsOp
<1>3. ASSUME op[c].kind # "establish"
      PROVE  /\ Named(c) \in Collections
             /\ DOMAIN op[c].wants = {Named(c)}
    BY <1>1, <1>3 DEF IsOp, Named
<1>4. ASSUME op[c].kind # "establish"
      PROVE  Wanted(c) \in 1 .. MaxSchema
    <2>1. op[c].wants[Named(c)] \in Range(op[c].wants)
        BY <1>3, <1>4 DEF Range
    <2> QED
        BY <1>1, <2>1 DEF IsOp, Wanted
<1> QED
    BY <1>2, <1>3, <1>4

(* The names and the wanted versions never change. *)
LEMMA OpUnchanged ==
    ASSUME UNCHANGED op
    PROVE  \A c : /\ Named(c)' = Named(c)
                  /\ Wanted(c)' = Wanted(c)
                  /\ IsAdmin(c)' = IsAdmin(c)
                  /\ Declared(c)' = Declared(c)
BY DEF Named, Wanted, IsAdmin, Declared

LEMMA InvInit == Init => Inv
<1> SUFFICES ASSUME Init
             PROVE  Inv
    OBVIOUS
<1>1. PICK document \in Catalogs : catalog = <<document>>
    BY DEF Init
<1>2. catalog \in Seq(Catalogs) /\ Len(catalog) = 1 /\ live = 1
    BY <1>1 DEF Init, CacheInit
<1>3. TypeOK
    BY <1>2, CatalogAssumption DEF Init, CacheInit, TypeOK, CacheTypeOK, FetchStates, Results
<1>4. FetchInv /\ ReplyInv /\ EffectInv /\ FreshInv /\ ValidatedInv /\ BoundUnlessRaced
    BY <1>2 DEF Init, CacheInit, FetchInv, ReplyInv, EffectInv, FreshInv, ValidatedInv,
                BoundUnlessRaced, IsAdmin
<1> QED
    BY <1>3, <1>4 DEF Inv

-------------------------------------------------------------------------------
(* Types. *)

PcStates == {"idle", "wait", "establish", "reread", "done"}

CallType ==
    /\ pc \in [Callers -> PcStates]
    /\ result \in [Callers -> Results]
    /\ \A c \in Callers : pc[c] = "done" <=> result[c] # "none"

LEMMA ReturnType ==
    ASSUME CallType, NEW c \in Callers, NEW r \in Results \ {"none"}, Return(c, r)
    PROVE  CallType'
BY DEF CallType, Return, PcStates

LEMMA GotoType ==
    ASSUME CallType, NEW c \in Callers, pc[c] # "done",
           NEW where \in PcStates \ {"done"},
           pc' = [pc EXCEPT ![c] = where], UNCHANGED result
    PROVE  CallType'
BY DEF CallType

(* A document that can be cached has a schema version for every collection. *)
LEMMA DocumentType ==
    ASSUME TypeOK, NEW n \in 1 .. live
    PROVE  /\ catalog[n] \in Catalogs
           /\ \A col \in Collections : catalog[n].schemas[col] \in 0 .. MaxSchema
<1>1. catalog[n] \in Catalogs
    BY DEF TypeOK, CacheTypeOK
<1> QED
    BY <1>1 DEF Catalogs

(* A fetch keeps the types of the cache and of the calls. *)
LEMMA FetchType ==
    ASSUME Inv, NEW c \in Callers, pc[c] # "done", Fetch(c), UNCHANGED result
    PROVE  CacheTypeOK' /\ CallType' /\ UNCHANGED <<live, cache>>
<1>1. CacheTypeOK /\ CallType
    BY DEF Inv, TypeOK, CallType, PcStates
<1>2. CallType'
    BY <1>1, GotoType DEF Fetch, PcStates
<1>3. CacheTypeOK' /\ UNCHANGED <<live, cache>>
    BY <1>1 DEF Fetch, Ask, CacheTypeOK, FetchStates
<1> QED
    BY <1>2, <1>3

LEMMA RequestType ==
    ASSUME Inv, NEW c \in Callers, pc[c] # "done", Request(c)
    PROVE  TypeOK'
<1>1. TypeOK /\ CallType
    BY DEF Inv, TypeOK, CallType, PcStates
<1>2. CallType'
    BY <1>1, GotoType DEF Request, PcStates
<1>3. wire' \subseteq Callers
    BY <1>1 DEF Request, TypeOK
<1> QED
    BY <1>1, <1>2, <1>3 DEF Request, TypeOK, CallType, PcStates, cacheVars, CacheTypeOK

LEMMA StartType ==
    ASSUME Inv, NEW c \in Callers, Start(c)
    PROVE  TypeOK'
<1>1. TypeOK /\ CacheTypeOK /\ CallType
    BY DEF Inv, TypeOK, CallType, PcStates
<1>2. CASE BeginEstablish(c) \/ BeginBind(c) \/ BeginSchema(c)
    <2>1. CacheTypeOK' /\ CallType' /\ UNCHANGED <<live, cache>>
        BY <1>2, FetchType DEF BeginEstablish, BeginBind, BeginSchema
    <2> QED
        BY <1>1, <1>2, <2>1
           DEF BeginEstablish, BeginBind, BeginSchema, serverVars, TypeOK, CallType, PcStates
<1>3. CASE BindCached(c)
    <2>1. Named(c) \in Collections /\ cache \in 1 .. live
        BY <1>1, <1>3, OpType DEF BindCached, TypeOK, CacheTypeOK
    <2>2. catalog[cache].schemas[Named(c)] \in 0 .. MaxSchema
        BY <1>1, <2>1, DocumentType
    <2>3. bound' \in [Callers -> 0 .. MaxSchema]
        BY <1>1, <1>3, <2>2 DEF BindCached, TypeOK
    <2>4. CallType'
        BY <1>1, <1>3, ReturnType DEF BindCached, Results
    <2> QED
        BY <1>1, <1>3, <2>3, <2>4
           DEF BindCached, cacheVars, serverVars, TypeOK, CacheTypeOK, CallType, PcStates
<1>4. CASE pc[c] = "idle" /\ RequestSchema(c)
    BY <1>4, RequestType DEF RequestSchema
<1>5. CASE BeginAdmin(c)
    BY <1>5, RequestType DEF BeginAdmin
<1> QED
    BY <1>2, <1>3, <1>4, <1>5 DEF Start

LEMMA StoreType ==
    ASSUME Inv, NEW c \in Callers, Store(c)
    PROVE  CacheTypeOK' /\ cache' \in 1 .. live /\ live' = live
BY DEF Inv, TypeOK, FetchInv, Store, CacheTypeOK, FetchStates

LEMMA ProceedType ==
    ASSUME Inv, NEW c \in Callers, Proceed(c)
    PROVE  TypeOK'
<1>1. TypeOK /\ CacheTypeOK /\ CallType
    BY DEF Inv, TypeOK, CallType, PcStates
<1>2. CASE EstablishmentAnswers(c)
    <2>1. CacheTypeOK' /\ UNCHANGED <<live, cache>>
        BY <1>1, <1>2 DEF EstablishmentAnswers, Served, FetchFails, CacheTypeOK, FetchStates
    <2> QED
        BY <1>1, <1>2, <2>1 DEF EstablishmentAnswers, clientVars, serverVars, TypeOK
<1>3. CASE ReceiveAdmin(c)
    <2>1. CacheTypeOK' /\ CallType' /\ UNCHANGED <<live, cache>>
        BY <1>3, FetchType DEF ReceiveAdmin
    <2> QED
        BY <1>1, <1>3, <2>1 DEF ReceiveAdmin, serverVars, TypeOK, CallType, PcStates
<1>4. CASE ReceiveSchema(c)
    <2>1. reply[c] \in Results \ {"none"}
        BY <1>1, <1>4 DEF ReceiveSchema, TypeOK, Results
    <2>2. CallType'
        BY <1>1, <1>4, <2>1, ReturnType DEF ReceiveSchema
    <2> QED
        BY <1>1, <1>4, <2>2
           DEF ReceiveSchema, cacheVars, serverVars, TypeOK, CacheTypeOK, CallType, PcStates
<1>5. CASE RequestFails(c)
    <2>1. CallType'
        BY <1>1, <1>5, ReturnType DEF RequestFails, Results
    <2> QED
        BY <1>1, <1>5, <2>1
           DEF RequestFails, cacheVars, serverVars, TypeOK, CacheTypeOK, CallType, PcStates
<1>6. CASE Establish(c)
    <2>1. CacheTypeOK' /\ cache' \in 1 .. live /\ live' = live
        BY <1>6, StoreType DEF Establish
    <2>2. IsAdmin(c) => reply[c] \in Results \ {"none"}
        BY <1>1, <1>6 DEF Establish, Inv, ReplyInv, TypeOK, Results
    <2>3. CallType'
        <3>1. CASE op[c].kind \in {"bind", "schema"}
            BY <1>1, <1>6, <3>1, GotoType DEF Establish, PcStates
        <3>2. CASE op[c].kind \notin {"bind", "schema"}
            BY <1>1, <1>6, <2>2, <3>2, ReturnType DEF Establish, IsAdmin, Results
        <3> QED
            BY <3>1, <3>2
    <2>4. raced' \subseteq Callers
        BY <1>1, <1>6 DEF Establish, TypeOK
    <2> QED
        BY <1>1, <1>6, <2>1, <2>3, <2>4 DEF Establish, serverVars, TypeOK, CallType, PcStates
<1>7. CASE EstablishFails(c)
    <2>1. CacheTypeOK' /\ UNCHANGED <<live, cache>>
        BY <1>1, <1>7 DEF EstablishFails, Discard, CacheTypeOK, FetchStates
    <2>2. CallType'
        BY <1>1, <1>7, ReturnType DEF EstablishFails, Results
    <2> QED
        BY <1>1, <1>7, <2>1, <2>2 DEF EstablishFails, serverVars, TypeOK, CallType, PcStates
<1>8. CASE CompileSchema(c)
    <2>1. Named(c) \in Collections /\ cache \in 1 .. live
        BY <1>1, <1>8, OpType DEF CompileSchema, Inv, FetchInv, TypeOK, CacheTypeOK
    <2>2. catalog[cache].schemas[Named(c)] \in 0 .. MaxSchema
        BY <1>1, <2>1, DocumentType
    <2>3. bound' \in [Callers -> 0 .. MaxSchema]
        BY <1>1, <1>8, <2>2 DEF CompileSchema, TypeOK
    <2>4. CallType'
        BY <1>1, <1>8, ReturnType DEF CompileSchema, Results
    <2> QED
        BY <1>1, <1>8, <2>3, <2>4
           DEF CompileSchema, cacheVars, serverVars, TypeOK, CacheTypeOK, CallType, PcStates
<1>9. CASE pc[c] # "idle" /\ RequestSchema(c)
    BY <1>9, RequestType DEF RequestSchema, Inv, FetchInv
<1> QED
    BY <1>2, <1>3, <1>4, <1>5, <1>6, <1>7, <1>8, <1>9 DEF Proceed

-------------------------------------------------------------------------------
(* The steps of the calls. *)

LEMMA ClientUnchanged ==
    ASSUME NEW c \in Callers, Start(c) \/ Proceed(c)
    PROVE  UNCHANGED <<op, live, catalog, applied>>
BY DEF Start, Proceed, BeginEstablish, BeginBind, BindCached, BeginSchema, RequestSchema,
       BeginAdmin, EstablishmentAnswers, ReceiveAdmin, ReceiveSchema, RequestFails, Establish,
       EstablishFails, CompileSchema, Request, Fetch, Ask, Served, FetchFails, Store, Discard,
       cacheVars, serverVars, clientVars

LEMMA EffectUnchanged ==
    ASSUME EffectInv, UNCHANGED <<op, live, catalog, applied>>
    PROVE  EffectInv'
BY OpUnchanged DEF EffectInv

(* Every step but the store of an Establish leaves the cache as it is. *)
LEMMA CacheUnchanged ==
    ASSUME NEW c \in Callers, Start(c) \/ Proceed(c), ~ Establish(c)
    PROVE  UNCHANGED <<cache, raced>>
BY DEF Start, Proceed, BeginEstablish, BeginBind, BindCached, BeginSchema, RequestSchema,
       BeginAdmin, EstablishmentAnswers, ReceiveAdmin, ReceiveSchema, RequestFails,
       EstablishFails, CompileSchema, Request, Fetch, Ask, Served, FetchFails, Discard,
       cacheVars, serverVars, clientVars

LEMMA FetchStep ==
    ASSUME Inv, NEW c \in Callers, Start(c) \/ Proceed(c)
    PROVE  FetchInv'
<1>1. TypeOK /\ CacheTypeOK /\ FetchInv
    BY DEF Inv, TypeOK
<1>2. op' = op /\ live' = live
    BY ClientUnchanged
<1>3. CASE BeginEstablish(c) \/ BeginBind(c) \/ BeginSchema(c) \/ ReceiveAdmin(c)
    BY <1>1, <1>2, <1>3
       DEF BeginEstablish, BeginBind, BeginSchema, ReceiveAdmin, Fetch, Ask, TypeOK, CacheTypeOK,
           FetchInv, FetchStates, Admin
<1>4. CASE BindCached(c) \/ ReceiveSchema(c) \/ RequestFails(c) \/ CompileSchema(c)
    BY <1>1, <1>2, <1>4
       DEF BindCached, ReceiveSchema, RequestFails, CompileSchema, Return, cacheVars, TypeOK,
           FetchInv, FetchStates
<1>5. CASE BeginAdmin(c) \/ RequestSchema(c)
    BY <1>1, <1>2, <1>5
       DEF BeginAdmin, RequestSchema, Request, Return, cacheVars, TypeOK, FetchInv, FetchStates
<1>6. CASE EstablishmentAnswers(c)
    BY <1>1, <1>2, <1>6
       DEF EstablishmentAnswers, Served, FetchFails, clientVars, TypeOK, CacheTypeOK, FetchInv,
           FetchStates
<1>7. CASE Establish(c)
    BY <1>1, <1>2, <1>7
       DEF Establish, Store, Return, TypeOK, CacheTypeOK, FetchInv, FetchStates
<1>8. CASE EstablishFails(c)
    BY <1>1, <1>2, <1>8
       DEF EstablishFails, Discard, Return, TypeOK, CacheTypeOK, FetchInv, FetchStates
<1> QED
    BY <1>3, <1>4, <1>5, <1>6, <1>7, <1>8 DEF Start, Proceed

LEMMA ReplyStep ==
    ASSUME Inv, NEW c \in Callers, Start(c) \/ Proceed(c)
    PROVE  ReplyInv'
<1>1. TypeOK /\ ReplyInv /\ FetchInv
    BY DEF Inv, TypeOK
<1>2. op' = op /\ applied' = applied /\ \A d : IsAdmin(d)' = IsAdmin(d)
    BY ClientUnchanged, OpUnchanged
<1>3. CASE BeginEstablish(c) \/ BeginBind(c) \/ BeginSchema(c) \/ ReceiveAdmin(c)
    BY <1>1, <1>2, <1>3
       DEF BeginEstablish, BeginBind, BeginSchema, ReceiveAdmin, Fetch, serverVars, TypeOK,
           ReplyInv, IsAdmin, Admin
<1>4. CASE BindCached(c) \/ ReceiveSchema(c) \/ RequestFails(c) \/ CompileSchema(c)
    BY <1>1, <1>2, <1>4
       DEF BindCached, ReceiveSchema, RequestFails, CompileSchema, Return, serverVars, TypeOK,
           ReplyInv, IsAdmin, Admin
<1>5. CASE BeginAdmin(c) \/ RequestSchema(c)
    BY <1>1, <1>2, <1>5
       DEF BeginAdmin, RequestSchema, Request, Return, serverVars, TypeOK, ReplyInv, FetchInv,
           IsAdmin, Admin
<1>6. CASE EstablishmentAnswers(c)
    BY <1>1, <1>2, <1>6
       DEF EstablishmentAnswers, clientVars, serverVars, TypeOK, ReplyInv
<1>7. CASE Establish(c)
    BY <1>1, <1>2, <1>7
       DEF Establish, Return, serverVars, TypeOK, ReplyInv, IsAdmin, Admin
<1>8. CASE EstablishFails(c)
    BY <1>1, <1>2, <1>8
       DEF EstablishFails, Return, serverVars, TypeOK, ReplyInv, IsAdmin, Admin
<1> QED
    BY <1>3, <1>4, <1>5, <1>6, <1>7, <1>8 DEF Start, Proceed

(* Only the answer to a fetch and a store can disturb what is fresh. *)
LEMMA FreshStep ==
    ASSUME Inv, NEW c \in Callers, Start(c) \/ Proceed(c)
    PROVE  FreshInv'
<1>1. TypeOK /\ CacheTypeOK /\ FetchInv /\ ReplyInv /\ FreshInv
    BY DEF Inv, TypeOK
<1>2. UNCHANGED <<op, live, applied>> /\ \A d : IsAdmin(d)' = IsAdmin(d)
    BY ClientUnchanged, OpUnchanged
<1>3. \A d \in Callers : applied[d] \in Nat /\ live \in Nat /\ applied[d] <= live
    BY <1>1 DEF TypeOK, CacheTypeOK
<1>4. CASE EstablishmentAnswers(c)
    BY <1>1, <1>2, <1>3, <1>4
       DEF EstablishmentAnswers, Served, FetchFails, clientVars, CacheTypeOK, FetchStates, FreshInv
<1>5. CASE Establish(c)
    <2>1. /\ UNCHANGED reply
          /\ cache' = fetched[c]
          /\ fetch' = [fetch EXCEPT ![c] = "none"]
          /\ UNCHANGED fetched
          /\ fetch[c] = "got"
          /\ raced \subseteq raced'
        BY <1>5 DEF Establish, Store
    <2>2. ASSUME NEW a \in Callers, IsAdmin(a), reply[a] = "ok", a \notin raced',
                 result'[a] = "ok"
          PROVE  /\ cache' >= applied[a]
                 /\ \A d \in Callers : fetch'[d] = "got" => fetched[d] >= applied[a]
        <3>1. CASE a = c
            <4>1. fetched[c] >= applied[c]
                BY <1>1, <2>1, <2>2, <3>1 DEF FreshInv
            <4>2. \A d \in Callers \ {c} : fetch[d] = "got" => ~ (fetched[d] < fetched[c])
                BY <1>5, <2>2, <3>1 DEF Establish
            <4> QED
                BY <1>1, <1>3, <2>1, <3>1, <4>1, <4>2 DEF CacheTypeOK
        <3>2. CASE a # c
            <4>1. result[a] = "ok"
                BY <1>1, <1>5, <2>2, <3>2 DEF Establish, Return, TypeOK
            <4> QED
                BY <1>1, <2>1, <2>2, <4>1 DEF FreshInv, CacheTypeOK
        <3> QED
            BY <3>1, <3>2
    <2>3. ASSUME NEW a \in Callers, IsAdmin(a), reply[a] = "ok", fetch'[a] = "got"
          PROVE  fetched'[a] >= applied[a]
        BY <1>1, <2>1, <2>3 DEF FreshInv, CacheTypeOK
    <2> QED
        BY <1>2, <2>1, <2>2, <2>3 DEF FreshInv
<1>6. CASE ~ EstablishmentAnswers(c) /\ ~ Establish(c)
    <2>1. UNCHANGED <<cache, raced>>
        BY <1>6, CacheUnchanged
    <2>2. /\ UNCHANGED <<reply, fetched>>
          /\ \A d \in Callers : fetch'[d] = "got" => fetch[d] = "got"
        BY <1>1, <1>6
           DEF Start, Proceed, BeginEstablish, BeginBind, BindCached, BeginSchema, RequestSchema,
               BeginAdmin, ReceiveAdmin, ReceiveSchema, RequestFails, EstablishFails,
               CompileSchema, Request, Fetch, Ask, Discard, cacheVars, CacheTypeOK
    <2>3. ASSUME NEW a \in Callers, IsAdmin(a), result'[a] = "ok"
          PROVE  result[a] = "ok"
        BY <1>1, <1>6, <2>3
           DEF Start, Proceed, BeginEstablish, BeginBind, BindCached, BeginSchema, RequestSchema,
               BeginAdmin, ReceiveAdmin, ReceiveSchema, RequestFails, EstablishFails,
               CompileSchema, Request, Return, TypeOK, IsAdmin, Admin
    <2> QED
        BY <1>1, <1>2, <2>1, <2>2, <2>3 DEF FreshInv
<1> QED
    BY <1>4, <1>5, <1>6

(* A document that matches what a Bind wants has the wanted version. *)
LEMMA MatchesWanted ==
    ASSUME TypeOK, NEW c \in Callers, op[c].kind = "bind", NEW document,
           Matches(document, op[c].wants)
    PROVE  document.schemas[Named(c)] = Wanted(c)
BY OpType DEF Matches, Wanted

LEMMA BoundStep ==
    ASSUME Inv, NEW c \in Callers, Start(c) \/ Proceed(c)
    PROVE  ValidatedInv' /\ BoundUnlessRaced'
<1>1. TypeOK /\ FetchInv /\ ValidatedInv /\ BoundUnlessRaced
    BY DEF Inv
<1>2. UNCHANGED <<op, live, catalog>> /\ \A d : Wanted(d)' = Wanted(d) /\ Named(d)' = Named(d)
    BY ClientUnchanged, OpUnchanged
<1>3. CASE Establish(c)
    <2>1. /\ raced \subseteq raced'
          /\ \A d \in Callers \ {c} : pc[d] = "reread" => d \in raced'
        BY <1>3 DEF Establish
    <2>2. UNCHANGED bound /\ cache' = fetched[c] /\ Matches(catalog[fetched[c]], Declared(c))
        BY <1>3 DEF Establish, Store
    <2>3. \A d \in Callers \ {c} : pc'[d] = pc[d] /\ result'[d] = result[d]
        BY <1>1, <1>3 DEF Establish, Return, TypeOK
    <2>4. op[c].kind = "bind" => Declared(c) = op[c].wants /\ result'[c] = result[c]
        BY <1>3 DEF Establish, Declared
    <2>5. ValidatedInv'
        BY <1>1, <1>2, <2>1, <2>2, <2>3, <2>4 DEF ValidatedInv
    <2>6. BoundUnlessRaced'
        BY <1>1, <1>2, <2>1, <2>2, <2>3, <2>4 DEF BoundUnlessRaced
    <2> QED
        BY <2>5, <2>6
<1>4. CASE ~ Establish(c)
    <2>1. UNCHANGED <<cache, raced>>
        BY <1>4, CacheUnchanged
    <2>2. \A d \in Callers : pc'[d] = "reread" => pc[d] = "reread"
        BY <1>1, <1>4
           DEF Start, Proceed, BeginEstablish, BeginBind, BindCached, BeginSchema, RequestSchema,
               BeginAdmin, EstablishmentAnswers, ReceiveAdmin, ReceiveSchema, RequestFails,
               EstablishFails, CompileSchema, Request, Fetch, Return, clientVars, TypeOK
    <2>3. ValidatedInv'
        BY <1>1, <1>2, <2>1, <2>2 DEF ValidatedInv
    <2>4. CASE BindCached(c)
        <3>1. Matches(catalog[cache], op[c].wants) =>
                  catalog[cache].schemas[Named(c)] = Wanted(c)
            BY <1>1, <2>4, MatchesWanted DEF BindCached
        <3>2. result'[c] = "ok" => bound'[c] = Wanted(c)
            BY <1>1, <2>4, <3>1 DEF BindCached, Return, TypeOK
        <3>3. \A d \in Callers \ {c} : result'[d] = result[d] /\ bound'[d] = bound[d]
            BY <1>1, <2>4 DEF BindCached, Return, TypeOK
        <3> QED
            BY <1>1, <1>2, <2>1, <2>3, <3>2, <3>3 DEF BoundUnlessRaced
    <2>5. CASE CompileSchema(c)
        <3>1. c \notin raced => catalog[cache].schemas[Named(c)] = Wanted(c)
            BY <1>1, <2>5, MatchesWanted DEF CompileSchema, ValidatedInv
        <3>2. c \notin raced /\ result'[c] = "ok" => bound'[c] = Wanted(c)
            BY <1>1, <2>5, <3>1 DEF CompileSchema, Return, TypeOK
        <3>3. \A d \in Callers \ {c} : result'[d] = result[d] /\ bound'[d] = bound[d]
            BY <1>1, <2>5 DEF CompileSchema, Return, TypeOK
        <3> QED
            BY <1>1, <1>2, <2>1, <2>3, <3>2, <3>3 DEF BoundUnlessRaced
    <2>6. CASE ~ BindCached(c) /\ ~ CompileSchema(c)
        <3>1. UNCHANGED bound
            BY <1>4, <2>6
               DEF Start, Proceed, BeginEstablish, BeginBind, BeginSchema, RequestSchema,
                   BeginAdmin, EstablishmentAnswers, ReceiveAdmin, ReceiveSchema, RequestFails,
                   EstablishFails, Request, clientVars
        <3>2. \A d \in Callers : op[d].kind = "bind" /\ result'[d] = "ok" => result[d] = "ok"
            BY <1>1, <1>4, <2>6
               DEF Start, Proceed, BeginEstablish, BeginBind, BeginSchema, RequestSchema,
                   BeginAdmin, EstablishmentAnswers, ReceiveAdmin, ReceiveSchema, RequestFails,
                   EstablishFails, Request, Return, clientVars, TypeOK
        <3> QED
            BY <1>1, <1>2, <2>1, <2>3, <3>1, <3>2 DEF BoundUnlessRaced
    <2> QED
        BY <2>3, <2>4, <2>5, <2>6
<1> QED
    BY <1>3, <1>4

-------------------------------------------------------------------------------
(* The steps of the establishment server. *)

(* Every document published for an admin command has the versions of the one       *)
(* before it or later ones, and its searches, unless the command deletes one.      *)
Succeeds(c, current, document) ==
    /\ \A col \in Collections : document.schemas[col] >= current.schemas[col]
    /\ \A col \in current.searches \ document.searches :
           op[c].kind = "searchDelete" /\ col = Named(c)

(* The document has what the command asks for. *)
HasEffect(c, document) ==
    /\ op[c].kind = "ensure" => document.schemas[Named(c)] >= Wanted(c)
    /\ op[c].kind = "searchEnsure" => Named(c) \in document.searches

LEMMA PublishType ==
    ASSUME TypeOK, NEW document \in Catalogs, Publish(document)
    PROVE  /\ catalog' \in Seq(Catalogs)
           /\ live' = live + 1
           /\ Len(catalog') = live'
           /\ \A n \in 1 .. live : catalog'[n] = catalog[n]
           /\ catalog'[live'] = document
<1>1. catalog \in Seq(Catalogs) /\ live = Len(catalog)
    BY DEF TypeOK
<1> QED
    BY <1>1 DEF Publish

LEMMA ApplyStep ==
    ASSUME Inv, NEW c \in Callers, IsAdmin(c),
           IF op[c].kind = "ensure"
           THEN EnsureCollection(c, catalog[live])
           ELSE ChangeSearch(c, catalog[live])
    PROVE  /\ catalog' \in Seq(Catalogs)
           /\ live' \in {live, live + 1}
           /\ Len(catalog') = live'
           /\ \A n \in 1 .. live : catalog'[n] = catalog[n]
           /\ Succeeds(c, catalog[live], catalog'[live'])
           /\ HasEffect(c, catalog'[live'])
<1> DEFINE current == catalog[live]
           col == Named(c)
<1>1. TypeOK /\ live \in Nat \ {0} /\ live = Len(catalog) /\ catalog \in Seq(Catalogs)
    BY DEF Inv, TypeOK, CacheTypeOK
<1>2. col \in Collections /\ Wanted(c) \in 1 .. MaxSchema
    BY <1>1, OpType DEF IsAdmin, Admin
<1>3. current \in Catalogs
    BY <1>1
<1>4. /\ current.schemas \in [Collections -> 0 .. MaxSchema]
      /\ current.searches \in SUBSET Collections
    BY <1>3 DEF Catalogs
<1>5. CASE UNCHANGED <<catalog, live>> /\ HasEffect(c, current)
    <2>1. Succeeds(c, current, current)
        BY <1>4 DEF Succeeds
    <2> QED
        BY <1>1, <1>5, <2>1
<1>6. CASE \E document \in Catalogs :
               Publish(document) /\ Succeeds(c, current, document) /\ HasEffect(c, document)
    BY <1>1, <1>6, PublishType
<1>7. CASE op[c].kind = "ensure"
    <2> DEFINE document == [current EXCEPT !.schemas[col] = Wanted(c)]
    <2>1. CASE Wanted(c) = current.schemas[col] + 1 /\ Publish(document)
        <3>1. document = [schemas |-> [current.schemas EXCEPT ![col] = Wanted(c)],
                          searches |-> current.searches]
            BY <1>3 DEF Catalogs
        <3>2. document \in Catalogs
            BY <1>2, <1>4, <3>1 DEF Catalogs
        <3>3. Succeeds(c, current, document) /\ HasEffect(c, document)
            BY <1>2, <1>4, <1>7, <2>1, <3>1 DEF Succeeds, HasEffect
        <3> QED
            BY <1>6, <2>1, <3>2, <3>3
    <2>2. CASE Wanted(c) = current.schemas[col] /\ UNCHANGED <<catalog, live>>
        BY <1>2, <1>4, <1>5, <1>7, <2>2 DEF HasEffect
    <2> QED
        BY <1>7, <2>1, <2>2 DEF EnsureCollection
<1>8. CASE op[c].kind # "ensure"
    <2> DEFINE ensure == op[c].kind = "searchEnsure"
               searches == IF ensure THEN current.searches \cup {col}
                                     ELSE current.searches \ {col}
               document == [current EXCEPT !.searches = searches]
    <2>1. op[c].kind \in {"searchEnsure", "searchDelete"}
        BY <1>8 DEF IsAdmin, Admin
    <2>2. CASE (col \in current.searches) = ensure /\ UNCHANGED <<catalog, live>>
        BY <1>5, <2>1, <2>2 DEF HasEffect
    <2>3. CASE Publish(document)
        <3>1. document = [schemas |-> current.schemas, searches |-> searches]
            <4>1. \A t \in Catalogs : \A x :
                      [t EXCEPT !.searches = x] = [schemas |-> t.schemas, searches |-> x]
                BY DEF Catalogs
            <4> HIDE DEF current, searches
            <4> QED
                BY <1>3, <4>1
        <3>2. document \in Catalogs
            BY <1>2, <1>4, <3>1 DEF Catalogs
        <3>3. Succeeds(c, current, document) /\ HasEffect(c, document)
            BY <1>2, <1>4, <2>1, <3>1 DEF Succeeds, HasEffect
        <3> QED
            BY <1>6, <2>3, <3>2, <3>3
    <2> QED
        BY <1>8, <2>2, <2>3 DEF ChangeSearch
<1> QED
    BY <1>7, <1>8

(* Whatever the server answers, and with or without a new document. *)
LEMMA AnswerStep ==
    ASSUME Inv, NEW c \in wire, NEW r \in {"ok", "refused"}, Answer(c, r), wire' = wire \ {c},
           UNCHANGED <<cache, fetch, fetched, op, pc, bound, result, raced>>,
           catalog' \in Seq(Catalogs), live' \in {live, live + 1}, Len(catalog') = live',
           \A n \in 1 .. live : catalog'[n] = catalog[n],
           applied' = applied \/ applied' = [applied EXCEPT ![c] = live'],
           IsAdmin(c) /\ r = "ok" => applied' = [applied EXCEPT ![c] = live'],
           EffectInv'
    PROVE  Inv'
<1>1. /\ TypeOK /\ CacheTypeOK /\ FetchInv /\ ReplyInv /\ FreshInv
      /\ ValidatedInv /\ BoundUnlessRaced
    BY DEF Inv, TypeOK
<1>2. c \in Callers /\ live \in Nat \ {0} /\ live' \in Nat \ {0} /\ live <= live' /\ cache <= live
    BY <1>1 DEF TypeOK, CacheTypeOK
<1>3. \A d : Named(d)' = Named(d) /\ Wanted(d)' = Wanted(d) /\ IsAdmin(d)' = IsAdmin(d)
    BY OpUnchanged
<1>4. /\ \A d \in Callers \ {c} : reply'[d] = reply[d] /\ applied'[d] = applied[d]
      /\ reply'[c] # "none" => pc[c] = "wait"
      /\ reply'[c] = "ok" => r = "ok"
      /\ reply[c] = "none"
      /\ reply' \in [Callers -> {"none", "ok", "refused"}]
    <2>1. reply[c] = "none"
        BY <1>1, <1>2 DEF ReplyInv
    <2>2. /\ \A d \in Callers \ {c} : reply'[d] = reply[d]
          /\ reply'[c] # "none" => pc[c] = "wait"
          /\ reply'[c] = "ok" => r = "ok"
          /\ reply' \in [Callers -> {"none", "ok", "refused"}]
        <3>1. reply \in [Callers -> {"none", "ok", "refused"}]
            BY <1>1 DEF TypeOK
        <3>2. \/ pc[c] = "wait" /\ reply' = [reply EXCEPT ![c] = r]
              \/ reply' = reply
            BY DEF Answer
        <3> QED
            BY <1>2, <2>1, <3>1, <3>2
    <2>3. \A d \in Callers \ {c} : applied'[d] = applied[d]
        BY <1>1 DEF TypeOK
    <2> QED
        BY <2>1, <2>2, <2>3
<1>5. applied' \in [Callers -> 0 .. live']
    <2>1. applied \in [Callers -> 0 .. live'] /\ live' \in 0 .. live'
        BY <1>1, <1>2 DEF TypeOK
    <2> QED
        BY <2>1
<1>6. TypeOK'
    BY <1>1, <1>2, <1>4, <1>5 DEF TypeOK, CacheTypeOK
<1>7. FetchInv'
    BY <1>1, <1>2 DEF FetchInv, CacheTypeOK
<1>8. ReplyInv'
    <2>1. ASSUME NEW d \in Callers
          PROVE  /\ d \in wire' \/ pc[d] \in {"idle", "reread"} => reply'[d] = "none"
                 /\ pc[d] = "establish" => (reply'[d] # "none" <=> IsAdmin(d))
                 /\ IsAdmin(d) /\ reply'[d] = "ok" => applied'[d] # 0
                 /\ IsAdmin(d) /\ result[d] = "ok" => reply'[d] = "ok"
        <3>1. CASE d # c
            BY <1>1, <1>4, <3>1 DEF ReplyInv
        <3>2. CASE d = c
            <4>1. reply'[c] = "ok" /\ IsAdmin(c) => applied'[c] # 0
                BY <1>1, <1>2, <1>4 DEF TypeOK
            <4> QED
                BY <1>1, <1>4, <3>2, <4>1 DEF ReplyInv
        <3> QED
            BY <3>1, <3>2
    <2> QED
        BY <1>3, <2>1 DEF ReplyInv
<1>9. FreshInv'
    <2>1. ASSUME NEW a \in Callers, IsAdmin(a), reply'[a] = "ok"
          PROVE  /\ fetch[a] = "got" => fetched[a] >= applied'[a]
                 /\ a \notin raced /\ result[a] = "ok" =>
                        /\ cache >= applied'[a]
                        /\ \A d \in Callers : fetch[d] = "got" => fetched[d] >= applied'[a]
        <3>1. CASE a # c
            BY <1>1, <1>4, <2>1, <3>1 DEF FreshInv
        <3>2. CASE a = c
            <4>1. fetch[c] = "none" /\ result[c] = "none"
                BY <1>1, <1>2, <1>4, <2>1, <3>2 DEF FetchInv, TypeOK
            <4> QED
                BY <3>2, <4>1
        <3> QED
            BY <3>1, <3>2
    <2> QED
        BY <1>3, <2>1 DEF FreshInv
<1>10. ValidatedInv'
    BY <1>1, <1>2 DEF ValidatedInv, FetchInv, CacheTypeOK
<1>11. BoundUnlessRaced'
    BY <1>1, <1>3 DEF BoundUnlessRaced
<1> QED
    BY <1>6, <1>7, <1>8, <1>9, <1>10, <1>11 DEF Inv

LEMMA ServeAdminStep ==
    ASSUME Inv, NEW c \in Callers, ServeAdmin(c)
    PROVE  Inv'
<1>1. /\ TypeOK /\ EffectInv /\ IsAdmin(c) /\ c \in wire /\ wire' = wire \ {c}
      /\ catalog \in Seq(Catalogs) /\ live = Len(catalog) /\ live \in Nat \ {0}
    BY DEF Inv, TypeOK, CacheTypeOK, ServeAdmin, IsAdmin
<1>2. UNCHANGED <<cache, fetch, fetched, op, pc, bound, result, raced>>
    BY DEF ServeAdmin
<1>3. CASE Answer(c, "refused") /\ UNCHANGED <<catalog, live, applied>>
    BY <1>1, <1>2, <1>3, AnswerStep, EffectUnchanged
<1>4. CASE /\ IF op[c].kind = "ensure"
              THEN EnsureCollection(c, catalog[live])
              ELSE ChangeSearch(c, catalog[live])
           /\ Answer(c, "ok")
           /\ applied' = [applied EXCEPT ![c] = live']
    <2>1. /\ catalog' \in Seq(Catalogs)
          /\ live' \in {live, live + 1}
          /\ Len(catalog') = live'
          /\ \A n \in 1 .. live : catalog'[n] = catalog[n]
          /\ Succeeds(c, catalog[live], catalog'[live'])
          /\ HasEffect(c, catalog'[live'])
        BY <1>1, <1>4, ApplyStep
    <2>2. /\ live' \in Nat /\ live <= live'
          /\ applied'[c] = live'
          /\ \A d \in Callers \ {c} : applied'[d] = applied[d]
          /\ \A d \in Callers : applied[d] \in Nat /\ applied[d] <= live
        BY <1>1, <1>4, <2>1 DEF TypeOK
    <2>3. \A d : Named(d)' = Named(d) /\ Wanted(d)' = Wanted(d) /\ IsAdmin(d)' = IsAdmin(d)
        BY <1>2, OpUnchanged
    <2>4. ASSUME NEW a \in Callers, IsAdmin(a), applied'[a] # 0, NEW n \in applied'[a] .. live'
          PROVE  /\ op[a].kind = "ensure" => catalog'[n].schemas[Named(a)] >= Wanted(a)
                 /\ (op[a].kind = "searchEnsure" /\ Named(a) \notin catalog'[n].searches) =>
                        \E d \in Callers : /\ op[d].kind = "searchDelete" /\ Named(d) = Named(a)
                                           /\ applied'[d] > applied'[a]
        <3>1. CASE a = c
            <4>1. n = live'
                BY <2>2, <3>1
            <4> QED
                BY <2>1, <3>1, <4>1 DEF HasEffect
        <3>2. CASE a # c
            <4>1. applied'[a] = applied[a] /\ applied[a] # 0
                BY <2>2, <2>4, <3>2
            <4>2. \A m \in applied[a] .. live :
                      /\ op[a].kind = "ensure" => catalog[m].schemas[Named(a)] >= Wanted(a)
                      /\ (op[a].kind = "searchEnsure" /\ Named(a) \notin catalog[m].searches) =>
                             \E d \in Callers : /\ op[d].kind = "searchDelete"
                                                /\ Named(d) = Named(a)
                                                /\ applied[d] > applied[a]
                BY <1>1, <2>4, <4>1 DEF EffectInv
            <4>3. ASSUME NEW d \in Callers, applied[d] > applied[a]
                  PROVE  applied'[d] > applied'[a]
                BY <1>1, <2>2, <4>1, <4>3
            <4>4. CASE n <= live
                <5>1. n \in applied[a] .. live /\ catalog'[n] = catalog[n]
                    BY <2>1, <2>2, <4>1, <4>4
                <5> QED
                    BY <4>2, <4>3, <5>1
            <4>5. CASE n > live
                <5>1. n = live' /\ live \in applied[a] .. live /\ live' > applied[a]
                    BY <1>1, <2>1, <2>2, <4>1, <4>5
                <5>2. ASSUME op[a].kind = "ensure"
                      PROVE  catalog'[n].schemas[Named(a)] >= Wanted(a)
                    <6>1. Named(a) \in Collections /\ Wanted(a) \in Nat
                        BY <1>1, <5>2, OpType, CatalogAssumption
                    <6>2. catalog[live].schemas[Named(a)] \in Nat
                        BY <1>1, <6>1, DocumentType
                    <6>3. catalog'[live'].schemas[Named(a)] >= catalog[live].schemas[Named(a)]
                        BY <2>1, <6>1 DEF Succeeds
                    <6>4. catalog'[live'].schemas[Named(a)] \in Nat
                        <7>1. catalog'[live'] \in Catalogs
                            BY <1>1, <2>1, <2>2
                        <7> QED
                            BY <6>1, <7>1 DEF Catalogs
                    <6>5. catalog[live].schemas[Named(a)] >= Wanted(a)
                        BY <4>2, <5>1, <5>2
                    <6> QED
                        BY <5>1, <6>1, <6>2, <6>3, <6>4, <6>5
                <5>3. ASSUME op[a].kind = "searchEnsure", Named(a) \notin catalog'[n].searches
                      PROVE  \E d \in Callers : /\ op[d].kind = "searchDelete"
                                                /\ Named(d) = Named(a)
                                                /\ applied'[d] > applied'[a]
                    <6>1. CASE Named(a) \in catalog[live].searches
                        <7>1. op[c].kind = "searchDelete" /\ Named(c) = Named(a)
                            BY <2>1, <5>1, <5>3, <6>1 DEF Succeeds
                        <7> QED
                            BY <2>2, <4>1, <5>1, <7>1
                    <6>2. CASE Named(a) \notin catalog[live].searches
                        BY <4>2, <4>3, <5>1, <5>3, <6>2
                    <6> QED
                        BY <6>1, <6>2
                <5> QED
                    BY <5>2, <5>3
            <4> QED
                BY <1>1, <2>2, <4>4, <4>5
        <3> QED
            BY <3>1, <3>2
    <2>5. EffectInv'
        BY <1>2, <2>3, <2>4 DEF EffectInv
    <2> QED
        BY <1>1, <1>2, <1>4, <2>1, <2>5, AnswerStep
<1> QED
    BY <1>3, <1>4 DEF ServeAdmin

LEMMA ServeSchemaStep ==
    ASSUME Inv, NEW c \in Callers, ServeSchema(c)
    PROVE  Inv'
<1>1. /\ EffectInv /\ ~ IsAdmin(c) /\ c \in wire /\ wire' = wire \ {c}
      /\ catalog \in Seq(Catalogs) /\ live = Len(catalog)
    BY DEF Inv, TypeOK, ServeSchema, IsAdmin, Admin
<1>2. UNCHANGED <<cacheVars, catalog, applied, op, pc, bound, result, raced>>
    BY DEF ServeSchema
<1>3. PICK r \in {"ok", "refused"} : Answer(c, r)
    BY DEF ServeSchema
<1>4. EffectInv'
    BY <1>1, <1>2, EffectUnchanged DEF cacheVars
<1> QED
    BY <1>1, <1>2, <1>3, <1>4, AnswerStep DEF cacheVars

LEMMA InvHolds == Spec => []Inv
<1>1. ASSUME Inv, [Next]_vars
      PROVE  Inv'
    <2>1. ASSUME NEW c \in Callers, Start(c) \/ Proceed(c)
          PROVE  Inv'
        <3>1. TypeOK'
            BY <1>1, <2>1, StartType, ProceedType
        <3>2. EffectInv'
            BY <1>1, <2>1, ClientUnchanged, EffectUnchanged DEF Inv
        <3> QED
            BY <1>1, <2>1, <3>1, <3>2, FetchStep, ReplyStep, FreshStep, BoundStep DEF Inv
    <2>2. CASE UNCHANGED vars
        <3>1. UNCHANGED <<op, live, catalog, applied>>
            BY <2>2 DEF vars, cacheVars, serverVars, clientVars
        <3>2. EffectInv' /\ \A c : IsAdmin(c)' = IsAdmin(c) /\ Wanted(c)' = Wanted(c)
            BY <1>1, <3>1, EffectUnchanged, OpUnchanged DEF Inv
        <3> QED
            BY <1>1, <2>2, <3>2
               DEF vars, cacheVars, serverVars, clientVars, Inv, TypeOK, CacheTypeOK, FetchInv,
                   ReplyInv, FreshInv, ValidatedInv, BoundUnlessRaced
    <2> QED
        BY <1>1, <2>1, <2>2, ServeAdminStep, ServeSchemaStep DEF Next
<1> QED
    BY <1>1, InvInit, PTL DEF Spec

-------------------------------------------------------------------------------

(* The variables keep their types: no call panics for want of a cached document,   *)
(* and no document is cached that was not published.                              *)
THEOREM TypeCorrect == Spec => []TypeOK
<1>1. Inv => TypeOK
    BY DEF Inv
<1> QED
    BY <1>1, InvHolds, PTL

(* The cache, once filled, never goes back to nil. *)
THEOREM NeverNilAgainCorrect == Spec => NeverNilAgain
<1>1. ASSUME Inv, [Next]_vars
      PROVE  [cache # 0 => cache' # 0]_vars
    <2>1. ASSUME NEW c \in Callers, Start(c) \/ Proceed(c)
          PROVE  cache # 0 => cache' # 0
        BY <1>1, <2>1, CacheUnchanged, StoreType DEF Establish, Inv, TypeOK, CacheTypeOK
    <2>2. ASSUME NEW c \in Callers, ServeAdmin(c) \/ ServeSchema(c)
          PROVE  cache' = cache
        BY <2>2 DEF ServeAdmin, ServeSchema, cacheVars
    <2> QED
        BY <1>1, <2>1, <2>2 DEF Next
<1> QED
    BY <1>1, InvHolds, PTL DEF Spec, NeverNilAgain

(* What an admin command reported as applied is in the cached document, unless a   *)
(* later searchDelete undid it or an older document was fetched and not yet stored *)
(* when the refresh was.                                                          *)
THEOREM EnsureVisibleCorrect == Spec => []EnsureVisibleUnlessRaced
<1>1. ASSUME Inv
      PROVE  EnsureVisibleUnlessRaced
    <2> SUFFICES ASSUME NEW c \in Callers \ raced, IsAdmin(c), result[c] = "ok"
                 PROVE  /\ cache # 0 /\ cache >= applied[c]
                        /\ op[c].kind = "ensure" =>
                               catalog[cache].schemas[Named(c)] >= Wanted(c)
                        /\ (op[c].kind = "searchEnsure"
                            /\ Named(c) \notin catalog[cache].searches) =>
                               \E d \in Callers :
                                   /\ op[d].kind = "searchDelete" /\ Named(d) = Named(c)
                                   /\ applied[d] > applied[c]
        BY DEF EnsureVisibleUnlessRaced, IsAdmin
    <2>1. reply[c] = "ok" /\ applied[c] # 0
        BY <1>1 DEF Inv, ReplyInv
    <2>2. cache >= applied[c]
        BY <1>1, <2>1 DEF Inv, FreshInv
    <2>3. applied[c] \in Nat /\ cache \in Nat /\ live \in Nat /\ cache <= live
        BY <1>1 DEF Inv, TypeOK, CacheTypeOK
    <2>4. cache # 0 /\ cache \in applied[c] .. live
        BY <2>1, <2>2, <2>3
    <2> QED
        BY <1>1, <2>1, <2>2, <2>4 DEF Inv, EffectInv
<1> QED
    BY <1>1, InvHolds, PTL

(* A Bind that succeeds holds the version it declared, unless another call stored a *)
(* document between its Establish and its read of the cache.                       *)
THEOREM BoundUnlessRacedCorrect == Spec => []BoundUnlessRaced
<1>1. Inv => BoundUnlessRaced
    BY DEF Inv
<1> QED
    BY <1>1, InvHolds, PTL
===============================================================================
