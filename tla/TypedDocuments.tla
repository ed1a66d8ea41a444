---------------------------- MODULE TypedDocuments ----------------------------
(***************************************************************************)
(* The typed view of a collection (src/collection_client.go): GetDoc reads  *)
(* an item, CreatePatchFromChanges and CreatePatch make a patch of it, and  *)
(* PatchDoc, CreateDoc and DeleteDoc write.                                 *)
(*                                                                         *)
(* One application makes these calls from its goroutines, through several   *)
(* bindings: of collections, of schema versions of one, and of clients whose *)
(* databases may be copies of each other, so that one id and even one "#"    *)
(* occur in several places.  It may keep an item or a patch for as long as   *)
(* it likes and use it through any binding.  Since writes are only ever      *)
(* added to a document's history, and a read may be served by a replica that *)
(* lags, all that it may have kept is what it could read now: the operators  *)
(* Items and Patches, not variables.                                        *)
(* A call that fails before its command is sent changes nothing and is left  *)
(* out.  A command is executed at most once, and after a transport error it  *)
(* may still be executed (CommandContract without transport retries).        *)
(***************************************************************************)
EXTENDS Naturals, Sequences, FiniteSets

CONSTANTS
    Clients,        \* each of them for another database
    Collections,
    SchemaVersions,
    Descriptors,    \* what each binding was made of: a Collection[T], a Client
    Contents,       \* what a document may hold
    Mixed,          \* what a patch makes of a document it was not computed for
    Calls,          \* the writing calls of the application
    Rival,          \* the writers that do not use these bindings
    MaxRival        \* bound on their writes

ASSUME TypedAssumption ==
    /\ Descriptors \in Seq([client : Clients, name : Collections,
                            version : SchemaVersions])
    /\ Contents # {}
    /\ Mixed \notin Contents
    /\ Rival \notin Calls
    /\ MaxRival \in Nat

VARIABLES
    history,    \* the writes that took effect, of the document at each place
    phase,      \* where each call is
    request,    \* the command it sent
    pending,    \* calls whose command no server has served yet
    verdict,    \* the answer of the database
    receipt     \* what the call returned

typedVars == <<history, phase, request, pending, verdict, receipt>>

Bindings == DOMAIN Descriptors

\* The database and the collection a binding is for.
Place(b) == <<Descriptors[b].client, Descriptors[b].name>>
Places == Clients \X Collections

\* SchemaMarker: the "$" of the documents of a collection at a version.
Marker(b) == <<Descriptors[b].name, Descriptors[b].version>>
Markers == Collections \X SchemaVersions

WriteKinds == {"create", "patch", "delete"}
Entries == [kind : WriteKinds, content : Contents \cup {Mixed}, marker : Markers,
            by : Calls \cup {Rival}]

(***************************************************************************)
(* hash is the "#" a command names, base and content the document before    *)
(* and after the edit, and from the call whose WriteResult gave hash: Rival *)
(* when an item gave it.                                                    *)
(***************************************************************************)
Requests == [kind : WriteKinds, place : Places, hash : Nat, base : Contents,
             content : Contents, marker : Markers, from : Calls \cup {Rival}]
NoRequest == [kind |-> "none"]

TypedCodes == {"ok", "documentExists", "versionMismatch", "documentNotFound", "refused",
               "transport"}
Unanswered == [code |-> "none", hash |-> 0, before |-> 0, after |-> 0]
Verdicts == [code : TypedCodes, hash : Nat, before : Nat, after : Nat]
NoReceipt == [code |-> "none", version |-> 0]
Receipts == [code : TypedCodes, version : Nat]

TypedTypeOK ==
    /\ history \in [Places -> Seq(Entries)]
    /\ phase \in [Calls -> {"idle", "sent", "done"}]
    /\ request \in [Calls -> Requests \cup {NoRequest}]
    /\ pending \subseteq Calls
    /\ verdict \in [Calls -> Verdicts \cup {Unanswered}]
    /\ receipt \in [Calls -> Receipts \cup {NoReceipt}]
    /\ \A k \in Calls :
        /\ request[k] = NoRequest <=> phase[k] = "idle"
        /\ receipt[k] = NoReceipt <=> phase[k] # "done"
        /\ receipt[k].code = "ok" => receipt[k].version # 0

Entry(kind, content, marker, by) ==
    [kind |-> kind, content |-> content, marker |-> marker, by |-> by]

\* The version of a document is the position of its last write, 0 for no document.
Readable(c) == {n \in DOMAIN history[c] : history[c][n].kind # "delete"}
VersionOf(c) == IF Len(history[c]) \in Readable(c) THEN Len(history[c]) ELSE 0
ContentOf(c) == history[c][Len(history[c])].content

TypedInit ==
    /\ history = [c \in Places |-> << >>]
    /\ phase = [k \in Calls |-> "idle"]
    /\ request = [k \in Calls |-> NoRequest]
    /\ pending = {}
    /\ verdict = [k \in Calls |-> Unanswered]
    /\ receipt = [k \in Calls |-> NoReceipt]

-------------------------------------------------------------------------------
\* Items and patches.

\* Mutant of Identity: what distinguishes two bindings is the collection and its
\* version.
IdentityByMarker(b) == Marker(b)

\* collectionBinding.id: each Bind draws a number of its own.
Identity(b) == b

\* itemFromResult: content, version and marker come from one answer.
Item(b, n) ==
    LET sot == history[Place(b)][n]
    IN  [binding |-> b, version |-> n, marker |-> sot.marker, original |-> sot.content]

Items == UNION {{Item(b, n) : n \in Readable(Place(b))} : b \in Bindings}

RequireItem(b, item) == Identity(item.binding) = Identity(b)

\* Mutant of RequireItemMeta: the marker of the item is not compared.
RequireItemMetaUnmarked(b, item) == item.version # 0

RequireItemMeta(b, item) == item.version # 0 /\ item.marker = Marker(b)

\* CreatePatchFromChanges and CreatePatch on an item whose Doc was edited to be
\* content; a patch without operations is refused.
CanPatch(b, item, content) ==
    /\ RequireItem(b, item)
    /\ RequireItemMeta(b, item)
    /\ content # item.original

Patch(b, item, content) ==
    [binding |-> b, version |-> item.version, marker |-> Marker(b),
     original |-> item.original, content |-> content]

Patches ==
    {Patch(t[1], t[2], t[3]) :
        t \in {u \in Bindings \X Items \X Contents : CanPatch(u[1], u[2], u[3])}}

-------------------------------------------------------------------------------
\* The calls.

SendCommand(k, r) ==
    /\ phase' = [phase EXCEPT ![k] = "sent"]
    /\ request' = [request EXCEPT ![k] = r]
    /\ pending' = pending \cup {k}
    /\ UNCHANGED <<history, verdict, receipt>>

CreateDoc(k, b) ==
    /\ phase[k] = "idle"
    /\ \E x \in Contents :
        SendCommand(k, [kind |-> "create", place |-> Place(b), hash |-> 0, base |-> x,
                        content |-> x, marker |-> Marker(b), from |-> Rival])

\* Mutant of PatchDoc: a patch of another binding is sent.
PatchDocUnbound(k, b) ==
    /\ phase[k] = "idle"
    /\ \E p \in Patches :
        /\ p.marker = Marker(b)
        /\ SendCommand(k, [kind |-> "patch", place |-> Place(b), hash |-> p.version,
                           base |-> p.original, content |-> p.content,
                           marker |-> Marker(b), from |-> Rival])

PatchDoc(k, b) ==
    /\ phase[k] = "idle"
    /\ \E p \in Patches :
        /\ Identity(p.binding) = Identity(b)
        /\ p.marker = Marker(b)
        /\ SendCommand(k, [kind |-> "patch", place |-> Place(b), hash |-> p.version,
                           base |-> p.original, content |-> p.content,
                           marker |-> Marker(b), from |-> Rival])

\* The versions that the application has for the document: of an item, or of
\* the WriteResult of an earlier call.
VersionsInHand(b) ==
    {[version |-> n, from |-> Rival] : n \in Readable(Place(b))} \cup
    {[version |-> receipt[j].version, from |-> j] :
        j \in {i \in Calls : receipt[i].code = "ok" /\ request[i].place = Place(b)
                                                    /\ request[i].kind # "delete"}}

\* DeleteDoc takes a version, and "" is refused.
DeleteDoc(k, b) ==
    /\ phase[k] = "idle"
    /\ \E v \in VersionsInHand(b) :
        LET unused == CHOOSE x \in Contents : TRUE
        IN  /\ v.version # 0
            /\ SendCommand(k, [kind |-> "delete", place |-> Place(b), hash |-> v.version,
                               base |-> unused, content |-> unused,
                               marker |-> Marker(b), from |-> v.from])

Complete(k, code, version) ==
    /\ phase[k] = "sent"
    /\ phase' = [phase EXCEPT ![k] = "done"]
    /\ receipt' = [receipt EXCEPT ![k] = [code |-> code, version |-> version]]
    /\ UNCHANGED <<history, request, pending, verdict>>

\* Mutant of WriteResultFrom: the version before the patch is reported.
WriteResultFromBefore(v) == IF v.before # 0 THEN v.before ELSE v.hash

\* writeResultFrom: "#", or versions.after for a patch.
WriteResultFrom(v) == IF v.after # 0 THEN v.after ELSE v.hash

ReceiveVerdict(k) ==
    /\ verdict[k] # Unanswered
    /\ ~ (request[k].kind = "create" /\ verdict[k].code = "documentExists")
    /\ Complete(k, verdict[k].code, WriteResultFrom(verdict[k]))

\* A transport error: the command may still be pending.
LoseVerdict(k) == Complete(k, "transport", 0)

\* Mutant of VerifyCreate: whatever the read answers is a success.
VerifyCreateUnread(k) ==
    /\ request[k].kind = "create"
    /\ \E n \in Readable(request[k].place) \cup {0} : Complete(k, "ok", n)

\* executeCreate after a transport error, whatever became of the command, or
\* after documentExists: a document that can be read, maybe an older one, makes
\* the call a success.
VerifyCreate(k) ==
    /\ request[k].kind = "create"
    /\ \/ \E n \in Readable(request[k].place) : Complete(k, "ok", n)
       \/ verdict[k].code = "documentExists" /\ Complete(k, "documentExists", 0)

-------------------------------------------------------------------------------
\* The database.

Record(c, e) == history' = [history EXCEPT ![c] = Append(@, e)]

\* A patch does to a document what it was computed for, if it was.
Apply(r) == IF ContentOf(r.place) = r.base THEN r.content ELSE Mixed

Answer(k, code, hash, before, after) ==
    verdict' = [verdict EXCEPT ![k] =
                   [code |-> code, hash |-> hash, before |-> before, after |-> after]]

Refuse(k, code) == Answer(k, code, 0, 0, 0) /\ UNCHANGED history

ServeCommand(k) ==
    LET r == request[k]
        at == VersionOf(r.place)
        next == Len(history[r.place]) + 1
    IN  /\ k \in pending
        /\ pending' = pending \ {k}
        /\ \/ /\ r.kind = "create" /\ at = 0
              /\ Record(r.place, Entry("create", r.content, r.marker, k))
              /\ Answer(k, "ok", next, 0, 0)
           \/ r.kind = "create" /\ at # 0 /\ Refuse(k, "documentExists")
           \/ /\ r.kind = "patch" /\ at = r.hash
              /\ Record(r.place, Entry("patch", Apply(r), r.marker, k))
              /\ Answer(k, "ok", 0, at, next)
           \/ /\ r.kind = "delete" /\ at = r.hash
              /\ Record(r.place, Entry("delete", ContentOf(r.place), r.marker, k))
              /\ Answer(k, "ok", next, 0, 0)
           \/ /\ r.kind # "create" /\ at # r.hash
              /\ Refuse(k, IF at = 0 THEN "documentNotFound" ELSE "versionMismatch")
           \/ Refuse(k, "refused")
        /\ UNCHANGED <<phase, request, receipt>>

RivalWrites ==
    Cardinality({t \in UNION {{c} \X DOMAIN history[c] : c \in Places} :
                    history[t[1]][t[2]].by = Rival})

\* Others write any content, and migrate a document to another schema version.
RivalWrite(c) ==
    /\ RivalWrites < MaxRival
    /\ \E kind \in IF VersionOf(c) = 0 THEN {"create"} ELSE {"patch", "delete"},
          x \in Contents, v \in SchemaVersions :
              Record(c, Entry(kind, x, <<c[2], v>>, Rival))
    /\ UNCHANGED <<phase, request, pending, verdict, receipt>>

-------------------------------------------------------------------------------

TypedNext ==
    \/ \E k \in Calls, b \in Bindings : CreateDoc(k, b) \/ PatchDoc(k, b) \/ DeleteDoc(k, b)
    \/ \E k \in Calls :
        ReceiveVerdict(k) \/ LoseVerdict(k) \/ VerifyCreate(k) \/ ServeCommand(k)
    \/ \E c \in Places : RivalWrite(c)

TypedSpec == TypedInit /\ [][TypedNext]_typedVars

-------------------------------------------------------------------------------
\* Properties.

\* A typed edit lands whole or not at all: a patch takes effect only on the
\* content and at the place it was computed for, whichever bindings, old
\* items and kept patches it went through, and also when it is executed late
\* (requireItem, PatchDoc, itemFromResult).
EditsLandWhole ==
    \A c \in Places : \A n \in DOMAIN history[c] : history[c][n].content # Mixed

\* A typed patch never changes the schema marker of a document: a binding made
\* for one schema version does not write over a document that was migrated
\* meanwhile (requireItemMeta).
MarkersAgree ==
    \A c \in Places : \A n \in DOMAIN history[c] :
        history[c][n].kind = "patch" /\ history[c][n].by # Rival =>
            n # 1 /\ history[c][n - 1].marker = history[c][n].marker

\* A call that names the version of an earlier call's WriteResult is refused
\* with versionMismatch only if another call or a rival wrote after that version:
\* the versions that writes report can be used for the next write
\* (writeResultFrom, writeResultFromExisting).
StaleMeansRace ==
    \A k \in Calls :
        receipt[k].code = "versionMismatch" /\ request[k].from # Rival =>
            \E n \in DOMAIN history[request[k].place] :
                /\ n > request[k].hash
                /\ history[request[k].place][n].by # request[k].from
===============================================================================
