------------------------- MODULE TypedDocumentsProofs -------------------------
(***************************************************************************)
(* For any bindings of any clients, any calls and any number of writes by   *)
(* others, a typed edit lands whole and under the marker it was made for.    *)
(***************************************************************************)
EXTENDS TypedDocuments, TLAPS

(* A command that is sent, whenever it is served, names a version that the   *)
(* document at its place has had, with the content and the marker that the   *)
(* patch was computed for.  Nothing takes it from there: histories grow.     *)
Based(r) ==
    /\ r.kind = "patch" =>
        /\ r.hash \in Readable(r.place)
        /\ history[r.place][r.hash].content = r.base
        /\ history[r.place][r.hash].marker = r.marker
    /\ r.kind = "delete" => r.hash # 0

RequestInv == \A k \in Calls : Based(request[k])

VerdictInv ==
    /\ \A k \in pending : phase[k] # "idle"
    /\ \A k \in Calls : verdict[k].code = "ok" => WriteResultFrom(verdict[k]) # 0

TypedInv == TypedTypeOK /\ RequestInv /\ VerdictInv /\ EditsLandWhole /\ MarkersAgree

(* Histories only grow. *)
Extended ==
    \A c \in Places :
        /\ history'[c] \in Seq(Entries)
        /\ Len(history[c]) <= Len(history'[c])
        /\ \A n \in DOMAIN history[c] : history'[c][n] = history[c][n]

-------------------------------------------------------------------------------

LEMMA BindingTypes ==
    ASSUME NEW b \in Bindings
    PROVE  Place(b) \in Places /\ Marker(b) \in Markers
<1> DEFINE Kinds == [client : Clients, name : Collections, version : SchemaVersions]
<1>1. Descriptors[b] \in Kinds
    <2> HIDE DEF Kinds
    <2>1. Descriptors \in Seq(Kinds)
        BY TypedAssumption DEF Kinds
    <2> QED
        BY <2>1 DEF Bindings
<1>2. /\ Descriptors[b].client \in Clients
      /\ Descriptors[b].name \in Collections
      /\ Descriptors[b].version \in SchemaVersions
    BY <1>1
<1> QED
    BY <1>2 DEF Place, Places, Marker, Markers

LEMMA TypedInvInit == TypedInit => TypedInv
<1> SUFFICES ASSUME TypedInit
             PROVE  TypedInv
    OBVIOUS
<1>1. history \in [Places -> Seq(Entries)]
    BY DEF TypedInit
<1>2. TypedTypeOK
    BY <1>1 DEF TypedInit, TypedTypeOK, NoRequest, NoReceipt, Unanswered
<1>3. RequestInv
    BY DEF TypedInit, RequestInv, Based, NoRequest
<1>4. VerdictInv
    BY DEF TypedInit, VerdictInv, Unanswered
<1>5. EditsLandWhole /\ MarkersAgree
    BY DEF TypedInit, EditsLandWhole, MarkersAgree
<1> QED
    BY <1>2, <1>3, <1>4, <1>5 DEF TypedInv

-------------------------------------------------------------------------------
(* A patch is based on what its binding has read. *)

LEMMA PatchesAreBased ==
    ASSUME TypedInv, NEW p \in Patches, NEW b \in Bindings,
           Identity(p.binding) = Identity(b)
    PROVE  /\ p.version \in Readable(Place(b))
           /\ history[Place(b)][p.version].content = p.original
           /\ history[Place(b)][p.version].marker = p.marker
           /\ p.marker = Marker(b)
           /\ p.original \in Contents
           /\ p.content \in Contents
           /\ p.version \in Nat
<1>1. PICK a \in Bindings, item \in Items, x \in Contents :
          CanPatch(a, item, x) /\ p = Patch(a, item, x)
    BY DEF Patches
<1>2. PICK d \in Bindings : \E n \in Readable(Place(d)) : item = Item(d, n)
    BY DEF Items
<1>3. PICK n \in Readable(Place(d)) : item = Item(d, n)
    BY <1>2
<1>4. a = b /\ d = b
    BY <1>1, <1>3 DEF CanPatch, RequireItem, Identity, Item, Patch
<1>5. /\ p.version = n /\ p.original = history[Place(b)][n].content
      /\ p.marker = Marker(b) /\ p.content = x
    BY <1>1, <1>3, <1>4 DEF Patch, Item
<1>6. history[Place(b)][n].marker = Marker(b)
    BY <1>1, <1>3, <1>4 DEF CanPatch, RequireItemMeta, Item
<1>7. Place(b) \in Places
    BY BindingTypes
<1>8. n \in DOMAIN history[Place(b)] /\ n \in Nat
    BY <1>3, <1>4, <1>7 DEF Readable, TypedInv, TypedTypeOK
<1>9. history[Place(b)][n] \in Entries /\ history[Place(b)][n].content # Mixed
    BY <1>7, <1>8 DEF TypedInv, TypedTypeOK, EditsLandWhole
<1>10. history[Place(b)][n].content \in Contents
    BY <1>9 DEF Entries
<1> QED
    BY <1>1, <1>3, <1>4, <1>5, <1>6, <1>8, <1>10

(* Whatever is sent fits. *)
LEMMA SendStep ==
    ASSUME TypedInv, NEW k \in Calls, NEW r \in Requests, Based(r),
           phase[k] = "idle", SendCommand(k, r)
    PROVE  TypedInv'
<1>1. phase' \in [Calls -> {"idle", "sent", "done"}] /\ phase'[k] = "sent"
    BY DEF SendCommand, TypedInv, TypedTypeOK
<1>2. request' \in [Calls -> Requests \cup {NoRequest}] /\ request'[k] = r
    BY DEF SendCommand, TypedInv, TypedTypeOK
<1>3. r # NoRequest
    BY DEF Requests, NoRequest, WriteKinds
<1>4. \A j \in Calls \ {k} : phase'[j] = phase[j] /\ request'[j] = request[j]
    BY DEF SendCommand, TypedInv, TypedTypeOK
<1>5. TypedTypeOK'
    BY <1>1, <1>2, <1>3, <1>4 DEF SendCommand, TypedInv, TypedTypeOK
<1>6. RequestInv'
    BY <1>2, <1>4 DEF SendCommand, TypedInv, RequestInv, Based, Readable
<1>7. VerdictInv'
    BY <1>1, <1>4 DEF SendCommand, TypedInv, VerdictInv, WriteResultFrom
<1>8. EditsLandWhole' /\ MarkersAgree'
    BY DEF SendCommand, TypedInv, EditsLandWhole, MarkersAgree
<1> QED
    BY <1>5, <1>6, <1>7, <1>8 DEF TypedInv

LEMMA CallStep ==
    ASSUME TypedInv, NEW k \in Calls, NEW b \in Bindings,
           CreateDoc(k, b) \/ PatchDoc(k, b) \/ DeleteDoc(k, b)
    PROVE  TypedInv'
<1>1. Place(b) \in Places /\ Marker(b) \in Markers
    BY BindingTypes
<1>2. CASE CreateDoc(k, b)
    <2>1. PICK x \in Contents :
              SendCommand(k, [kind |-> "create", place |-> Place(b), hash |-> 0, base |-> x,
                              content |-> x, marker |-> Marker(b), from |-> Rival])
        BY <1>2 DEF CreateDoc
    <2> DEFINE r == [kind |-> "create", place |-> Place(b), hash |-> 0, base |-> x,
                     content |-> x, marker |-> Marker(b), from |-> Rival]
    <2>2. r \in Requests /\ Based(r)
        BY <1>1 DEF Requests, WriteKinds, Based
    <2> QED
        BY <1>2, <2>1, <2>2, SendStep DEF CreateDoc
<1>3. CASE PatchDoc(k, b)
    <2>1. PICK p \in Patches :
              /\ Identity(p.binding) = Identity(b)
              /\ SendCommand(k, [kind |-> "patch", place |-> Place(b), hash |-> p.version,
                                 base |-> p.original, content |-> p.content,
                                 marker |-> Marker(b), from |-> Rival])
        BY <1>3 DEF PatchDoc
    <2> DEFINE r == [kind |-> "patch", place |-> Place(b), hash |-> p.version,
                     base |-> p.original, content |-> p.content,
                     marker |-> Marker(b), from |-> Rival]
    <2>2. r \in Requests /\ Based(r)
        BY <1>1, <2>1, PatchesAreBased DEF Requests, WriteKinds, Based
    <2> QED
        BY <1>3, <2>1, <2>2, SendStep DEF PatchDoc
<1>4. CASE DeleteDoc(k, b)
    <2> DEFINE unused == CHOOSE x \in Contents : TRUE
    <2>1. PICK v \in VersionsInHand(b) : v.version # 0 /\
              SendCommand(k, [kind |-> "delete", place |-> Place(b), hash |-> v.version,
                              base |-> unused, content |-> unused,
                              marker |-> Marker(b), from |-> v.from])
        BY <1>4 DEF DeleteDoc
    <2> DEFINE r == [kind |-> "delete", place |-> Place(b), hash |-> v.version,
                     base |-> unused, content |-> unused,
                     marker |-> Marker(b), from |-> v.from]
    <2>2. unused \in Contents
        BY TypedAssumption
    <2>3. v.version \in Nat /\ v.from \in Calls \cup {Rival}
        <3>1. CASE \E n \in Readable(Place(b)) : v = [version |-> n, from |-> Rival]
            <4>1. \A n \in Readable(Place(b)) : n \in Nat
                BY <1>1 DEF Readable, TypedInv, TypedTypeOK
            <4> QED
                BY <3>1, <4>1
        <3>2. CASE \E j \in Calls : /\ receipt[j].code = "ok"
                                    /\ v = [version |-> receipt[j].version, from |-> j]
            <4>1. PICK j \in Calls : /\ receipt[j].code = "ok"
                                     /\ v = [version |-> receipt[j].version, from |-> j]
                BY <3>2
            <4>2. receipt[j] \in Receipts \cup {NoReceipt}
                BY DEF TypedInv, TypedTypeOK
            <4> QED
                BY <4>1, <4>2 DEF Receipts, NoReceipt
        <3> QED
            BY <3>1, <3>2 DEF VersionsInHand
    <2>4. r \in Requests /\ Based(r)
        BY <1>1, <2>1, <2>2, <2>3 DEF Requests, WriteKinds, Based
    <2> QED
        BY <1>4, <2>1, <2>4, SendStep DEF DeleteDoc
<1> QED
    BY <1>2, <1>3, <1>4

-------------------------------------------------------------------------------
(* A call that returns. *)

LEMMA CompleteStep ==
    ASSUME TypedInv, NEW k \in Calls, NEW code \in TypedCodes, NEW version \in Nat,
           code = "ok" => version # 0, Complete(k, code, version)
    PROVE  TypedInv'
<1>1. phase' \in [Calls -> {"idle", "sent", "done"}] /\ phase'[k] = "done"
    BY DEF Complete, TypedInv, TypedTypeOK
<1>2. [code |-> code, version |-> version] \in Receipts
    BY DEF Receipts
<1>3. receipt' \in [Calls -> Receipts \cup {NoReceipt}]
    BY <1>2 DEF Complete, TypedInv, TypedTypeOK
<1>4. receipt'[k] = [code |-> code, version |-> version] /\ receipt'[k] # NoReceipt
    BY DEF Complete, TypedInv, TypedTypeOK, NoReceipt, TypedCodes
<1>5. \A j \in Calls \ {k} : phase'[j] = phase[j] /\ receipt'[j] = receipt[j]
    BY DEF Complete, TypedInv, TypedTypeOK
<1>6. request[k] # NoRequest
    BY DEF Complete, TypedInv, TypedTypeOK
<1>7. TypedTypeOK'
    BY <1>1, <1>3, <1>4, <1>5, <1>6 DEF Complete, TypedInv, TypedTypeOK
<1>8. RequestInv'
    BY DEF Complete, TypedInv, RequestInv, Based, Readable
<1>9. VerdictInv'
    BY <1>1, <1>5 DEF Complete, TypedInv, VerdictInv, WriteResultFrom
<1>10. EditsLandWhole' /\ MarkersAgree'
    BY DEF Complete, TypedInv, EditsLandWhole, MarkersAgree
<1> QED
    BY <1>7, <1>8, <1>9, <1>10 DEF TypedInv

LEMMA ReturnStep ==
    ASSUME TypedInv, NEW k \in Calls, ReceiveVerdict(k) \/ LoseVerdict(k) \/ VerifyCreate(k)
    PROVE  TypedInv'
<1>1. CASE ReceiveVerdict(k)
    <2>1. verdict[k] \in Verdicts
        BY <1>1 DEF ReceiveVerdict, TypedInv, TypedTypeOK
    <2>2. verdict[k].code \in TypedCodes /\ WriteResultFrom(verdict[k]) \in Nat
        BY <2>1 DEF Verdicts, WriteResultFrom
    <2>3. verdict[k].code = "ok" => WriteResultFrom(verdict[k]) # 0
        BY DEF TypedInv, VerdictInv
    <2> QED
        BY <1>1, <2>2, <2>3, CompleteStep DEF ReceiveVerdict
<1>2. CASE LoseVerdict(k)
    BY <1>2, CompleteStep DEF LoseVerdict, TypedCodes
<1>3. CASE VerifyCreate(k)
    <2>1. CASE \E n \in Readable(request[k].place) : Complete(k, "ok", n)
        <3>1. PICK n \in Readable(request[k].place) : Complete(k, "ok", n)
            BY <2>1
        <3>2. request[k] \in Requests
            BY <3>1 DEF Complete, TypedInv, TypedTypeOK
        <3>3. request[k].place \in Places
            BY <3>2 DEF Requests
        <3>4. n \in Nat /\ n # 0
            BY <3>1, <3>3 DEF Readable, TypedInv, TypedTypeOK
        <3> QED
            BY <3>1, <3>4, CompleteStep DEF TypedCodes
    <2>2. CASE Complete(k, "documentExists", 0)
        BY <2>2, CompleteStep DEF TypedCodes
    <2> QED
        BY <1>3, <2>1, <2>2 DEF VerifyCreate
<1> QED
    BY <1>1, <1>2, <1>3

-------------------------------------------------------------------------------
(* A write of the database. *)

LEMMA RecordExtends ==
    ASSUME TypedInv, NEW c \in Places, NEW e \in Entries, Record(c, e)
    PROVE  /\ history' \in [Places -> Seq(Entries)]
           /\ Extended
           /\ Len(history'[c]) = Len(history[c]) + 1
           /\ history'[c][Len(history[c]) + 1] = e
           /\ \A d \in Places \ {c} : history'[d] = history[d]
BY DEF Record, Extended, TypedInv, TypedTypeOK

(* What was based on a version stays based on it, and what was right of the *)
(* history stays right when an entry is added that is right itself.         *)
LEMMA RecordStep ==
    ASSUME TypedInv, NEW c \in Places, NEW e \in Entries, Record(c, e),
           e.content # Mixed,
           e.kind = "patch" /\ e.by # Rival =>
               /\ Len(history[c]) # 0
               /\ history[c][Len(history[c])].marker = e.marker
    PROVE  /\ history' \in [Places -> Seq(Entries)]
           /\ \A r \in Requests : Based(r) => Based(r)'
           /\ EditsLandWhole'
           /\ MarkersAgree'
<1>1. /\ history' \in [Places -> Seq(Entries)]
      /\ Extended
      /\ Len(history'[c]) = Len(history[c]) + 1
      /\ history'[c][Len(history[c]) + 1] = e
      /\ \A d \in Places \ {c} : history'[d] = history[d]
    BY RecordExtends
<1>2. \A d \in Places : history[d] \in Seq(Entries)
    BY DEF TypedInv, TypedTypeOK
<1>3. \A r \in Requests : Based(r) => Based(r)'
    <2> SUFFICES ASSUME NEW r \in Requests, Based(r), r.kind = "patch"
                 PROVE  Based(r)'
        BY DEF Based
    <2>1. r.place \in Places
        BY DEF Requests
    <2>2. r.hash \in DOMAIN history[r.place] /\ history[r.place][r.hash].kind # "delete"
        BY DEF Based, Readable
    <2>3. r.hash \in DOMAIN history'[r.place]
        BY <1>1, <1>2, <2>1, <2>2 DEF Extended
    <2>4. history'[r.place][r.hash] = history[r.place][r.hash]
        BY <1>1, <2>1, <2>2 DEF Extended
    <2> QED
        BY <2>2, <2>3, <2>4 DEF Based, Readable
<1>4. EditsLandWhole'
    <2> SUFFICES ASSUME NEW d \in Places, NEW n \in DOMAIN history'[d]
                 PROVE  history'[d][n].content # Mixed
        BY DEF EditsLandWhole
    <2>1. CASE n \in DOMAIN history[d]
        BY <1>1, <2>1 DEF Extended, TypedInv, EditsLandWhole
    <2>2. CASE n \notin DOMAIN history[d]
        <3>1. d = c
            BY <1>1, <2>2
        <3>2. n = Len(history[c]) + 1
            BY <1>1, <1>2, <2>2, <3>1
        <3> QED
            BY <1>1, <3>1, <3>2
    <2> QED
        BY <2>1, <2>2
<1>5. MarkersAgree'
    <2> SUFFICES ASSUME NEW d \in Places, NEW n \in DOMAIN history'[d],
                        history'[d][n].kind = "patch", history'[d][n].by # Rival
                 PROVE  n # 1 /\ history'[d][n - 1].marker = history'[d][n].marker
        BY DEF MarkersAgree
    <2>1. CASE n \in DOMAIN history[d]
        <3>1. history'[d][n] = history[d][n]
            BY <1>1, <2>1 DEF Extended
        <3>2. n # 1 /\ history[d][n - 1].marker = history[d][n].marker
            BY <2>1, <3>1 DEF TypedInv, MarkersAgree
        <3>3. n - 1 \in DOMAIN history[d]
            BY <1>2, <2>1, <3>2
        <3> QED
            BY <1>1, <3>1, <3>2, <3>3 DEF Extended
    <2>2. CASE n \notin DOMAIN history[d]
        <3>1. d = c
            BY <1>1, <2>2
        <3>2. n = Len(history[c]) + 1
            BY <1>1, <1>2, <2>2, <3>1
        <3>3. history'[d][n] = e
            BY <1>1, <3>1, <3>2
        <3>4. Len(history[c]) # 0 /\ history[c][Len(history[c])].marker = e.marker
            BY <3>3
        <3>5. Len(history[c]) \in DOMAIN history[c] /\ n - 1 = Len(history[c]) /\ n # 1
            BY <1>2, <3>2, <3>4
        <3> QED
            BY <1>1, <3>1, <3>3, <3>4, <3>5 DEF Extended
    <2> QED
        BY <2>1, <2>2
<1> QED
    BY <1>1, <1>3, <1>4, <1>5

LEMMA RequestsKept ==
    ASSUME TypedInv, request' = request, \A r \in Requests : Based(r) => Based(r)'
    PROVE  RequestInv'
<1> SUFFICES ASSUME NEW k \in Calls
             PROVE  Based(request[k])'
    BY DEF RequestInv
<1>1. CASE request[k] \in Requests
    BY <1>1 DEF TypedInv, RequestInv, Based, Readable
<1>2. CASE request[k] = NoRequest
    BY <1>2 DEF Based, NoRequest
<1> QED
    BY <1>1, <1>2 DEF TypedInv, TypedTypeOK

(* The rest of what serving a command does. *)
LEMMA AnswerStep ==
    ASSUME TypedInv, NEW k \in pending, NEW code \in TypedCodes,
           NEW hash \in Nat, NEW before \in Nat, NEW after \in Nat,
           code = "ok" => hash # 0 \/ after # 0,
           Answer(k, code, hash, before, after),
           pending' = pending \ {k}, UNCHANGED <<phase, request, receipt>>,
           history' \in [Places -> Seq(Entries)],
           RequestInv', EditsLandWhole', MarkersAgree'
    PROVE  TypedInv'
<1>1. k \in Calls
    BY DEF TypedInv, TypedTypeOK
<1> DEFINE v == [code |-> code, hash |-> hash, before |-> before, after |-> after]
<1>2. v \in Verdicts
    BY DEF Verdicts
<1>3. verdict' = [verdict EXCEPT ![k] = v]
    BY DEF Answer
<1>4. verdict' \in [Calls -> Verdicts \cup {Unanswered}]
    BY <1>1, <1>2, <1>3 DEF TypedInv, TypedTypeOK
<1>5. verdict'[k] = v /\ \A j \in Calls \ {k} : verdict'[j] = verdict[j]
    BY <1>1, <1>3 DEF TypedInv, TypedTypeOK
<1>6. TypedTypeOK'
    BY <1>4 DEF TypedInv, TypedTypeOK
<1>7. \A j \in Calls : verdict'[j].code = "ok" => WriteResultFrom(verdict'[j]) # 0
    BY <1>5 DEF TypedInv, VerdictInv, WriteResultFrom
<1>8. VerdictInv'
    BY <1>7 DEF TypedInv, VerdictInv, WriteResultFrom
<1> QED
    BY <1>6, <1>8 DEF TypedInv

LEMMA RefuseStep ==
    ASSUME TypedInv, NEW k \in pending, NEW code \in TypedCodes \ {"ok"}, Refuse(k, code),
           pending' = pending \ {k}, UNCHANGED <<phase, request, receipt>>
    PROVE  TypedInv'
<1>1. history' = history
    BY DEF Refuse
<1>2. RequestInv' /\ EditsLandWhole' /\ MarkersAgree'
    BY <1>1 DEF TypedInv, RequestInv, Based, Readable, EditsLandWhole, MarkersAgree
<1>3. history' \in [Places -> Seq(Entries)]
    BY <1>1 DEF TypedInv, TypedTypeOK
<1> QED
    BY <1>2, <1>3, AnswerStep DEF Refuse

(* A command that is executed adds an entry and is answered ok. *)
LEMMA ExecuteStep ==
    ASSUME TypedInv, NEW k \in pending, NEW c \in Places, NEW e \in Entries, Record(c, e),
           e.content # Mixed,
           e.kind = "patch" =>
               /\ Len(history[c]) # 0
               /\ history[c][Len(history[c])].marker = e.marker,
           NEW hash \in Nat, NEW before \in Nat, NEW after \in Nat, hash # 0 \/ after # 0,
           Answer(k, "ok", hash, before, after),
           pending' = pending \ {k}, UNCHANGED <<phase, request, receipt>>
    PROVE  TypedInv'
<1>1. /\ history' \in [Places -> Seq(Entries)]
      /\ \A r \in Requests : Based(r) => Based(r)'
      /\ EditsLandWhole' /\ MarkersAgree'
    BY RecordStep
<1>2. RequestInv'
    BY <1>1, RequestsKept
<1> QED
    BY <1>1, <1>2, AnswerStep DEF TypedCodes

LEMMA ServeStep ==
    ASSUME TypedInv, NEW k \in Calls, ServeCommand(k)
    PROVE  TypedInv'
<1> DEFINE r == request[k]
           c == r.place
           at == VersionOf(c)
           next == Len(history[c]) + 1
<1>1. /\ k \in pending /\ pending' = pending \ {k}
      /\ UNCHANGED <<phase, request, receipt>>
    BY DEF ServeCommand
<1>2. r \in Requests
    BY <1>1 DEF TypedInv, TypedTypeOK, VerdictInv
<1>3. c \in Places /\ r.content \in Contents /\ r.marker \in Markers /\ r.base \in Contents
    BY <1>2 DEF Requests
<1>4. history[c] \in Seq(Entries) /\ next \in Nat \ {0} /\ at \in Nat
    BY <1>3 DEF TypedInv, TypedTypeOK, VersionOf
<1>5. CASE r.kind = "create" /\ at = 0 /\ Record(c, Entry("create", r.content, r.marker, k))
                             /\ Answer(k, "ok", next, 0, 0)
    <2>1. PICK e \in Entries : e = Entry("create", r.content, r.marker, k)
        BY <1>3 DEF Entries, Entry, WriteKinds
    <2>2. e.content # Mixed /\ e.kind # "patch" /\ Record(c, e)
        BY <1>3, <1>5, <2>1, TypedAssumption DEF Entry
    <2> QED
        BY <1>1, <1>3, <1>4, <1>5, <2>2, ExecuteStep
<1>6. CASE r.kind = "patch" /\ at = r.hash /\ Record(c, Entry("patch", Apply(r), r.marker, k))
                            /\ Answer(k, "ok", 0, at, next)
    <2>1. /\ r.hash \in Readable(c)
          /\ history[c][r.hash].content = r.base
          /\ history[c][r.hash].marker = r.marker
        BY <1>6 DEF TypedInv, RequestInv, Based
    <2>2. r.hash # 0 /\ r.hash = Len(history[c])
        BY <1>4, <1>6, <2>1 DEF Readable, VersionOf
    <2>3. Apply(r) = r.content
        BY <2>1, <2>2 DEF Apply, ContentOf
    <2>4. PICK e \in Entries : e = Entry("patch", Apply(r), r.marker, k)
        BY <1>3, <2>3 DEF Entries, Entry, WriteKinds
    <2>5. e.content # Mixed /\ e.marker = r.marker /\ Record(c, e)
        BY <1>3, <1>6, <2>3, <2>4, TypedAssumption DEF Entry
    <2> QED
        BY <1>1, <1>3, <1>4, <1>6, <2>1, <2>2, <2>5, ExecuteStep
<1>7. CASE r.kind = "delete" /\ at = r.hash
           /\ Record(c, Entry("delete", ContentOf(c), r.marker, k))
           /\ Answer(k, "ok", next, 0, 0)
    <2>1. Len(history[c]) \in DOMAIN history[c]
        BY <1>4, <1>7 DEF TypedInv, RequestInv, Based, VersionOf, Readable
    <2>2. ContentOf(c) \in Contents \cup {Mixed} /\ ContentOf(c) # Mixed
        <3>1. history[c][Len(history[c])] \in Entries
            BY <1>4, <2>1
        <3>2. history[c][Len(history[c])].content # Mixed
            BY <1>3, <2>1 DEF TypedInv, EditsLandWhole
        <3> QED
            BY <3>1, <3>2 DEF ContentOf, Entries
    <2>3. PICK e \in Entries : e = Entry("delete", ContentOf(c), r.marker, k)
        BY <1>3, <2>2 DEF Entries, Entry, WriteKinds
    <2>4. e.content # Mixed /\ e.kind # "patch" /\ Record(c, e)
        BY <1>7, <2>2, <2>3 DEF Entry
    <2> QED
        BY <1>1, <1>3, <1>4, <1>7, <2>4, ExecuteStep
<1>8. CASE \E code \in TypedCodes \ {"ok"} : Refuse(k, code)
    BY <1>1, <1>8, RefuseStep
<1> QED
    BY <1>5, <1>6, <1>7, <1>8 DEF ServeCommand, TypedCodes

LEMMA RivalStep ==
    ASSUME TypedInv, NEW c \in Places, RivalWrite(c)
    PROVE  TypedInv'
<1>1. PICK kind \in WriteKinds, x \in Contents, v \in SchemaVersions :
          Record(c, Entry(kind, x, <<c[2], v>>, Rival))
    BY DEF RivalWrite, WriteKinds
<1> DEFINE e == Entry(kind, x, <<c[2], v>>, Rival)
<1>2. e \in Entries /\ e.content # Mixed /\ e.by = Rival
    BY TypedAssumption DEF Entries, Entry, Places, Markers
<1>3. /\ history' \in [Places -> Seq(Entries)]
      /\ \A r \in Requests : Based(r) => Based(r)'
      /\ EditsLandWhole' /\ MarkersAgree'
    BY <1>1, <1>2, RecordStep
<1>4. UNCHANGED <<phase, request, pending, verdict, receipt>>
    BY DEF RivalWrite
<1>5. RequestInv'
    BY <1>3, <1>4, RequestsKept
<1>6. TypedTypeOK' /\ VerdictInv'
    BY <1>3, <1>4 DEF TypedInv, TypedTypeOK, VerdictInv, WriteResultFrom
<1> QED
    BY <1>3, <1>5, <1>6 DEF TypedInv

-------------------------------------------------------------------------------

LEMMA TypedInvNext == TypedInv /\ [TypedNext]_typedVars => TypedInv'
<1> SUFFICES ASSUME TypedInv, [TypedNext]_typedVars
             PROVE  TypedInv'
    OBVIOUS
<1>1. CASE \E k \in Calls, b \in Bindings :
               CreateDoc(k, b) \/ PatchDoc(k, b) \/ DeleteDoc(k, b)
    BY <1>1, CallStep
<1>2. CASE \E k \in Calls : ReceiveVerdict(k) \/ LoseVerdict(k) \/ VerifyCreate(k)
    BY <1>2, ReturnStep
<1>3. CASE \E k \in Calls : ServeCommand(k)
    BY <1>3, ServeStep
<1>4. CASE \E c \in Places : RivalWrite(c)
    BY <1>4, RivalStep
<1>5. CASE UNCHANGED typedVars
    BY <1>5 DEF typedVars, TypedInv, TypedTypeOK, RequestInv, Based, Readable, VerdictInv,
                WriteResultFrom, EditsLandWhole, MarkersAgree
<1> QED
    BY <1>1, <1>2, <1>3, <1>4, <1>5 DEF TypedNext

(* Items, patches and commands keep their types, whatever the application    *)
(* does with them, and a success carries a version.                          *)
THEOREM TypeCorrect == TypedSpec => []TypedTypeOK
<1>1. TypedInv => TypedTypeOK
    BY DEF TypedInv
<1> QED
    BY <1>1, TypedInvInit, TypedInvNext, PTL DEF TypedSpec

(* A patch takes effect only on what it was computed for: not on another     *)
(* document with the same id and version, nor on a later content.            *)
THEOREM EditsLandWholeCorrect == TypedSpec => []EditsLandWhole
<1>1. TypedInv => EditsLandWhole
    BY DEF TypedInv
<1> QED
    BY <1>1, TypedInvInit, TypedInvNext, PTL DEF TypedSpec

(* A patch never changes the schema marker of a document.                    *)
THEOREM MarkersAgreeCorrect == TypedSpec => []MarkersAgree
<1>1. TypedInv => MarkersAgree
    BY DEF TypedInv
<1> QED
    BY <1>1, TypedInvInit, TypedInvNext, PTL DEF TypedSpec

-------------------------------------------------------------------------------
(* A version that a write reports can be used for the next one: it is stale  *)
(* only after a race.                                                        *)

(* A call writes once, when its command is served, and what it asked for.    *)
Authored(c, n) ==
    LET k == history[c][n].by
    IN  k # Rival =>
            /\ k \notin pending /\ phase[k] # "idle"
            /\ c = request[k].place
            /\ history[c][n].kind = request[k].kind
            /\ \A m \in DOMAIN history[c] : history[c][m].by = k => m = n

AuthorInv == \A c \in Places : \A n \in DOMAIN history[c] : Authored(c, n)

(* A document is created where there is none. *)
Created(c, n) ==
    history[c][n].kind = "create" => n = 1 \/ history[c][n - 1].kind = "delete"

CreateInv == \A c \in Places : \A n \in DOMAIN history[c] : Created(c, n)

(* The answer of the database names the write of the call. *)
Own(k) ==
    verdict[k].code = "ok" /\ request[k].kind \in {"create", "patch"} =>
        LET n == WriteResultFrom(verdict[k])
        IN  n \in DOMAIN history[request[k].place] /\ history[request[k].place][n].by = k

(* What a call returns is that write, or for a create a document that was    *)
(* found.                                                                   *)
Reported(k) ==
    receipt[k].code = "ok" /\ request[k].kind \in {"create", "patch"} =>
        /\ receipt[k].version \in Readable(request[k].place)
        /\ request[k].kind = "patch" =>
               history[request[k].place][receipt[k].version].by = k

(* The version of a WriteResult is used for the document it was reported of. *)
FromResult(k) ==
    LET j == request[k].from
    IN  phase[k] # "idle" /\ j # Rival =>
            /\ receipt[j].code = "ok"
            /\ request[j].kind \in {"create", "patch"}
            /\ request[j].place = request[k].place
            /\ receipt[j].version = request[k].hash

(* A mismatch was found because somebody else had written. *)
Overtaken(k) ==
    verdict[k].code = "versionMismatch" /\ request[k].from # Rival =>
        \E n \in DOMAIN history[request[k].place] :
            /\ n > request[k].hash
            /\ history[request[k].place][n].by # request[k].from

Unserved(k) == phase[k] = "idle" \/ k \in pending => verdict[k].code = "none"

CallInv ==
    \A k \in Calls :
        /\ Own(k) /\ Reported(k) /\ FromResult(k) /\ Overtaken(k) /\ Unserved(k)
        /\ receipt[k].code = "versionMismatch" => verdict[k].code = "versionMismatch"

VersionInv == TypedInv /\ AuthorInv /\ CreateInv /\ CallInv

-------------------------------------------------------------------------------

LEMMA PlaceOfRequest ==
    ASSUME TypedInv, NEW k \in Calls, phase[k] # "idle"
    PROVE  /\ request[k] \in Requests
           /\ request[k].place \in Places
           /\ request[k].hash \in Nat
           /\ request[k].kind \in WriteKinds
           /\ request[k].from \in Calls \cup {Rival}
<1>1. request[k] \in Requests
    BY DEF TypedInv, TypedTypeOK
<1> QED
    BY <1>1 DEF Requests

LEMMA VersionInvInit == TypedInit => VersionInv
<1> SUFFICES ASSUME TypedInit
             PROVE  VersionInv
    OBVIOUS
<1>1. TypedInv
    BY TypedInvInit
<1>2. AuthorInv /\ CreateInv
    BY DEF TypedInit, AuthorInv, CreateInv
<1>3. CallInv
    BY DEF TypedInit, CallInv, Own, Reported, FromResult, Overtaken, Unserved,
           Unanswered, NoReceipt
<1> QED
    BY <1>1, <1>2, <1>3 DEF VersionInv

-------------------------------------------------------------------------------
(* A command is sent. *)

LEMMA SendVersions ==
    ASSUME VersionInv, TypedInv', NEW k \in Calls, NEW r, SendCommand(k, r),
           phase[k] = "idle",
           r.from # Rival =>
               /\ r.from \in Calls
               /\ receipt[r.from].code = "ok"
               /\ request[r.from].kind \in {"create", "patch"}
               /\ request[r.from].place = r.place
               /\ receipt[r.from].version = r.hash
    PROVE  VersionInv'
<1>1. /\ request'[k] = r /\ phase'[k] = "sent"
      /\ \A j \in Calls \ {k} : phase'[j] = phase[j] /\ request'[j] = request[j]
      /\ pending' = pending \cup {k}
      /\ UNCHANGED <<history, verdict, receipt>>
    BY DEF SendCommand, VersionInv, TypedInv, TypedTypeOK
<1>2. \A c \in Places : \A n \in DOMAIN history[c] : history[c][n].by \in Calls \cup {Rival}
    <2>1. \A c \in Places : \A n \in DOMAIN history[c] : history[c][n] \in Entries
        BY DEF VersionInv, TypedInv, TypedTypeOK
    <2> QED
        BY <2>1 DEF Entries
<1>3. \A c \in Places : \A n \in DOMAIN history[c] : history[c][n].by # k
    BY TypedAssumption DEF VersionInv, AuthorInv, Authored
<1>4. AuthorInv' /\ CreateInv'
    BY <1>1, <1>2, <1>3 DEF VersionInv, AuthorInv, Authored, CreateInv, Created
<1>5. receipt[k].code = "none" /\ verdict[k].code = "none"
    BY DEF VersionInv, TypedInv, TypedTypeOK, NoReceipt, CallInv, Unserved
<1>6. ASSUME NEW j \in Calls \ {k}
      PROVE  /\ Own(j)' /\ Reported(j)' /\ Overtaken(j)' /\ Unserved(j)'
             /\ receipt'[j].code = "versionMismatch" => verdict'[j].code = "versionMismatch"
    BY <1>1 DEF VersionInv, CallInv, Own, Reported, Overtaken, Unserved, Readable,
                WriteResultFrom
<1>7. ASSUME NEW j \in Calls \ {k}
      PROVE  FromResult(j)'
    <2> SUFFICES ASSUME phase[j] # "idle", request[j].from # Rival
                 PROVE  FromResult(j)'
        BY <1>1 DEF FromResult
    <2>1. request[j].from \in Calls
        BY PlaceOfRequest DEF VersionInv
    <2>2. FromResult(j)
        BY DEF VersionInv, CallInv
    <2>3. request[j].from # k
        BY <1>5, <2>2 DEF FromResult
    <2> QED
        BY <1>1, <2>1, <2>2, <2>3 DEF FromResult
<1>8. FromResult(k)'
    <2> SUFFICES ASSUME r.from # Rival
                 PROVE  FromResult(k)'
        BY <1>1 DEF FromResult
    <2>1. r.from # k
        BY <1>5
    <2> QED
        BY <1>1, <2>1 DEF FromResult
<1>9. /\ Own(k)' /\ Reported(k)' /\ Overtaken(k)' /\ Unserved(k)'
      /\ receipt'[k].code # "versionMismatch"
    BY <1>1, <1>5 DEF Own, Reported, Overtaken, Unserved
<1>10. CallInv'
    BY <1>6, <1>7, <1>8, <1>9 DEF CallInv
<1> QED
    BY <1>4, <1>10 DEF VersionInv

LEMMA CallVersions ==
    ASSUME VersionInv, TypedInv', NEW k \in Calls, NEW b \in Bindings,
           CreateDoc(k, b) \/ PatchDoc(k, b) \/ DeleteDoc(k, b)
    PROVE  VersionInv'
<1>1. CASE CreateDoc(k, b)
    <2>1. PICK x \in Contents :
              SendCommand(k, [kind |-> "create", place |-> Place(b), hash |-> 0, base |-> x,
                              content |-> x, marker |-> Marker(b), from |-> Rival])
        BY <1>1 DEF CreateDoc
    <2> DEFINE r == [kind |-> "create", place |-> Place(b), hash |-> 0, base |-> x,
                     content |-> x, marker |-> Marker(b), from |-> Rival]
    <2>2. r.from = Rival
        OBVIOUS
    <2> QED
        BY <1>1, <2>1, <2>2, SendVersions DEF CreateDoc
<1>2. CASE PatchDoc(k, b)
    <2>1. PICK p \in Patches :
              SendCommand(k, [kind |-> "patch", place |-> Place(b), hash |-> p.version,
                              base |-> p.original, content |-> p.content,
                              marker |-> Marker(b), from |-> Rival])
        BY <1>2 DEF PatchDoc
    <2> DEFINE r == [kind |-> "patch", place |-> Place(b), hash |-> p.version,
                     base |-> p.original, content |-> p.content,
                     marker |-> Marker(b), from |-> Rival]
    <2>2. r.from = Rival
        OBVIOUS
    <2> QED
        BY <1>2, <2>1, <2>2, SendVersions DEF PatchDoc
<1>3. CASE DeleteDoc(k, b)
    <2> DEFINE unused == CHOOSE x \in Contents : TRUE
    <2>1. PICK v \in VersionsInHand(b) :
              SendCommand(k, [kind |-> "delete", place |-> Place(b), hash |-> v.version,
                              base |-> unused, content |-> unused,
                              marker |-> Marker(b), from |-> v.from])
        BY <1>3 DEF DeleteDoc
    <2> DEFINE r == [kind |-> "delete", place |-> Place(b), hash |-> v.version,
                     base |-> unused, content |-> unused,
                     marker |-> Marker(b), from |-> v.from]
    <2>2. ASSUME v.from # Rival
          PROVE  /\ v.from \in Calls
                 /\ receipt[v.from].code = "ok"
                 /\ request[v.from].kind \in {"create", "patch"}
                 /\ request[v.from].place = Place(b)
                 /\ receipt[v.from].version = v.version
        <3>1. PICK j \in Calls :
                  /\ receipt[j].code = "ok" /\ request[j].place = Place(b)
                  /\ request[j].kind # "delete"
                  /\ v = [version |-> receipt[j].version, from |-> j]
            BY <2>2 DEF VersionsInHand
        <3>2. phase[j] # "idle"
            BY <3>1 DEF VersionInv, TypedInv, TypedTypeOK, NoReceipt
        <3>3. request[j].kind \in {"create", "patch"}
            BY <3>1, <3>2, PlaceOfRequest DEF VersionInv, WriteKinds
        <3> QED
            BY <3>1, <3>3
    <2>3. r.from = v.from /\ r.place = Place(b) /\ r.hash = v.version
        OBVIOUS
    <2> HIDE DEF r
    <2>4. SendCommand(k, r) /\ phase[k] = "idle"
        BY <1>3, <2>1 DEF DeleteDoc, r
    <2> QED
        BY <2>2, <2>3, <2>4, SendVersions
<1> QED
    BY <1>1, <1>2, <1>3

-------------------------------------------------------------------------------
(* A call returns. *)

LEMMA ReturnVersions ==
    ASSUME VersionInv, TypedInv', NEW k \in Calls, NEW code, NEW version,
           Complete(k, code, version),
           code = "ok" /\ request[k].kind \in {"create", "patch"} =>
               /\ version \in Readable(request[k].place)
               /\ request[k].kind = "patch" => history[request[k].place][version].by = k,
           code = "versionMismatch" => verdict[k].code = "versionMismatch"
    PROVE  VersionInv'
<1>1. /\ phase[k] = "sent" /\ phase'[k] = "done"
      /\ receipt'[k] = [code |-> code, version |-> version]
      /\ \A j \in Calls \ {k} : phase'[j] = phase[j] /\ receipt'[j] = receipt[j]
      /\ UNCHANGED <<history, request, pending, verdict>>
    BY DEF Complete, VersionInv, TypedInv, TypedTypeOK
<1>2. receipt[k].code = "none"
    BY <1>1 DEF VersionInv, TypedInv, TypedTypeOK, NoReceipt
<1>3. \A j \in Calls : phase[j] = "idle" <=> phase'[j] = "idle"
    BY <1>1
<1>4. \A c \in Places : \A n \in DOMAIN history[c] : history[c][n].by \in Calls \cup {Rival}
    <2>1. \A c \in Places : \A n \in DOMAIN history[c] : history[c][n] \in Entries
        BY DEF VersionInv, TypedInv, TypedTypeOK
    <2> QED
        BY <2>1 DEF Entries
<1>5. AuthorInv' /\ CreateInv'
    BY <1>1, <1>3, <1>4 DEF VersionInv, AuthorInv, Authored, CreateInv, Created
<1>6. ASSUME NEW j \in Calls
      PROVE  Own(j)' /\ Overtaken(j)' /\ Unserved(j)'
    BY <1>1, <1>3 DEF VersionInv, CallInv, Own, Overtaken, Unserved, WriteResultFrom
<1>7. ASSUME NEW j \in Calls
      PROVE  FromResult(j)'
    <2> SUFFICES ASSUME phase[j] # "idle", request[j].from # Rival
                 PROVE  FromResult(j)'
        BY <1>1, <1>3 DEF FromResult
    <2>1. request[j].from \in Calls
        BY PlaceOfRequest DEF VersionInv
    <2>2. FromResult(j)
        BY DEF VersionInv, CallInv
    <2>3. request[j].from # k
        BY <1>2, <2>2 DEF FromResult
    <2> QED
        BY <1>1, <2>1, <2>2, <2>3 DEF FromResult
<1>8. ASSUME NEW j \in Calls
      PROVE  /\ Reported(j)'
             /\ receipt'[j].code = "versionMismatch" => verdict'[j].code = "versionMismatch"
    BY <1>1 DEF VersionInv, CallInv, Reported, Readable
<1>9. CallInv'
    BY <1>6, <1>7, <1>8 DEF CallInv
<1> QED
    BY <1>5, <1>9 DEF VersionInv

LEMMA AnswerVersions ==
    ASSUME VersionInv, TypedInv', NEW k \in Calls,
           ReceiveVerdict(k) \/ LoseVerdict(k) \/ VerifyCreate(k)
    PROVE  VersionInv'
<1>1. CASE ReceiveVerdict(k)
    <2> DEFINE n == WriteResultFrom(verdict[k])
    <2>1. Complete(k, verdict[k].code, n)
        BY <1>1 DEF ReceiveVerdict
    <2>2. ASSUME verdict[k].code = "ok", request[k].kind \in {"create", "patch"}
          PROVE  /\ n \in Readable(request[k].place)
                 /\ history[request[k].place][n].by = k
        <3>1. request[k].place \in Places
            BY <2>1, PlaceOfRequest DEF Complete, VersionInv
        <3>2. n \in DOMAIN history[request[k].place] /\ history[request[k].place][n].by = k
            BY <2>2 DEF VersionInv, CallInv, Own
        <3>3. history[request[k].place][n].kind = request[k].kind
            BY <3>1, <3>2, TypedAssumption DEF VersionInv, AuthorInv, Authored
        <3> QED
            BY <2>2, <3>2, <3>3 DEF Readable
    <2> HIDE DEF n
    <2> QED
        BY <2>1, <2>2, ReturnVersions
<1>2. CASE LoseVerdict(k)
    BY <1>2, ReturnVersions DEF LoseVerdict
<1>3. CASE VerifyCreate(k)
    <2>1. request[k].kind # "patch"
        BY <1>3 DEF VerifyCreate
    <2>2. CASE \E n \in Readable(request[k].place) : Complete(k, "ok", n)
        BY <2>1, <2>2, ReturnVersions
    <2>3. CASE Complete(k, "documentExists", 0)
        BY <2>3, ReturnVersions
    <2> QED
        BY <1>3, <2>2, <2>3 DEF VerifyCreate
<1> QED
    BY <1>1, <1>2, <1>3

-------------------------------------------------------------------------------
(* A write takes effect. *)

LEMMA WriteVersions ==
    ASSUME VersionInv, NEW c \in Places, NEW e \in Entries, Record(c, e),
           UNCHANGED <<phase, request, receipt>>, pending' \subseteq pending,
           e.by # Rival =>
               /\ e.by \in pending /\ e.by \notin pending'
               /\ c = request[e.by].place
               /\ e.kind = request[e.by].kind,
           e.kind = "create" => VersionOf(c) = 0
    PROVE  /\ AuthorInv' /\ CreateInv'
           /\ \A k \in Calls :
                  /\ Reported(k)' /\ FromResult(k)'
                  /\ verdict'[k] = verdict[k] =>
                         /\ Own(k)' /\ Overtaken(k)' /\ Unserved(k)'
                         /\ receipt'[k].code = "versionMismatch" =>
                                verdict'[k].code = "versionMismatch"
<1>1. /\ Extended
      /\ Len(history'[c]) = Len(history[c]) + 1
      /\ history'[c][Len(history[c]) + 1] = e
      /\ \A d \in Places \ {c} : history'[d] = history[d]
    BY RecordExtends DEF VersionInv
<1>2. \A d \in Places : history[d] \in Seq(Entries) /\ history'[d] \in Seq(Entries)
    BY <1>1 DEF VersionInv, TypedInv, TypedTypeOK, Extended
<1>3. \A d \in Places : \A n \in DOMAIN history[d] :
          n \in DOMAIN history'[d] /\ history'[d][n] = history[d][n]
    BY <1>1, <1>2 DEF Extended
<1>4. \A d \in Places : \A n \in DOMAIN history'[d] :
          n \in DOMAIN history[d] \/ (d = c /\ n = Len(history[c]) + 1 /\ history'[d][n] = e)
    BY <1>1, <1>2
<1>5. e.by # Rival => /\ e.by \in Calls /\ phase[e.by] # "idle"
                      /\ \A d \in Places : \A n \in DOMAIN history[d] :
                             history[d][n].by # e.by
    BY DEF VersionInv, TypedInv, TypedTypeOK, VerdictInv, AuthorInv, Authored
<1>6. AuthorInv'
    <2> SUFFICES ASSUME NEW d \in Places, NEW n \in DOMAIN history'[d],
                        history'[d][n].by # Rival
                 PROVE  Authored(d, n)'
        BY DEF AuthorInv, Authored
    <2>1. CASE n \in DOMAIN history[d]
        <3>1. Authored(d, n) /\ history'[d][n] = history[d][n]
            BY <1>3, <2>1 DEF VersionInv, AuthorInv
        <3>2. history[d][n].by # e.by
            BY <1>5, <2>1, <3>1
        <3>3. \A m \in DOMAIN history'[d] : history'[d][m].by = history[d][n].by =>
                  m \in DOMAIN history[d] /\ history[d][m].by = history[d][n].by
            BY <1>3, <1>4, <3>2
        <3> QED
            BY <3>1, <3>3 DEF Authored
    <2>2. CASE n \notin DOMAIN history[d]
        <3>1. d = c /\ n = Len(history[c]) + 1 /\ history'[d][n] = e
            BY <1>4, <2>2
        <3>2. \A m \in DOMAIN history'[d] : history'[d][m].by = e.by => m = n
            BY <1>3, <1>4, <1>5, <3>1
        <3> QED
            BY <1>5, <3>1, <3>2 DEF Authored
    <2> QED
        BY <2>1, <2>2
<1>7. CreateInv'
    <2> SUFFICES ASSUME NEW d \in Places, NEW n \in DOMAIN history'[d],
                        history'[d][n].kind = "create", n # 1
                 PROVE  history'[d][n - 1].kind = "delete"
        BY DEF CreateInv, Created
    <2>1. CASE n \in DOMAIN history[d]
        <3>1. history[d][n].kind = "create"
            BY <1>3, <2>1
        <3>2. history[d][n - 1].kind = "delete"
            BY <2>1, <3>1 DEF VersionInv, CreateInv, Created
        <3>3. n - 1 \in DOMAIN history[d]
            BY <1>2, <2>1
        <3> QED
            BY <1>3, <3>2, <3>3
    <2>2. CASE n \notin DOMAIN history[d]
        <3>1. d = c /\ n = Len(history[c]) + 1 /\ history'[d][n] = e
            BY <1>4, <2>2
        <3>2. VersionOf(c) = 0
            BY <3>1
        <3>3. n - 1 = Len(history[c]) /\ n - 1 \in DOMAIN history[c]
            BY <1>2, <3>1
        <3>4. history[c][n - 1].kind = "delete"
            BY <1>2, <3>2, <3>3 DEF VersionOf, Readable
        <3> QED
            BY <1>3, <3>1, <3>3, <3>4
    <2> QED
        BY <2>1, <2>2
<1>8. ASSUME NEW k \in Calls
      PROVE  /\ Reported(k)' /\ FromResult(k)'
             /\ verdict'[k] = verdict[k] =>
                    /\ Own(k)' /\ Overtaken(k)' /\ Unserved(k)'
                    /\ receipt'[k].code = "versionMismatch" =>
                           verdict'[k].code = "versionMismatch"
    <2>1. CASE phase[k] = "idle"
        <3>1. receipt[k].code = "none" /\ verdict[k].code = "none"
            BY <2>1 DEF VersionInv, TypedInv, TypedTypeOK, NoReceipt, CallInv, Unserved
        <3> QED
            BY <2>1, <3>1 DEF Reported, FromResult, Own, Overtaken, Unserved
    <2>2. CASE phase[k] # "idle"
        <3>1. request[k].place \in Places
            BY <2>2, PlaceOfRequest DEF VersionInv
        <3>2. Reported(k)'
            BY <1>3, <3>1 DEF VersionInv, CallInv, Reported, Readable
        <3>3. FromResult(k)'
            BY DEF VersionInv, CallInv, FromResult
        <3>4. verdict'[k] = verdict[k] => Own(k)'
            BY <1>3, <3>1 DEF VersionInv, CallInv, Own, WriteResultFrom
        <3>5. verdict'[k] = verdict[k] => Overtaken(k)'
            BY <1>3, <3>1 DEF VersionInv, CallInv, Overtaken
        <3> QED
            BY <2>2, <3>2, <3>3, <3>4, <3>5 DEF VersionInv, CallInv, Unserved
    <2> QED
        BY <2>1, <2>2
<1> QED
    BY <1>6, <1>7, <1>8

(* The version reported to a call is older than the current one: a write of  *)
(* another call or of a rival lies in between.                              *)
LEMMA MismatchIsOvertaken ==
    ASSUME VersionInv, NEW k \in Calls, phase[k] # "idle", request[k].from # Rival,
           VersionOf(request[k].place) \notin {0, request[k].hash}
    PROVE  \E n \in DOMAIN history[request[k].place] :
               /\ n > request[k].hash
               /\ history[request[k].place][n].by # request[k].from
<1> DEFINE j == request[k].from
           c == request[k].place
           v == request[k].hash
           last == Len(history[c])
<1>1. c \in Places /\ j \in Calls
    BY PlaceOfRequest DEF VersionInv
<1>2. history[c] \in Seq(Entries)
    BY <1>1 DEF VersionInv, TypedInv, TypedTypeOK
<1>3. /\ receipt[j].code = "ok" /\ request[j].kind \in {"create", "patch"}
      /\ request[j].place = c /\ receipt[j].version = v
    BY DEF VersionInv, CallInv, FromResult
<1>4. /\ v \in DOMAIN history[c] /\ history[c][v].kind # "delete"
      /\ request[j].kind = "patch" => history[c][v].by = j
    BY <1>1, <1>3 DEF VersionInv, CallInv, Reported, Readable
<1>5. last \in DOMAIN history[c] /\ last > v /\ v \in Nat /\ v >= 1
    <2>1. v \in 1 .. last /\ last \in Nat
        BY <1>2, <1>4
    <2>2. v # last
        <3>1. ASSUME v = last
              PROVE  VersionOf(c) = v
            <4>1. last \in Readable(c)
                BY <1>4, <3>1 DEF Readable
            <4> QED
                BY <3>1, <4>1 DEF VersionOf
        <3> QED
            BY <3>1
    <2> QED
        BY <1>2, <2>1, <2>2
<1>6. CASE history[c][last].by # j
    BY <1>5, <1>6
<1>7. CASE history[c][last].by = j
    <2>1. j # Rival
        BY <1>1, TypedAssumption
    <2>2. /\ history[c][last].kind = request[j].kind
          /\ \A m \in DOMAIN history[c] : history[c][m].by = j => m = last
        BY <1>1, <1>5, <1>7, <2>1 DEF VersionInv, AuthorInv, Authored
    <2>3. history[c][v].by # j
        BY <1>4, <1>5, <2>2
    <2>4. history[c][last].kind = "create"
        BY <1>3, <1>4, <2>2, <2>3
    <2>5. last # 1 /\ history[c][last - 1].kind = "delete"
        <3>1. Created(c, last)
            BY <1>1, <1>5 DEF VersionInv, CreateInv
        <3>2. last # 1
            BY <1>2, <1>5
        <3> QED
            BY <2>4, <3>1, <3>2 DEF Created
    <2>6. last - 1 \in DOMAIN history[c]
        BY <1>2, <1>5, <2>5
    <2>7. last - 1 # v
        BY <1>4, <2>5
    <2>8. last - 1 > v
        BY <1>2, <1>5, <2>7
    <2>9. history[c][last - 1].by # j
        BY <1>5, <2>2, <2>6
    <2> QED
        BY <2>6, <2>8, <2>9
<1> QED
    BY <1>6, <1>7

LEMMA ServeVersions ==
    ASSUME VersionInv, TypedInv', NEW k \in Calls, ServeCommand(k)
    PROVE  VersionInv'
<1> DEFINE r == request[k]
           c == r.place
           at == VersionOf(c)
           next == Len(history[c]) + 1
<1>1. /\ k \in pending /\ pending' = pending \ {k}
      /\ UNCHANGED <<phase, request, receipt>>
    BY DEF ServeCommand
<1>2. phase[k] # "idle"
    BY <1>1 DEF VersionInv, TypedInv, VerdictInv
<1>3. c \in Places
    BY <1>2, PlaceOfRequest DEF VersionInv
<1>4. history[c] \in Seq(Entries) /\ next \in Nat \ {0} /\ at \in Nat
    BY <1>3 DEF VersionInv, TypedInv, TypedTypeOK, VersionOf
<1>5. \A j \in Calls \ {k} : verdict'[j] = verdict[j]
    BY DEF ServeCommand, Answer, Refuse, VersionInv, TypedInv, TypedTypeOK
<1>6. verdict \in [Calls -> Verdicts \cup {Unanswered}]
    BY DEF VersionInv, TypedInv, TypedTypeOK
<1>7. receipt[k].code # "versionMismatch" \/ verdict[k].code = "versionMismatch"
    BY DEF VersionInv, CallInv
<1>8. k \in Calls /\ (receipt[k].code = "versionMismatch" => FALSE)
    BY <1>1, <1>7 DEF VersionInv, CallInv, Unserved
<1>9. ASSUME NEW kind \in {"create", "patch", "delete"}, r.kind = kind,
             kind = "create" => at = 0,
             NEW e, e.kind = kind, e.by = k, Record(c, e),
             NEW hash \in Nat, NEW before \in Nat, NEW after \in Nat,
             kind \in {"create", "patch"} =>
                 (IF after # 0 THEN after ELSE hash) = next,
             Answer(k, "ok", hash, before, after)
      PROVE  VersionInv'
    <2>1. history'[c] = Append(history[c], e)
        BY <1>3, <1>9 DEF Record, VersionInv, TypedInv, TypedTypeOK
    <2>2. e \in Entries
        <3>1. history'[c] \in Seq(Entries)
            BY <1>3 DEF TypedInv, TypedTypeOK
        <3> QED
            BY <1>4, <2>1, <3>1
    <2>3. verdict'[k] = [code |-> "ok", hash |-> hash, before |-> before, after |-> after]
        BY <1>6, <1>9 DEF Answer
    <2>4. kind \in {"create", "patch"} => WriteResultFrom(verdict'[k]) = next
        BY <1>9, <2>3 DEF WriteResultFrom
    <2>5. /\ AuthorInv' /\ CreateInv'
          /\ \A j \in Calls :
                 /\ Reported(j)' /\ FromResult(j)'
                 /\ verdict'[j] = verdict[j] =>
                        /\ Own(j)' /\ Overtaken(j)' /\ Unserved(j)'
                        /\ receipt'[j].code = "versionMismatch" =>
                               verdict'[j].code = "versionMismatch"
        BY <1>1, <1>3, <1>9, <2>2, WriteVersions
    <2>6. next \in DOMAIN history'[c] /\ history'[c][next] = e
        BY <1>4, <2>1, <2>2
    <2>7. Own(k)'
        BY <1>1, <1>9, <2>4, <2>6 DEF Own
    <2>8. Overtaken(k)' /\ Unserved(k)'
        BY <1>1, <1>2, <2>3 DEF Overtaken, Unserved
    <2> QED
        BY <1>1, <1>5, <1>8, <2>5, <2>7, <2>8 DEF VersionInv, CallInv
<1>10. ASSUME NEW code \in TypedCodes \ {"ok"}, Refuse(k, code),
              code = "versionMismatch" => at \notin {0, r.hash}
       PROVE  VersionInv'
    <2>1. history' = history /\ verdict'[k].code = code
        BY <1>6, <1>10 DEF Refuse, Answer
    <2>2. AuthorInv' /\ CreateInv'
        <3>1. \A d \in Places : \A n \in DOMAIN history[d] : Authored(d, n) => Authored(d, n)'
            BY <1>1, <2>1 DEF Authored
        <3> QED
            BY <2>1, <3>1 DEF VersionInv, AuthorInv, CreateInv, Created
    <2>3. ASSUME NEW j \in Calls
          PROVE  /\ Reported(j)' /\ FromResult(j)'
                 /\ verdict'[j] = verdict[j] =>
                        /\ Own(j)' /\ Overtaken(j)' /\ Unserved(j)'
                        /\ receipt'[j].code = "versionMismatch" =>
                               verdict'[j].code = "versionMismatch"
        BY <1>1, <2>1 DEF VersionInv, CallInv, Reported, Readable, FromResult, Own, Overtaken,
                          Unserved, WriteResultFrom
    <2>4. Own(k)' /\ Unserved(k)'
        BY <1>1, <1>2, <2>1 DEF Own, Unserved
    <2>5. Overtaken(k)'
        <3> SUFFICES ASSUME code = "versionMismatch", r.from # Rival
                     PROVE  Overtaken(k)'
            BY <1>1, <2>1 DEF Overtaken
        <3>1. \E n \in DOMAIN history[c] : n > r.hash /\ history[c][n].by # r.from
            BY <1>2, <1>10, MismatchIsOvertaken
        <3> QED
            BY <1>1, <2>1, <3>1 DEF Overtaken
    <2> QED
        BY <1>1, <1>5, <1>8, <2>2, <2>3, <2>4, <2>5 DEF VersionInv, CallInv
<1>11. CASE r.kind = "create" /\ at = 0 /\ Record(c, Entry("create", r.content, r.marker, k))
                              /\ Answer(k, "ok", next, 0, 0)
    <2> DEFINE e == Entry("create", r.content, r.marker, k)
    <2>1. e.kind = "create" /\ e.by = k
        BY DEF Entry
    <2> QED
        BY <1>4, <1>9, <1>11, <2>1
<1>12. CASE r.kind = "patch" /\ at = r.hash /\ Record(c, Entry("patch", Apply(r), r.marker, k))
                             /\ Answer(k, "ok", 0, at, next)
    <2> DEFINE e == Entry("patch", Apply(r), r.marker, k)
    <2>1. e.kind = "patch" /\ e.by = k
        BY DEF Entry
    <2> QED
        BY <1>4, <1>9, <1>12, <2>1
<1>13. CASE r.kind = "delete" /\ at = r.hash
            /\ Record(c, Entry("delete", ContentOf(c), r.marker, k))
            /\ Answer(k, "ok", next, 0, 0)
    <2> DEFINE e == Entry("delete", ContentOf(c), r.marker, k)
    <2>1. e.kind = "delete" /\ e.by = k
        BY DEF Entry
    <2> QED
        BY <1>4, <1>9, <1>13, <2>1
<1>14. CASE r.kind # "create" /\ at # r.hash
            /\ Refuse(k, IF at = 0 THEN "documentNotFound" ELSE "versionMismatch")
    BY <1>10, <1>14 DEF TypedCodes
<1>15. CASE r.kind = "create" /\ Refuse(k, "documentExists")
    BY <1>10, <1>15 DEF TypedCodes
<1>16. CASE Refuse(k, "refused")
    BY <1>10, <1>16 DEF TypedCodes
<1> QED
    BY <1>11, <1>12, <1>13, <1>14, <1>15, <1>16 DEF ServeCommand

LEMMA RivalVersions ==
    ASSUME VersionInv, TypedInv', NEW c \in Places, RivalWrite(c)
    PROVE  VersionInv'
<1>1. PICK kind \in WriteKinds, x \in Contents, v \in SchemaVersions :
          /\ kind = "create" => VersionOf(c) = 0
          /\ Record(c, Entry(kind, x, <<c[2], v>>, Rival))
    BY DEF RivalWrite, WriteKinds
<1>2. PICK e \in Entries : e = Entry(kind, x, <<c[2], v>>, Rival)
    BY DEF Entries, Entry, Places, Markers
<1>3. e.by = Rival /\ e.kind = kind
    BY <1>2 DEF Entry
<1>4. UNCHANGED <<phase, request, pending, verdict, receipt>>
    BY DEF RivalWrite
<1>5. /\ AuthorInv' /\ CreateInv'
      /\ \A j \in Calls :
             /\ Reported(j)' /\ FromResult(j)'
             /\ verdict'[j] = verdict[j] =>
                    /\ Own(j)' /\ Overtaken(j)' /\ Unserved(j)'
                    /\ receipt'[j].code = "versionMismatch" =>
                           verdict'[j].code = "versionMismatch"
    BY <1>1, <1>2, <1>3, <1>4, WriteVersions
<1> QED
    BY <1>4, <1>5 DEF VersionInv, CallInv

-------------------------------------------------------------------------------

LEMMA VersionInvNext == VersionInv /\ [TypedNext]_typedVars => VersionInv'
<1> SUFFICES ASSUME VersionInv, [TypedNext]_typedVars
             PROVE  VersionInv'
    OBVIOUS
<1>1. TypedInv'
    BY TypedInvNext DEF VersionInv
<1>2. CASE \E k \in Calls, b \in Bindings :
               CreateDoc(k, b) \/ PatchDoc(k, b) \/ DeleteDoc(k, b)
    BY <1>1, <1>2, CallVersions
<1>3. CASE \E k \in Calls : ReceiveVerdict(k) \/ LoseVerdict(k) \/ VerifyCreate(k)
    BY <1>1, <1>3, AnswerVersions
<1>4. CASE \E k \in Calls : ServeCommand(k)
    BY <1>1, <1>4, ServeVersions
<1>5. CASE \E c \in Places : RivalWrite(c)
    BY <1>1, <1>5, RivalVersions
<1>6. CASE UNCHANGED typedVars
    <2>1. \A d \in Places : \A n \in DOMAIN history[d] : Authored(d, n) => Authored(d, n)'
        BY <1>6 DEF Authored, typedVars
    <2>2. AuthorInv' /\ CreateInv'
        BY <1>6, <2>1 DEF VersionInv, AuthorInv, CreateInv, Created, typedVars
    <2>3. CallInv'
        BY <1>6 DEF VersionInv, CallInv, Own, Reported, Readable, FromResult, Overtaken, Unserved,
                    WriteResultFrom, typedVars
    <2> QED
        BY <1>1, <2>2, <2>3 DEF VersionInv
<1> QED
    BY <1>2, <1>3, <1>4, <1>5, <1>6 DEF TypedNext

(* A call that names the version of an earlier WriteResult is refused with   *)
(* versionMismatch only if somebody else wrote after that version            *)
(* (writeResultFrom, writeResultFromExisting).                              *)
THEOREM StaleMeansRaceCorrect == TypedSpec => []StaleMeansRace
<1>1. VersionInv => StaleMeansRace
    BY DEF VersionInv, CallInv, Overtaken, StaleMeansRace
<1> QED
    BY <1>1, VersionInvInit, VersionInvNext, PTL DEF TypedSpec
===============================================================================
