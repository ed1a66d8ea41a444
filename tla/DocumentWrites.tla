---------------------------- MODULE DocumentWrites ----------------------------
(***************************************************************************)
(* The calls that are built from several routed commands on one document:  *)
(* Create with its follow-up read (Create in src/crud.go, executeCreate in  *)
(* src/create_verify.go) and PatchWithVersionRetry (src/crud.go).           *)
(*                                                                         *)
(* A command is what CommandContract promises without transport retries:   *)
(* it is executed at most once, and after a transport error it may still be *)
(* executed.  The document is the sequence of the writes that took effect,  *)
(* and its version "#" after a write is the position of the write in it.    *)
(* Reads may be served by a replica that lags behind.                       *)
(***************************************************************************)
EXTENDS Naturals, Sequences, FiniteSets

CONSTANTS
    Callers,        \* goroutines, each making one call
    Other,          \* the writers that do not use this client
    MaxOther,       \* bound on their writes
    VerifyDelay     \* the sign of Config.CreateAmbiguousVerifyDelay

ASSUME DocumentAssumption ==
    /\ Other \notin Callers
    /\ MaxOther \in Nat
    /\ VerifyDelay \in {"negative", "zero", "positive"}

VARIABLES
    log,        \* the writes of the document that took effect
    replica,    \* how many of them the read replica has applied
    op,         \* the call of each caller
    pc,         \* where it is
    detail,     \* its patch: the version it was built from, the "#" it names
    wire,       \* callers whose write no server has served yet
    answer,     \* the answer to that write
    result,     \* what the call returned
    begun,      \* ghost: the length of the log when the call began
    lagged      \* ghost: calls that read a stale version

serverVars == <<log, replica, wire, answer>>
ghosts == <<begun, lagged>>
vars == <<serverVars, op, pc, detail, result, ghosts>>

Codes == {"ok", "documentExists", "versionMismatch", "documentNotFound",
          "refused", "transport", "error"}
Outcome == {o \in [code : Codes, version : Nat] : o.code = "ok" <=> o.version # 0}
None == [code |-> "none", version |-> 0]
Failed(code) == [code |-> code, version |-> 0]
Done(version) == [code |-> "ok", version |-> version]

Write == [kind : {"create", "patch", "delete"}, by : Callers \cup {Other}, seen : Nat]

Sending == {"create", "patch", "repatch"}
Reading == {"read", "reread", "existing", "verify"}

TypeOK ==
    /\ log \in Seq(Write)
    /\ replica \in 0 .. Len(log)
    /\ op \in [Callers -> {"create", "patch"}]
    /\ pc \in [Callers -> {"idle", "delay", "done"} \cup Sending \cup Reading]
    /\ detail \in [Callers -> [seen : Nat, hash : Nat]]
    /\ wire \subseteq Callers
    /\ answer \in [Callers -> {None} \cup Outcome]
    /\ result \in [Callers -> {None} \cup Outcome]
    /\ begun \in [Callers -> Nat]
    /\ lagged \subseteq Callers
    /\ \A c \in Callers : pc[c] = "done" <=> result[c] # None

\* The version of the document after its first n writes, 0 when there is none.
VersionAt(n) == IF n = 0 \/ log[n].kind = "delete" THEN 0 ELSE n
Version == VersionAt(Len(log))

Init ==
    /\ log \in {<< >>, <<[kind |-> "create", by |-> Other, seen |-> 0]>>}
    /\ replica = 0
    /\ op \in [Callers -> {"create", "patch"}]
    /\ pc = [c \in Callers |-> "idle"]
    /\ detail = [c \in Callers |-> [seen |-> 0, hash |-> 0]]
    /\ wire = {}
    /\ answer = [c \in Callers |-> None]
    /\ result = [c \in Callers |-> None]
    /\ begun = [c \in Callers |-> 0]
    /\ lagged = {}

-------------------------------------------------------------------------------

Goto(c, where) ==
    /\ pc' = [pc EXCEPT ![c] = where]
    /\ UNCHANGED result

Return(c, outcome) ==
    /\ pc' = [pc EXCEPT ![c] = "done"]
    /\ result' = [result EXCEPT ![c] = outcome]

\* The caller has sent its current write and has not looked at its answer.
Sent(c) == c \in wire \/ answer[c] # None

\* What a read may find: the document, or what the replica has of it.
Found == {Version, VersionAt(replica)}
Lag(c, v) == lagged' = IF v = Version THEN lagged ELSE lagged \cup {c}

\* Create marshals its body; PatchWithVersionRetry starts with a read.
Begin(c) ==
    /\ pc[c] = "idle"
    /\ Goto(c, IF op[c] = "create" THEN "create" ELSE "read")
    /\ begun' = [begun EXCEPT ![c] = Len(log)]
    /\ UNCHANGED <<op, detail, serverVars, lagged>>

\* No establishment document, no route or no token: nothing is sent, and
\* executeCreate returns before its error handling or with a plain error.
Unsent(c) ==
    /\ pc[c] \in Sending
    /\ ~ Sent(c)
    /\ Return(c, Failed("error"))
    /\ UNCHANGED <<op, detail, serverVars, ghosts>>

Post(c) ==
    /\ pc[c] \in Sending
    /\ ~ Sent(c)
    /\ wire' = wire \cup {c}
    /\ UNCHANGED <<op, pc, detail, log, replica, answer, result, ghosts>>

\* executeCreate on documentExists reads the document.
CreateExists(c) ==
    /\ pc[c] = "create"
    /\ answer[c].code = "documentExists"
    /\ Goto(c, "existing")
    /\ UNCHANGED <<op, detail, serverVars, ghosts>>

\* Mutant of Mismatch: every versionMismatch is retried.
MismatchAlways(c) ==
    /\ pc[c] \in {"patch", "repatch"}
    /\ answer[c].code = "versionMismatch"
    /\ Goto(c, "reread")
    /\ answer' = [answer EXCEPT ![c] = None]
    /\ UNCHANGED <<op, detail, log, replica, wire, ghosts>>

\* Mutant of Mismatch: the patch is sent again without reading again.
MismatchUnread(c) ==
    /\ pc[c] = "patch"
    /\ answer[c].code = "versionMismatch"
    /\ Goto(c, "repatch")
    /\ answer' = [answer EXCEPT ![c] = None]
    /\ UNCHANGED <<op, detail, log, replica, wire, ghosts>>

\* PatchWithVersionRetry on its first versionMismatch reads again.
Mismatch(c) ==
    /\ pc[c] = "patch"
    /\ answer[c].code = "versionMismatch"
    /\ Goto(c, "reread")
    /\ answer' = [answer EXCEPT ![c] = None]
    /\ UNCHANGED <<op, detail, log, replica, wire, ghosts>>

\* Every other answer is what the call returns.
Receive(c) ==
    /\ pc[c] \in Sending
    /\ answer[c] # None
    /\ pc[c] = "create" => answer[c].code # "documentExists"
    /\ pc[c] = "patch" => answer[c].code # "versionMismatch"
    /\ Return(c, answer[c])
    /\ UNCHANGED <<op, detail, serverVars, ghosts>>

\* A TransportError.  A negative delay is a delay of zero, not the end
\* (createAmbiguousVerifyDelay), and zero is three seconds.
GiveUp(c) ==
    /\ pc[c] \in Sending
    /\ Sent(c)
    /\ IF pc[c] = "create"
       THEN Goto(c, IF VerifyDelay = "negative" THEN "verify" ELSE "delay")
       ELSE Return(c, Failed("transport"))
    /\ UNCHANGED <<op, detail, serverVars, ghosts>>

\* verifyCreateAfterDelay: the timer fires, or the context is done.
Delay(c) ==
    /\ pc[c] = "delay"
    /\ Goto(c, "verify") \/ Return(c, Failed("transport"))
    /\ UNCHANGED <<op, detail, serverVars, ghosts>>

\* Why the follow-up read was made: what executeCreate returns without it.
Reason(c) == Failed(IF pc[c] = "existing" THEN "documentExists" ELSE "transport")

\* Mutant of FollowUpRead: the answer of the read is not looked at.
FollowUpReadUnchecked(c) ==
    /\ pc[c] \in {"existing", "verify"}
    /\ \/ \E v \in Found : Return(c, Done(v)) /\ Lag(c, v)
       \/ Return(c, Reason(c)) /\ UNCHANGED lagged
    /\ UNCHANGED <<op, detail, serverVars, begun>>

\* Mutant of FollowUpRead: success with the version the call was made with.
FollowUpReadUnversioned(c) ==
    /\ pc[c] \in {"existing", "verify"}
    /\ \/ \E v \in Found : v # 0 /\ Return(c, Done(begun[c] + 1)) /\ Lag(c, v)
       \/ Return(c, Reason(c)) /\ UNCHANGED lagged
    /\ UNCHANGED <<op, detail, serverVars, begun>>

\* writeResultFromExisting: a document that can be read is the one created.
FollowUpRead(c) ==
    /\ pc[c] \in {"existing", "verify"}
    /\ \/ \E v \in Found : v # 0 /\ Return(c, Done(v)) /\ Lag(c, v)
       \/ Return(c, Reason(c)) /\ UNCHANGED lagged
    /\ UNCHANGED <<op, detail, serverVars, begun>>

\* Mutant of Build: the second patch keeps the changes of the first.
BuildOnce(c, v) ==
    detail' = [detail EXCEPT ![c] = [seen |-> IF @.seen = 0 THEN v ELSE @.seen, hash |-> v]]

\* The caller's build function derives the patch, "#" included, from the SOT.
Build(c, v) == detail' = [detail EXCEPT ![c] = [seen |-> v, hash |-> v]]

\* The reads of PatchWithVersionRetry.
ReadDocument(c) ==
    /\ pc[c] \in {"read", "reread"}
    /\ \E v \in Found \ {0} :
        /\ Build(c, v)
        /\ Lag(c, v)
    /\ Goto(c, IF pc[c] = "read" THEN "patch" ELSE "repatch")
    /\ UNCHANGED <<op, serverVars, begun>>

\* The read fails, finds no document, or build returns an error.
ReadFails(c) ==
    /\ pc[c] \in {"read", "reread"}
    /\ \/ 0 \in Found /\ Return(c, Failed("documentNotFound"))
       \/ \E code \in {"refused", "transport", "error"} : Return(c, Failed(code))
    /\ UNCHANGED <<op, detail, serverVars, ghosts>>

-------------------------------------------------------------------------------
\* The database.

Append1(kind, by, seen) ==
    log' = Append(log, [kind |-> kind, by |-> by, seen |-> seen])

\* The verdict on a write, and its effect.
Execute(c) ==
    \/ /\ op[c] = "create" /\ Version = 0
       /\ Append1("create", c, 0)
       /\ answer' = [answer EXCEPT ![c] = Done(Len(log) + 1)]
    \/ /\ op[c] = "create" /\ Version # 0
       /\ answer' = [answer EXCEPT ![c] = Failed("documentExists")]
       /\ UNCHANGED log
    \/ /\ op[c] = "patch" /\ Version # 0 /\ Version = detail[c].hash
       /\ Append1("patch", c, detail[c].seen)
       /\ answer' = [answer EXCEPT ![c] = Done(Len(log) + 1)]
    \/ /\ op[c] = "patch" /\ Version # detail[c].hash
       /\ answer' = [answer EXCEPT
                       ![c] = Failed(IF Version = 0 THEN "documentNotFound" ELSE "versionMismatch")]
       /\ UNCHANGED log
    \/ /\ answer' = [answer EXCEPT ![c] = Failed("refused")]
       /\ UNCHANGED log

Serve(c) ==
    /\ c \in wire
    /\ wire' = wire \ {c}
    /\ Execute(c)
    /\ UNCHANGED <<replica, op, pc, detail, result, ghosts>>

OtherWrites == Cardinality({i \in DOMAIN log : log[i].by = Other})

WriteByOther ==
    /\ OtherWrites < MaxOther
    /\ \E kind \in IF Version = 0 THEN {"create"} ELSE {"patch", "delete"} :
           Append1(kind, Other, Version)
    /\ UNCHANGED <<replica, wire, answer, op, pc, detail, result, ghosts>>

Replicate ==
    /\ replica < Len(log)
    /\ replica' = replica + 1
    /\ UNCHANGED <<log, wire, answer, op, pc, detail, result, ghosts>>

-------------------------------------------------------------------------------

Proceed(c) ==
    \/ Unsent(c)
    \/ Post(c)
    \/ CreateExists(c)
    \/ Mismatch(c)
    \/ Receive(c)
    \/ GiveUp(c)
    \/ Delay(c)
    \/ FollowUpRead(c)
    \/ ReadDocument(c)
    \/ ReadFails(c)

Next ==
    \/ \E c \in Callers : Begin(c) \/ Proceed(c) \/ Serve(c)
    \/ WriteByOther
    \/ Replicate

Spec == Init /\ [][Next]_vars

\* A call that has begun is scheduled and its waits are bounded by timeouts.
Fairness == \A c \in Callers : WF_vars(Proceed(c))

FairSpec == Spec /\ Fairness

-------------------------------------------------------------------------------
\* Properties.

\* A patch of PatchWithVersionRetry takes effect only on the version its changes
\* were computed from: no write in between is lost, however the calls interleave,
\* whatever replica they read, and also when the patch is served after the call
\* gave up on it.
NoLostUpdate ==
    \A i \in DOMAIN log :
        log[i].kind = "patch" /\ log[i].by \in Callers => log[i].seen = i - 1

\* PatchWithVersionRetry reports versionMismatch only when two writes of others
\* took effect during the call, or when a replica gave it a stale version.
MismatchMeansTwoRaces ==
    \A c \in Callers \ lagged :
        result[c].code = "versionMismatch" =>
            Cardinality({i \in DOMAIN log : i > begun[c] /\ log[i].by # c}) >= 2

\* A Create that succeeds reports a version that the document had at some point
\* of the call, its own write or the one its follow-up read found, unless a
\* replica gave it a stale version (executeCreate, writeResultFromExisting).
CreateSuccessIsReal ==
    \A c \in Callers \ lagged :
        op[c] = "create" /\ result[c].code = "ok" =>
            \E n \in begun[c] .. Len(log) :
                n # 0 /\ VersionAt(n) = result[c].version

\* Every call returns: one retry of the patch, one read of the create.
Termination == \A c \in Callers : pc[c] # "idle" ~> pc[c] = "done"

\* What Config says of CreateAmbiguousVerifyDelay: a negative value disables the
\* read that follows a create's transport error.
NegativeDisablesVerify ==
    VerifyDelay = "negative" => \A c \in Callers : pc[c] # "verify"
===============================================================================
