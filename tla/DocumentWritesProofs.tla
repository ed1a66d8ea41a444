------------------------- MODULE DocumentWritesProofs -------------------------
(***************************************************************************)
(* For any callers, any number of writes by others and any verify delay,   *)
(* PatchWithVersionRetry loses no update and reports a mismatch only after  *)
(* two races, and a create that reports success left a document.           *)
(***************************************************************************)
EXTENDS DocumentWrites, TLAPS, FiniteSetTheorems

(* A patch names the version its changes were computed from. *)
DetailInv == \A c \in Callers : detail[c].seen = detail[c].hash

Inv == TypeOK /\ DetailInv /\ NoLostUpdate

-------------------------------------------------------------------------------

LEMMA VersionType ==
    ASSUME TypeOK
    PROVE  /\ Version \in Nat
           /\ Found \subseteq Nat
           /\ Version # 0 => Version = Len(log)
BY DEF TypeOK, Version, VersionAt, Found

LEMMA OutcomeType ==
    /\ \A code \in Codes \ {"ok"} : Failed(code) \in Outcome
    /\ \A v \in Nat \ {0} : Done(v) \in Outcome
    /\ None \notin Outcome
BY DEF Outcome, Failed, Done, None, Codes

(* What a call returns keeps the shape that TypeOK gives it ... *)
CallType ==
    /\ pc \in [Callers -> {"idle", "delay", "done"} \cup Sending \cup Reading]
    /\ result \in [Callers -> {None} \cup Outcome]
    /\ \A c \in Callers : pc[c] = "done" <=> result[c] # None

LEMMA ReturnType ==
    ASSUME CallType, NEW c \in Callers, NEW outcome \in Outcome, Return(c, outcome)
    PROVE  CallType'
BY OutcomeType DEF CallType, Return

(* ... and so does every other step of it. *)
LEMMA GotoType ==
    ASSUME CallType, NEW c \in Callers, pc[c] # "done",
           NEW where \in {"delay"} \cup Sending \cup Reading, Goto(c, where)
    PROVE  CallType'
<1>1. where # "done"
    BY DEF Sending, Reading
<1> QED
    BY <1>1 DEF CallType, Goto

LEMMA InvInit == Init => Inv
<1> SUFFICES ASSUME Init
             PROVE  Inv
    OBVIOUS
<1>1. log \in Seq(Write) /\ replica \in 0 .. Len(log)
    <2>1. CASE log = << >>
        BY <2>1 DEF Init
    <2>2. CASE log = <<[kind |-> "create", by |-> Other, seen |-> 0]>>
        <3>1. [kind |-> "create", by |-> Other, seen |-> 0] \in Write
            BY DEF Write
        <3> QED
            BY <2>2, <3>1 DEF Init
    <2> QED
        BY <2>1, <2>2 DEF Init
<1>2. pc \in [Callers -> {"idle"}] /\ result \in [Callers -> {None}]
    BY DEF Init
<1>3. CallType
    BY <1>2 DEF Init, CallType
<1>4. TypeOK
    BY <1>1, <1>3 DEF Init, TypeOK, CallType
<1>5. DetailInv
    BY DEF Init, DetailInv
<1>6. NoLostUpdate
    BY DEF Init, NoLostUpdate
<1> QED
    BY <1>4, <1>5, <1>6 DEF Inv

-------------------------------------------------------------------------------
(* The steps of a call. *)

LEMMA CallStep ==
    ASSUME TypeOK, NEW c \in Callers, Begin(c) \/ Proceed(c)
    PROVE  TypeOK'
<1>1. CallType
    BY DEF TypeOK, CallType
<1>2. answer[c] # None => answer[c] \in Outcome
    BY DEF TypeOK
<1>3. CASE Begin(c)
    <2>1. CallType'
        BY <1>1, <1>3, GotoType DEF Begin, Sending, Reading
    <2>2. begun' \in [Callers -> Nat]
        BY <1>3 DEF Begin, TypeOK
    <2> QED
        BY <1>3, <2>1, <2>2 DEF Begin, TypeOK, CallType, serverVars
<1>4. CASE Unsent(c)
    <2>1. CallType'
        BY <1>1, <1>4, ReturnType, OutcomeType DEF Unsent, Codes
    <2> QED
        BY <1>4, <2>1 DEF Unsent, TypeOK, CallType, serverVars, ghosts
<1>5. CASE Post(c)
    BY <1>5 DEF Post, TypeOK, ghosts
<1>6. CASE CreateExists(c)
    <2>1. CallType'
        BY <1>1, <1>6, GotoType DEF CreateExists, Reading
    <2> QED
        BY <1>6, <2>1 DEF CreateExists, TypeOK, CallType, serverVars, ghosts
<1>7. CASE Mismatch(c)
    <2>1. CallType'
        BY <1>1, <1>7, GotoType DEF Mismatch, Reading
    <2> QED
        BY <1>7, <2>1 DEF Mismatch, TypeOK, CallType, ghosts
<1>8. CASE Receive(c)
    <2>1. CallType'
        BY <1>1, <1>2, <1>8, ReturnType DEF Receive
    <2> QED
        BY <1>8, <2>1 DEF Receive, TypeOK, CallType, serverVars, ghosts
<1>9. CASE GiveUp(c)
    <2>1. CallType'
        BY <1>1, <1>9, GotoType, ReturnType, OutcomeType DEF GiveUp, Reading, Sending, Codes
    <2> QED
        BY <1>9, <2>1 DEF GiveUp, TypeOK, CallType, serverVars, ghosts
<1>10. CASE Delay(c)
    <2>1. CallType'
        BY <1>1, <1>10, GotoType, ReturnType, OutcomeType DEF Delay, Reading, Codes
    <2> QED
        BY <1>10, <2>1 DEF Delay, TypeOK, CallType, serverVars, ghosts
<1>11. CASE FollowUpRead(c)
    <2>1. Reason(c) \in Outcome
        BY OutcomeType DEF Reason, Codes
    <2>2. \A v \in Found : v # 0 => Done(v) \in Outcome
        BY VersionType, OutcomeType
    <2>3. CallType'
        BY <1>1, <1>11, <2>1, <2>2, ReturnType DEF FollowUpRead
    <2> QED
        BY <1>11, <2>3 DEF FollowUpRead, Lag, TypeOK, CallType, serverVars
<1>12. CASE ReadDocument(c)
    <2>1. CallType'
        BY <1>1, <1>12, GotoType DEF ReadDocument, Sending
    <2>2. PICK v \in Nat : Build(c, v) /\ Lag(c, v)
        BY <1>12, VersionType DEF ReadDocument
    <2>3. detail' \in [Callers -> [seen : Nat, hash : Nat]] /\ lagged' \subseteq Callers
        BY <2>2 DEF Build, Lag, TypeOK
    <2> QED
        BY <1>12, <2>1, <2>3 DEF ReadDocument, TypeOK, CallType, serverVars
<1>13. CASE ReadFails(c)
    <2>1. CallType'
        BY <1>1, <1>13, ReturnType, OutcomeType DEF ReadFails, Codes
    <2> QED
        BY <1>13, <2>1 DEF ReadFails, TypeOK, CallType, serverVars, ghosts
<1> QED
    BY <1>3, <1>4, <1>5, <1>6, <1>7, <1>8, <1>9, <1>10, <1>11, <1>12, <1>13 DEF Proceed

(* A call writes nothing itself, and builds its patch from one read. *)
LEMMA CallBuilds ==
    ASSUME Inv, NEW c \in Callers, Begin(c) \/ Proceed(c)
    PROVE  DetailInv' /\ NoLostUpdate'
<1>1. log' = log
    BY DEF Begin, Proceed, Unsent, Post, CreateExists, Mismatch, Receive, GiveUp, Delay,
           FollowUpRead, ReadDocument, ReadFails, serverVars
<1>2. DetailInv'
    <2>1. CASE ReadDocument(c)
        BY <2>1 DEF ReadDocument, Build, Inv, DetailInv, TypeOK
    <2>2. CASE ~ ReadDocument(c)
        BY <2>2 DEF Begin, Proceed, Unsent, Post, CreateExists, Mismatch, Receive, GiveUp,
                    Delay, FollowUpRead, ReadFails, Inv, DetailInv
    <2> QED
        BY <2>1, <2>2
<1>3. NoLostUpdate'
    BY <1>1 DEF Inv, NoLostUpdate
<1> QED
    BY <1>2, <1>3

-------------------------------------------------------------------------------
(* The steps of the database. *)

LEMMA AppendStep ==
    ASSUME Inv, NEW kind \in {"create", "patch", "delete"}, NEW by \in Callers \cup {Other},
           NEW seen \in Nat, Append1(kind, by, seen),
           kind = "patch" /\ by \in Callers => seen = Len(log)
    PROVE  /\ log' \in Seq(Write)
           /\ Len(log') = Len(log) + 1
           /\ NoLostUpdate'
<1> DEFINE entry == [kind |-> kind, by |-> by, seen |-> seen]
<1>1. entry \in Write /\ log \in Seq(Write)
    BY DEF Write, Inv, TypeOK
<1>2. log' = Append(log, entry)
    BY DEF Append1
<1>3. /\ log' \in Seq(Write)
      /\ Len(log') = Len(log) + 1
      /\ DOMAIN log' = 1 .. Len(log) + 1
      /\ \A k \in 1 .. Len(log) : log'[k] = log[k]
      /\ log'[Len(log) + 1] = entry
    BY <1>1, <1>2
<1>4. NoLostUpdate'
    BY <1>1, <1>3 DEF NoLostUpdate, Inv
<1> QED
    BY <1>3, <1>4

LEMMA ServeStep ==
    ASSUME Inv, NEW c \in Callers, Serve(c)
    PROVE  Inv'
<1>1. TypeOK /\ DetailInv /\ Len(log) \in Nat
    BY DEF Inv, TypeOK
<1>2. UNCHANGED <<replica, op, pc, detail, result, begun, lagged>> /\ wire' \subseteq Callers
    BY <1>1 DEF Serve, ghosts, TypeOK
<1>3. /\ log' \in Seq(Write)
      /\ Len(log') >= Len(log)
      /\ NoLostUpdate'
      /\ answer' \in [Callers -> {None} \cup Outcome]
    <2>0. ASSUME NEW outcome \in Outcome, answer' = [answer EXCEPT ![c] = outcome]
          PROVE  answer' \in [Callers -> {None} \cup Outcome]
        BY <1>1, <2>0 DEF TypeOK
    <2>1. CASE op[c] = "create" /\ Append1("create", c, 0)
               /\ answer' = [answer EXCEPT ![c] = Done(Len(log) + 1)]
        <3>1. log' \in Seq(Write) /\ Len(log') = Len(log) + 1 /\ NoLostUpdate'
            BY <2>1, AppendStep
        <3>2. Done(Len(log) + 1) \in Outcome
            BY <1>1, OutcomeType
        <3>3. answer' \in [Callers -> {None} \cup Outcome]
            BY <2>0, <2>1, <3>2
        <3>4. Len(log') >= Len(log)
            BY <1>1, <3>1
        <3> QED
            BY <3>1, <3>3, <3>4
    <2>2. CASE /\ Version # 0 /\ Version = detail[c].hash
               /\ Append1("patch", c, detail[c].seen)
               /\ answer' = [answer EXCEPT ![c] = Done(Len(log) + 1)]
        <3>1. detail[c].seen = Len(log) /\ detail[c].seen \in Nat
            BY <1>1, <2>2, VersionType DEF DetailInv, TypeOK
        <3>2. log' \in Seq(Write) /\ Len(log') = Len(log) + 1 /\ NoLostUpdate'
            BY <2>2, <3>1, AppendStep
        <3>3. Done(Len(log) + 1) \in Outcome
            BY <1>1, OutcomeType
        <3>4. answer' \in [Callers -> {None} \cup Outcome]
            BY <2>0, <2>2, <3>3
        <3>5. Len(log') >= Len(log)
            BY <1>1, <3>2
        <3> QED
            BY <3>2, <3>4, <3>5
    <2>3. CASE /\ UNCHANGED log
               /\ \E code \in Codes \ {"ok"} : answer' = [answer EXCEPT ![c] = Failed(code)]
        <3>1. answer' \in [Callers -> {None} \cup Outcome]
            BY <2>0, <2>3, OutcomeType
        <3>2. NoLostUpdate' /\ log' \in Seq(Write) /\ Len(log') >= Len(log)
            BY <1>1, <2>3 DEF TypeOK, Inv, NoLostUpdate
        <3> QED
            BY <3>1, <3>2
    <2> QED
        BY <2>1, <2>2, <2>3 DEF Serve, Execute, Codes
<1>4. TypeOK'
    BY <1>1, <1>2, <1>3 DEF TypeOK
<1> QED
    BY <1>1, <1>2, <1>3, <1>4 DEF Inv, DetailInv

LEMMA OtherStep ==
    ASSUME Inv, WriteByOther \/ Replicate
    PROVE  Inv'
<1>1. TypeOK /\ DetailInv /\ Len(log) \in Nat
    BY DEF Inv, TypeOK
<1>2. CASE WriteByOther
    <2>1. PICK kind \in {"create", "patch", "delete"} : Append1(kind, Other, Version)
        BY <1>2 DEF WriteByOther
    <2>2. log' \in Seq(Write) /\ Len(log') = Len(log) + 1 /\ NoLostUpdate'
        BY <1>1, <2>1, AppendStep, VersionType, DocumentAssumption
    <2> QED
        BY <1>1, <1>2, <2>2 DEF WriteByOther, ghosts, Inv, TypeOK, DetailInv
<1>3. CASE Replicate
    BY <1>1, <1>3 DEF Replicate, ghosts, Inv, TypeOK, DetailInv, NoLostUpdate
<1> QED
    BY <1>2, <1>3

LEMMA InvHolds == Spec => []Inv
<1>1. ASSUME Inv, [Next]_vars
      PROVE  Inv'
    <2>1. ASSUME NEW c \in Callers, Begin(c) \/ Proceed(c)
          PROVE  Inv'
        BY <1>1, <2>1, CallStep, CallBuilds DEF Inv
    <2>2. CASE UNCHANGED vars
        BY <1>1, <2>2 DEF vars, serverVars, ghosts, Inv, TypeOK, DetailInv, NoLostUpdate
    <2> QED
        BY <1>1, <2>1, <2>2, ServeStep, OtherStep DEF Next
<1> QED
    BY <1>1, InvInit, PTL DEF Spec

-------------------------------------------------------------------------------

(* The variables of Create and PatchWithVersionRetry keep their types. *)
THEOREM TypeCorrect == Spec => []TypeOK
<1>1. Inv => TypeOK
    BY DEF Inv
<1> QED
    BY <1>1, InvHolds, PTL

(* A patch of PatchWithVersionRetry takes effect on the version it was computed *)
(* from, for any callers, writers, replicas and late answers.                   *)
THEOREM NoLostUpdateCorrect == Spec => []NoLostUpdate
<1>1. Inv => NoLostUpdate
    BY DEF Inv
<1> QED
    BY <1>1, InvHolds, PTL

-------------------------------------------------------------------------------
(* What the two calls report. *)

(* Where the calls can be, and when they have a write under way. *)
PhaseInv ==
    \A c \in Callers :
        /\ begun[c] <= Len(log)
        /\ pc[c] \in {"idle", "done"} \cup
                IF op[c] = "create" THEN {"create", "existing", "delay", "verify"}
                                    ELSE {"read", "patch", "reread", "repatch"}
        /\ c \in wire => answer[c] = None
        /\ pc[c] \in {"idle", "read", "reread"} => c \notin wire /\ answer[c] = None
        /\ op[c] = "create" => /\ answer[c].code # "versionMismatch"
                               /\ result[c].code # "versionMismatch"

(* A patch that was not answered with success took no effect, as long as its call *)
(* runs, and none took effect when the call reports a mismatch.                   *)
WroteNothing(c) == \A i \in DOMAIN log : log[i].by # c

OwnInv ==
    \A c \in Callers : op[c] = "patch" =>
        /\ pc[c] # "done" /\ answer[c].code # "ok" => WroteNothing(c)
        /\ result[c].code = "versionMismatch" => WroteNothing(c) /\ c \notin wire

(* Each mismatch of a call that read no stale version means a write since its last *)
(* read: one since it began before the second read, another before the report.     *)
RaceInv ==
    \A c \in Callers \ lagged : op[c] = "patch" =>
        /\ pc[c] \in {"patch", "repatch"} =>
               /\ detail[c].hash <= Len(log)
               /\ answer[c].code = "versionMismatch" => detail[c].hash < Len(log)
        /\ pc[c] = "patch" => begun[c] <= detail[c].hash
        /\ pc[c] = "reread" => begun[c] < Len(log)
        /\ pc[c] = "repatch" => begun[c] < detail[c].hash
        /\ result[c].code = "versionMismatch" => begun[c] + 2 <= Len(log)

(* A version that the document had since the call began. *)
Real(c, version) == \E n \in begun[c] .. Len(log) : n # 0 /\ VersionAt(n) = version

CreateInv ==
    \A c \in Callers : op[c] = "create" =>
        /\ answer[c].code = "ok" => Real(c, answer[c].version)
        /\ c \notin lagged /\ result[c].code = "ok" => Real(c, result[c].version)

ReportInv == PhaseInv /\ OwnInv /\ RaceInv /\ CreateInv

LEMMA ReportInit == Init => ReportInv
<1> SUFFICES ASSUME Init
             PROVE  ReportInv
    OBVIOUS
<1>1. /\ \A c \in Callers : /\ pc[c] = "idle" /\ answer[c] = None /\ result[c] = None
                            /\ begun[c] = 0 /\ c \notin wire
      /\ Len(log) \in Nat
      /\ \A i \in DOMAIN log : log[i].by = Other
    BY DEF Init
<1>2. None.code \notin {"ok", "versionMismatch"}
    BY DEF None
<1>3. PhaseInv
    BY <1>1, <1>2 DEF PhaseInv
<1>4. OwnInv
    BY <1>1, <1>2, DocumentAssumption DEF OwnInv, WroteNothing
<1>5. RaceInv /\ CreateInv
    BY <1>1, <1>2 DEF RaceInv, CreateInv
<1> QED
    BY <1>3, <1>4, <1>5 DEF ReportInv

LEMMA CodesOf ==
    /\ None.code = "none"
    /\ \A code : Failed(code).code = code
    /\ \A v : Done(v).code = "ok" /\ Done(v).version = v
BY DEF None, Failed, Done

(* A call neither writes nor answers: it changes its own state only. *)
LEMMA CallLocal ==
    ASSUME TypeOK, NEW c \in Callers, Begin(c) \/ Proceed(c)
    PROVE  /\ UNCHANGED <<log, op>>
           /\ lagged \subseteq lagged'
           /\ \A d \in Callers \ {c} :
                  /\ pc'[d] = pc[d] /\ result'[d] = result[d] /\ answer'[d] = answer[d]
                  /\ begun'[d] = begun[d] /\ detail'[d] = detail[d]
                  /\ d \in wire' <=> d \in wire
BY DEF Begin, Proceed, Unsent, Post, CreateExists, Mismatch, Receive, GiveUp, Delay, FollowUpRead,
       ReadDocument, ReadFails, Goto, Return, Build, Lag, serverVars, ghosts, TypeOK

LEMMA CallPhase ==
    ASSUME TypeOK, PhaseInv, NEW c \in Callers, Begin(c) \/ Proceed(c)
    PROVE  PhaseInv'
<1>1. Len(log) \in Nat /\ op[c] \in {"create", "patch"}
    BY DEF TypeOK
<1>2. CASE Begin(c)
    BY <1>1, <1>2 DEF Begin, Goto, TypeOK, PhaseInv, serverVars
<1>3. CASE Unsent(c) \/ Receive(c) \/ Delay(c) \/ ReadFails(c)
    BY <1>1, <1>3, CodesOf
       DEF Unsent, Receive, Delay, ReadFails, Goto, Return, Sending, TypeOK, PhaseInv, serverVars,
           ghosts
<1>4. CASE Post(c) \/ CreateExists(c) \/ Mismatch(c)
    BY <1>1, <1>4, CodesOf
       DEF Post, CreateExists, Mismatch, Goto, Sending, Sent, TypeOK, PhaseInv, serverVars, ghosts
<1>5. CASE GiveUp(c)
    BY <1>1, <1>5, CodesOf
       DEF GiveUp, Goto, Return, Sending, TypeOK, PhaseInv, serverVars, ghosts
<1>6. CASE FollowUpRead(c)
    <2>1. PICK outcome : Return(c, outcome) /\ outcome.code # "versionMismatch"
        BY <1>6, CodesOf DEF FollowUpRead, Reason
    <2> QED
        BY <1>1, <1>6, <2>1 DEF FollowUpRead, Return, TypeOK, PhaseInv, serverVars
<1>7. CASE ReadDocument(c)
    BY <1>1, <1>7
       DEF ReadDocument, Goto, TypeOK, PhaseInv, serverVars
<1> QED
    BY <1>2, <1>3, <1>4, <1>5, <1>6, <1>7 DEF Proceed

LEMMA CallOwn ==
    ASSUME TypeOK, PhaseInv, OwnInv, NEW c \in Callers, Begin(c) \/ Proceed(c)
    PROVE  OwnInv'
<1>1. UNCHANGED <<log, op>>
    BY CallLocal
<1>2. CASE Begin(c)
    BY <1>1, <1>2, CodesOf DEF Begin, Goto, TypeOK, PhaseInv, OwnInv, WroteNothing, serverVars
<1>3. CASE Receive(c)
    BY <1>1, <1>3 DEF Receive, Return, Sending, TypeOK, PhaseInv, OwnInv, WroteNothing, serverVars
<1>4. CASE Unsent(c) \/ Delay(c) \/ ReadFails(c) \/ GiveUp(c)
    <2>1. \/ UNCHANGED result
          \/ \E outcome : Return(c, outcome) /\ outcome.code # "versionMismatch"
        BY <1>4, CodesOf DEF Unsent, Delay, ReadFails, GiveUp, Goto
    <2>2. UNCHANGED <<wire, answer>> /\ pc[c] # "done"
        BY <1>4 DEF Unsent, Delay, ReadFails, GiveUp, Sending, serverVars
    <2>3. \A d \in Callers \ {c} : pc'[d] = pc[d] /\ result'[d] = result[d]
        BY CallLocal
    <2>4. \A d \in Callers : result'[d].code = "versionMismatch" =>
                                  result[d].code = "versionMismatch"
        BY <2>1, <2>3 DEF Return, TypeOK
    <2> QED
        BY <1>1, <2>2, <2>3, <2>4 DEF OwnInv, WroteNothing
<1>5. CASE Post(c) \/ CreateExists(c) \/ Mismatch(c)
    BY <1>1, <1>5, CodesOf
       DEF Post, CreateExists, Mismatch, Goto, Sending, Sent, TypeOK, PhaseInv, OwnInv,
           WroteNothing, serverVars
<1>6. CASE FollowUpRead(c)
    <2>1. PICK outcome : Return(c, outcome) /\ outcome.code # "versionMismatch"
        BY <1>6, CodesOf DEF FollowUpRead, Reason
    <2>2. UNCHANGED <<wire, answer>> /\ pc[c] # "done"
        BY <1>6 DEF FollowUpRead, serverVars
    <2>3. \A d \in Callers \ {c} : pc'[d] = pc[d] /\ result'[d] = result[d]
        BY CallLocal
    <2>4. \A d \in Callers : result'[d].code = "versionMismatch" =>
                                  result[d].code = "versionMismatch"
        BY <2>1, <2>3 DEF Return, TypeOK
    <2> QED
        BY <1>1, <2>2, <2>3, <2>4 DEF OwnInv, WroteNothing
<1>7. CASE ReadDocument(c)
    BY <1>1, <1>7 DEF ReadDocument, Goto, TypeOK, PhaseInv, OwnInv, WroteNothing, serverVars
<1> QED
    BY <1>2, <1>3, <1>4, <1>5, <1>6, <1>7 DEF Proceed

LEMMA CallRace ==
    ASSUME TypeOK, PhaseInv, RaceInv, NEW c \in Callers, Begin(c) \/ Proceed(c)
    PROVE  RaceInv'
<1>1. /\ UNCHANGED <<log, op>>
      /\ lagged \subseteq lagged'
      /\ \A d \in Callers \ {c} :
             /\ pc'[d] = pc[d] /\ result'[d] = result[d] /\ answer'[d] = answer[d]
             /\ begun'[d] = begun[d] /\ detail'[d] = detail[d]
    BY CallLocal
<1>2. Len(log) \in Nat /\ begun[c] \in Nat /\ detail[c].hash \in Nat
    BY DEF TypeOK
<1> DEFINE Race == /\ pc'[c] \in {"patch", "repatch"} =>
                          /\ detail'[c].hash <= Len(log)
                          /\ answer'[c].code = "versionMismatch" => detail'[c].hash < Len(log)
                   /\ pc'[c] = "patch" => begun'[c] <= detail'[c].hash
                   /\ pc'[c] = "reread" => begun'[c] < Len(log)
                   /\ pc'[c] = "repatch" => begun'[c] < detail'[c].hash
                   /\ result'[c].code = "versionMismatch" => begun'[c] + 2 <= Len(log)
<1>3. ASSUME op[c] = "patch", c \notin lagged'
      PROVE  Race
    <2>1. c \notin lagged
        BY <1>1, <1>3
    <2>2. /\ pc[c] \in {"idle", "read", "patch", "reread", "repatch", "done"}
          /\ begun[c] <= Len(log)
          /\ result[c] # None => pc[c] = "done"
        BY <1>3 DEF PhaseInv, TypeOK
    <2>3. /\ pc[c] \in {"patch", "repatch"} =>
                 /\ detail[c].hash <= Len(log)
                 /\ answer[c].code = "versionMismatch" => detail[c].hash < Len(log)
          /\ pc[c] = "patch" => begun[c] <= detail[c].hash
          /\ pc[c] = "reread" => begun[c] < Len(log)
          /\ pc[c] = "repatch" => begun[c] < detail[c].hash
          /\ result[c].code = "versionMismatch" => begun[c] + 2 <= Len(log)
        BY <1>3, <2>1 DEF RaceInv
    <2>4. CASE Begin(c)
        BY <1>2, <1>3, <2>2, <2>4, CodesOf DEF Begin, Goto, TypeOK
    <2>5. CASE Receive(c)
        BY <1>2, <2>2, <2>3, <2>5 DEF Receive, Return, Sending, TypeOK, ghosts
    <2>6. CASE Unsent(c) \/ ReadFails(c) \/ GiveUp(c)
        <3>1. PICK outcome : Return(c, outcome) /\ outcome.code # "versionMismatch"
            BY <2>2, <2>6, CodesOf DEF Unsent, ReadFails, GiveUp, Sending
        <3> QED
            BY <3>1 DEF Return, TypeOK
    <2>7. CASE Post(c)
        BY <2>3, <2>7 DEF Post, ghosts
    <2>8. CASE Mismatch(c)
        BY <1>2, <2>2, <2>3, <2>8, CodesOf DEF Mismatch, Goto, TypeOK, ghosts
    <2>9. CASE ReadDocument(c)
        <3>1. PICK v \in Found \ {0} : Build(c, v) /\ Lag(c, v)
            BY <2>9 DEF ReadDocument
        <3>2. v = Version
            BY <1>3, <3>1 DEF Lag
        <3>3. v = Len(log)
            BY <3>1, <3>2, VersionType
        <3>4. detail'[c].hash = Len(log)
            BY <3>1, <3>3 DEF Build, TypeOK
        <3>5. answer'[c].code # "versionMismatch"
            BY <2>9, CodesOf DEF ReadDocument, PhaseInv, serverVars
        <3> QED
            BY <1>2, <2>2, <2>3, <2>9, <3>4, <3>5, CodesOf DEF ReadDocument, Goto, TypeOK
    <2>10. CASE CreateExists(c) \/ Delay(c) \/ FollowUpRead(c)
        BY <2>2, <2>10 DEF CreateExists, Delay, FollowUpRead
    <2> QED
        BY <2>4, <2>5, <2>6, <2>7, <2>8, <2>9, <2>10 DEF Proceed
<1> QED
    BY <1>1, <1>3 DEF RaceInv

LEMMA CallCreate ==
    ASSUME TypeOK, PhaseInv, CreateInv, NEW c \in Callers, Begin(c) \/ Proceed(c)
    PROVE  CreateInv'
<1>1. /\ UNCHANGED <<log, op>>
      /\ lagged \subseteq lagged'
      /\ \A d \in Callers \ {c} :
             /\ result'[d] = result[d] /\ answer'[d] = answer[d] /\ begun'[d] = begun[d]
    BY CallLocal
<1>2. \A n : VersionAt(n)' = VersionAt(n)
    BY <1>1 DEF VersionAt
<1>3. ASSUME op[c] = "create"
      PROVE  /\ answer'[c].code = "ok" =>
                    begun'[c] = begun[c] /\ Real(c, answer'[c].version)
             /\ c \notin lagged' /\ result'[c].code = "ok" =>
                    begun'[c] = begun[c] /\ Real(c, result'[c].version)
    <2>1. /\ answer[c].code = "ok" => Real(c, answer[c].version)
          /\ c \notin lagged' /\ result[c].code = "ok" => Real(c, result[c].version)
        BY <1>1, <1>3 DEF CreateInv
    <2>2. pc[c] \in {"idle", "create", "existing", "delay", "verify", "done"}
        BY <1>3 DEF PhaseInv
    <2>3. CASE Begin(c)
        <3>1. answer'[c] = None /\ result'[c] = None
            BY <2>3 DEF Begin, Goto, TypeOK, PhaseInv, serverVars
        <3> QED
            BY <3>1, CodesOf
    <2>4. CASE Receive(c)
        <3>1. begun'[c] = begun[c] /\ answer'[c] = answer[c] /\ result'[c] = answer[c]
            BY <2>4 DEF Receive, Return, TypeOK, serverVars, ghosts
        <3> QED
            BY <2>1, <3>1
    <2>5. CASE Unsent(c) \/ GiveUp(c) \/ Delay(c) \/ CreateExists(c) \/ Post(c)
        <3>1. begun'[c] = begun[c] /\ answer'[c] = answer[c]
            BY <2>5 DEF Unsent, GiveUp, Delay, CreateExists, Post, serverVars, ghosts
        <3>2. result'[c] = result[c] \/ result'[c].code # "ok"
            BY <2>5, CodesOf DEF Unsent, GiveUp, Delay, CreateExists, Post, Goto, Return, TypeOK
        <3> QED
            BY <2>1, <3>1, <3>2
    <2>6. CASE FollowUpRead(c)
        <3>1. begun'[c] = begun[c] /\ answer'[c] = answer[c]
            BY <2>6 DEF FollowUpRead, serverVars
        <3>2. ASSUME NEW v \in Found, v # 0, Return(c, Done(v)), Lag(c, v), c \notin lagged'
              PROVE  Real(c, result'[c].version)
            <4>1. v = Version
                BY <3>2 DEF Lag
            <4>2. v = VersionAt(Len(log)) /\ Len(log) # 0 /\ Len(log) \in begun[c] .. Len(log)
                BY <3>2, <4>1, VersionType DEF Version, PhaseInv, TypeOK
            <4>3. result'[c].version = v
                BY <3>2, CodesOf DEF Return, TypeOK
            <4> QED
                BY <4>2, <4>3 DEF Real
        <3>3. ASSUME Return(c, Reason(c))
              PROVE  result'[c].code # "ok"
            BY <3>3, CodesOf DEF Return, Reason, TypeOK
        <3> QED
            BY <2>1, <2>6, <3>1, <3>2, <3>3 DEF FollowUpRead
    <2>7. CASE Mismatch(c) \/ ReadDocument(c) \/ ReadFails(c)
        BY <2>2, <2>7 DEF Mismatch, ReadDocument, ReadFails
    <2> QED
        BY <2>3, <2>4, <2>5, <2>6, <2>7 DEF Proceed
<1> QED
    BY <1>1, <1>2, <1>3 DEF CreateInv, Real

(* A write keeps what was true of the earlier ones. *)
LEMMA AppendKeeps ==
    ASSUME TypeOK, NEW kind \in {"create", "patch", "delete"}, NEW by \in Callers \cup {Other},
           NEW seen \in Nat, Append1(kind, by, seen)
    PROVE  /\ Len(log) \in Nat
           /\ Len(log') = Len(log) + 1
           /\ DOMAIN log' = 1 .. (Len(log) + 1)
           /\ DOMAIN log = 1 .. Len(log)
           /\ \A n \in 1 .. Len(log) : log'[n] = log[n]
           /\ log'[Len(log) + 1] = [kind |-> kind, by |-> by, seen |-> seen]
           /\ \A n \in 0 .. Len(log) : VersionAt(n)' = VersionAt(n)
<1>1. log \in Seq(Write) /\ [kind |-> kind, by |-> by, seen |-> seen] \in Write
    BY DEF TypeOK, Write
<1>2. /\ Len(log) \in Nat
      /\ Len(log') = Len(log) + 1
      /\ DOMAIN log' = 1 .. (Len(log) + 1)
      /\ DOMAIN log = 1 .. Len(log)
      /\ \A n \in 1 .. Len(log) : log'[n] = log[n]
      /\ log'[Len(log) + 1] = [kind |-> kind, by |-> by, seen |-> seen]
    BY <1>1 DEF Append1
<1>3. \A n \in 0 .. Len(log) : VersionAt(n)' = VersionAt(n)
    BY <1>2 DEF VersionAt
<1> QED
    BY <1>2, <1>3

(* The writes so far stay, and so does every version they gave the document. *)
LEMMA LogKeeps ==
    ASSUME TypeOK, NEW by \in Callers \cup {Other},
           \/ UNCHANGED log
           \/ \E kind \in {"create", "patch", "delete"}, seen \in Nat : Append1(kind, by, seen)
    PROVE  /\ Len(log) \in Nat /\ Len(log') \in Nat /\ Len(log) <= Len(log')
           /\ \A d \in Callers \ {by} : WroteNothing(d) => WroteNothing(d)'
           /\ \A d \in Callers : \A v : Real(d, v) =>
                  \E n \in begun[d] .. Len(log') : n # 0 /\ VersionAt(n)' = v
<1>1. /\ Len(log) \in Nat /\ Len(log') \in Nat /\ Len(log) <= Len(log')
      /\ \A d \in Callers \ {by} : WroteNothing(d) => WroteNothing(d)'
      /\ \A n \in 0 .. Len(log) : VersionAt(n)' = VersionAt(n)
    <2>1. CASE UNCHANGED log
        BY <2>1 DEF TypeOK, WroteNothing, VersionAt
    <2>2. CASE \E kind \in {"create", "patch", "delete"}, seen \in Nat : Append1(kind, by, seen)
        <3>1. PICK kind \in {"create", "patch", "delete"}, seen \in Nat :
                       Append1(kind, by, seen)
            BY <2>2
        <3>2. /\ Len(log) \in Nat
              /\ Len(log') = Len(log) + 1
              /\ DOMAIN log' = 1 .. (Len(log) + 1)
              /\ DOMAIN log = 1 .. Len(log)
              /\ \A n \in 1 .. Len(log) : log'[n] = log[n]
              /\ log'[Len(log) + 1] = [kind |-> kind, by |-> by, seen |-> seen]
              /\ \A n \in 0 .. Len(log) : VersionAt(n)' = VersionAt(n)
            BY <3>1, AppendKeeps
        <3>3. \A d \in Callers \ {by} : WroteNothing(d) => WroteNothing(d)'
            BY <3>2 DEF WroteNothing
        <3> QED
            BY <3>2, <3>3
    <2> QED
        BY <2>1, <2>2
<1>2. \A d \in Callers : begun[d] \in Nat
    BY DEF TypeOK
<1> QED
    BY <1>1, <1>2 DEF Real

(* What a write of one caller, or of none, does to the other calls. *)
LEMMA OthersKeep ==
    ASSUME TypeOK, OwnInv, RaceInv, CreateInv, NEW by \in Callers \cup {Other},
           \/ UNCHANGED log
           \/ \E kind \in {"create", "patch", "delete"}, seen \in Nat : Append1(kind, by, seen),
           UNCHANGED <<op, pc, detail, result, begun, lagged>>,
           \A d \in Callers \ {by} : answer'[d] = answer[d] /\ (d \in wire' => d \in wire),
           NEW d \in Callers \ {by}
    PROVE  /\ op[d] = "patch" =>
                  /\ pc[d] # "done" /\ answer'[d].code # "ok" => WroteNothing(d)'
                  /\ result[d].code = "versionMismatch" => WroteNothing(d)' /\ d \notin wire'
           /\ d \notin lagged /\ op[d] = "patch" =>
                  /\ pc[d] \in {"patch", "repatch"} =>
                         /\ detail[d].hash <= Len(log')
                         /\ answer'[d].code = "versionMismatch" => detail[d].hash < Len(log')
                  /\ pc[d] = "reread" => begun[d] < Len(log')
                  /\ result[d].code = "versionMismatch" => begun[d] + 2 <= Len(log')
<1>1. /\ Len(log) \in Nat /\ Len(log') \in Nat /\ Len(log) <= Len(log')
      /\ WroteNothing(d) => WroteNothing(d)'
    BY LogKeeps
<1>2. begun[d] \in Nat /\ detail[d].hash \in Nat
    BY DEF TypeOK
<1>3. op[d] = "patch" =>
          /\ pc[d] # "done" /\ answer'[d].code # "ok" => WroteNothing(d)'
          /\ result[d].code = "versionMismatch" => WroteNothing(d)' /\ d \notin wire'
    BY <1>1 DEF OwnInv
<1>4. d \notin lagged /\ op[d] = "patch" =>
          /\ pc[d] \in {"patch", "repatch"} =>
                 /\ detail[d].hash <= Len(log')
                 /\ answer'[d].code = "versionMismatch" => detail[d].hash < Len(log')
          /\ pc[d] = "reread" => begun[d] < Len(log')
          /\ result[d].code = "versionMismatch" => begun[d] + 2 <= Len(log')
    BY <1>1, <1>2 DEF RaceInv
<1> QED
    BY <1>3, <1>4

(* The verdicts of Execute. *)
LEMMA Verdicts ==
    ASSUME Inv, NEW c \in Callers, Execute(c)
    PROVE  \/ /\ answer' = [answer EXCEPT ![c] = Done(Len(log) + 1)]
              /\ op[c] = "create" /\ Append1("create", c, 0)
           \/ /\ answer' = [answer EXCEPT ![c] = Done(Len(log) + 1)]
              /\ op[c] = "patch" /\ \E seen \in Nat : Append1("patch", c, seen)
           \/ /\ UNCHANGED log
              /\ \E code \in Codes \ {"ok"} :
                     /\ answer' = [answer EXCEPT ![c] = Failed(code)]
                     /\ code = "versionMismatch" =>
                            op[c] = "patch" /\ Version # 0 /\ Version # detail[c].hash
<1>1. detail[c].seen \in Nat
    BY DEF Inv, TypeOK
<1> QED
    BY <1>1 DEF Execute, Codes

LEMMA ServeReport ==
    ASSUME Inv, ReportInv, NEW c \in Callers, Serve(c)
    PROVE  ReportInv'
<1>1. TypeOK /\ PhaseInv /\ OwnInv /\ RaceInv /\ CreateInv
    BY DEF Inv, ReportInv
<1>2. /\ c \in wire /\ wire' = wire \ {c} /\ answer[c] = None
      /\ UNCHANGED <<op, pc, detail, result, begun, lagged>>
      /\ answer' = [answer EXCEPT ![c] = answer'[c]]
    BY <1>1 DEF Serve, Execute, ghosts, PhaseInv, TypeOK
<1>3. \/ pc[c] \notin {"idle", "read", "reread"} /\ result[c].code # "versionMismatch"
      \/ op[c] = "create"
    BY <1>1, <1>2 DEF PhaseInv, OwnInv, TypeOK
<1>4. \/ UNCHANGED log
      \/ \E kind \in {"create", "patch", "delete"}, seen \in Nat : Append1(kind, c, seen)
    BY Verdicts DEF Serve
<1>5. /\ Len(log) \in Nat /\ Len(log') \in Nat /\ Len(log) <= Len(log')
      /\ \A d \in Callers : \A v : Real(d, v) =>
             \E n \in begun[d] .. Len(log') : n # 0 /\ VersionAt(n)' = v
    BY <1>1, <1>4, LogKeeps
<1>6. \A d \in Callers \ {c} : answer'[d] = answer[d] /\ (d \in wire' => d \in wire)
    BY <1>1, <1>2 DEF TypeOK
<1>7. /\ op[c] = "create" => answer'[c].code # "versionMismatch"
      /\ answer'[c].code # "ok" => UNCHANGED log
      /\ answer'[c].code = "versionMismatch" => Version # 0 /\ Version # detail[c].hash
      /\ answer'[c].code = "ok" /\ op[c] = "create" =>
             Append1("create", c, 0) /\ answer'[c].version = Len(log) + 1
    BY <1>1, Verdicts, CodesOf DEF Serve, TypeOK
<1>8. PhaseInv'
    <2>1. \A d \in Callers : begun[d] \in Nat /\ begun[d] <= Len(log')
        BY <1>1, <1>5 DEF PhaseInv, TypeOK
    <2> QED
        BY <1>1, <1>2, <1>6, <1>7, <2>1 DEF PhaseInv
<1>9. OwnInv'
    <2>1. op[c] = "patch" /\ pc[c] # "done" /\ answer'[c].code # "ok" => WroteNothing(c)'
        BY <1>1, <1>2, <1>7, CodesOf DEF OwnInv, WroteNothing
    <2>2. ASSUME NEW d \in Callers \ {c}, op[d] = "patch"
          PROVE  /\ pc[d] # "done" /\ answer'[d].code # "ok" => WroteNothing(d)'
                 /\ result[d].code = "versionMismatch" => WroteNothing(d)' /\ d \notin wire'
        BY <1>1, <1>2, <1>4, <1>6, <2>2, OthersKeep
    <2> QED
        BY <1>2, <1>3, <2>1, <2>2 DEF OwnInv
<1>10. RaceInv'
    <2>1. ASSUME op[c] = "patch", c \notin lagged, pc[c] \in {"patch", "repatch"}
          PROVE  /\ detail[c].hash <= Len(log')
                 /\ answer'[c].code = "versionMismatch" => detail[c].hash < Len(log')
        <3>1. detail[c].hash \in Nat /\ detail[c].hash <= Len(log)
            BY <1>1, <2>1 DEF RaceInv, TypeOK
        <3>2. Version # 0 => Version = Len(log)
            BY <1>1, VersionType
        <3> QED
            BY <1>5, <1>7, <3>1, <3>2
    <2>2. ASSUME NEW d \in Callers \ {c}, op[d] = "patch", d \notin lagged
          PROVE  /\ pc[d] \in {"patch", "repatch"} =>
                        /\ detail[d].hash <= Len(log')
                        /\ answer'[d].code = "versionMismatch" => detail[d].hash < Len(log')
                 /\ pc[d] = "reread" => begun[d] < Len(log')
                 /\ result[d].code = "versionMismatch" => begun[d] + 2 <= Len(log')
        BY <1>1, <1>2, <1>4, <1>6, <2>2, OthersKeep
    <2> QED
        BY <1>1, <1>2, <1>3, <2>1, <2>2 DEF RaceInv
<1>11. CreateInv'
    <2>1. ASSUME NEW d \in Callers, op[d] = "create", d \notin lagged, result[d].code = "ok"
          PROVE  \E n \in begun[d] .. Len(log') : n # 0 /\ VersionAt(n)' = result[d].version
        BY <1>1, <1>5, <2>1 DEF CreateInv
    <2>2. ASSUME NEW d \in Callers, op[d] = "create", answer'[d].code = "ok"
          PROVE  \E n \in begun[d] .. Len(log') : n # 0 /\ VersionAt(n)' = answer'[d].version
        <3>1. CASE d = c
            <4>1. Append1("create", c, 0) /\ answer'[c].version = Len(log) + 1
                BY <1>7, <2>2, <3>1
            <4>2. PICK n \in Nat : n = Len(log) + 1
                BY <1>5
            <4>3. Len(log') = n /\ log'[n] = [kind |-> "create", by |-> c, seen |-> 0]
                BY <1>1, <4>1, <4>2, AppendKeeps
            <4>4. n # 0 /\ VersionAt(n)' = n
                BY <1>5, <4>2, <4>3 DEF VersionAt
            <4>5. n \in begun[c] .. Len(log')
                BY <1>1, <1>5, <4>2, <4>3 DEF PhaseInv, TypeOK
            <4> QED
                BY <3>1, <4>1, <4>2, <4>4, <4>5
        <3>2. CASE d # c
            BY <1>1, <1>5, <1>6, <2>2, <3>2 DEF CreateInv
        <3> QED
            BY <3>1, <3>2
    <2> QED
        BY <1>2, <2>1, <2>2 DEF CreateInv, Real
<1> QED
    BY <1>8, <1>9, <1>10, <1>11 DEF ReportInv

LEMMA OtherReport ==
    ASSUME Inv, ReportInv, WriteByOther \/ Replicate
    PROVE  ReportInv'
<1>1. TypeOK /\ PhaseInv /\ OwnInv /\ RaceInv /\ CreateInv
    BY DEF Inv, ReportInv
<1>2. UNCHANGED <<wire, answer, op, pc, detail, result, begun, lagged>>
    BY DEF WriteByOther, Replicate, ghosts
<1>3. \/ UNCHANGED log
      \/ \E kind \in {"create", "patch", "delete"}, seen \in Nat : Append1(kind, Other, seen)
    BY <1>1, VersionType DEF WriteByOther, Replicate
<1>4. /\ Len(log) \in Nat /\ Len(log') \in Nat /\ Len(log) <= Len(log')
      /\ \A d \in Callers : \A v : Real(d, v) =>
             \E n \in begun[d] .. Len(log') : n # 0 /\ VersionAt(n)' = v
    BY <1>1, <1>3, LogKeeps
<1>5. PhaseInv'
    <2>1. \A d \in Callers : begun[d] \in Nat /\ begun[d] <= Len(log')
        BY <1>1, <1>4 DEF PhaseInv, TypeOK
    <2> QED
        BY <1>1, <1>2, <2>1 DEF PhaseInv
<1>6. ASSUME NEW d \in Callers
      PROVE  /\ op[d] = "patch" =>
                    /\ pc[d] # "done" /\ answer'[d].code # "ok" => WroteNothing(d)'
                    /\ result[d].code = "versionMismatch" => WroteNothing(d)' /\ d \notin wire'
             /\ d \notin lagged /\ op[d] = "patch" =>
                    /\ pc[d] \in {"patch", "repatch"} =>
                           /\ detail[d].hash <= Len(log')
                           /\ answer'[d].code = "versionMismatch" => detail[d].hash < Len(log')
                    /\ pc[d] = "reread" => begun[d] < Len(log')
                    /\ result[d].code = "versionMismatch" => begun[d] + 2 <= Len(log')
    <2>1. d \in Callers \ {Other}
        BY DocumentAssumption
    <2> QED
        BY <1>1, <1>2, <1>3, <2>1, OthersKeep
<1>7. OwnInv'
    BY <1>2, <1>6 DEF OwnInv
<1>8. RaceInv'
    BY <1>1, <1>2, <1>6 DEF RaceInv
<1>9. CreateInv'
    BY <1>1, <1>2, <1>4 DEF CreateInv, Real
<1> QED
    BY <1>5, <1>7, <1>8, <1>9 DEF ReportInv

LEMMA ReportHolds == Spec => []ReportInv
<1>1. ASSUME Inv, ReportInv, [Next]_vars
      PROVE  ReportInv'
    <2>1. ASSUME NEW c \in Callers, Begin(c) \/ Proceed(c)
          PROVE  ReportInv'
        BY <1>1, <2>1, CallPhase, CallOwn, CallRace, CallCreate DEF Inv, ReportInv
    <2>2. CASE UNCHANGED vars
        BY <1>1, <2>2 DEF vars, serverVars, ghosts, ReportInv, PhaseInv, OwnInv, RaceInv,
                          CreateInv, WroteNothing, Real, VersionAt
    <2> QED
        BY <1>1, <2>1, <2>2, ServeReport, OtherReport DEF Next
<1> QED
    BY <1>1, ReportInit, InvHolds, PTL DEF Spec

(* PatchWithVersionRetry reports versionMismatch only when two writes of others     *)
(* took effect while it ran, or a replica gave it a stale version.                  *)
THEOREM MismatchMeansTwoRacesCorrect == Spec => []MismatchMeansTwoRaces
<1>1. ASSUME Inv, ReportInv
      PROVE  MismatchMeansTwoRaces
    <2> SUFFICES ASSUME NEW c \in Callers \ lagged, result[c].code = "versionMismatch"
                 PROVE  Cardinality({i \in DOMAIN log : i > begun[c] /\ log[i].by # c}) >= 2
        BY DEF MismatchMeansTwoRaces
    <2>1. TypeOK /\ PhaseInv /\ OwnInv /\ RaceInv
        BY <1>1 DEF Inv, ReportInv
    <2>2. Len(log) \in Nat /\ DOMAIN log = 1 .. Len(log) /\ begun[c] \in Nat
          /\ op[c] \in {"create", "patch"}
        BY <2>1 DEF TypeOK
    <2>3. op[c] = "patch"
        BY <2>1, <2>2 DEF PhaseInv
    <2>4. WroteNothing(c) /\ begun[c] + 2 <= Len(log)
        BY <2>1, <2>3 DEF OwnInv, RaceInv
    <2>5. {i \in DOMAIN log : i > begun[c] /\ log[i].by # c} = (begun[c] + 1) .. Len(log)
        BY <2>2, <2>4 DEF WroteNothing
    <2>6. ASSUME NEW a \in Int, NEW b \in Int, a <= b
          PROVE  Cardinality(a .. b) = b - a + 1
        BY <2>6, FS_Interval
    <2> DEFINE first == begun[c] + 1
               last == Len(log)
    <2>7. first \in Int /\ last \in Int /\ first <= last /\ last - first + 1 >= 2
        BY <2>2, <2>4
    <2> HIDE DEF first, last
    <2>8. Cardinality(first .. last) = last - first + 1
        BY <2>6, <2>7
    <2>9. Cardinality(first .. last) >= 2
        BY <2>7, <2>8
    <2> QED
        BY <2>5, <2>9 DEF first, last
<1> QED
    BY <1>1, InvHolds, ReportHolds, PTL

(* A Create that succeeds reports a version that the document had while it ran,    *)
(* unless a replica gave it a stale version.                                       *)
THEOREM CreateSuccessIsRealCorrect == Spec => []CreateSuccessIsReal
<1>1. ReportInv => CreateSuccessIsReal
    BY DEF ReportInv, CreateInv, Real, CreateSuccessIsReal
<1> QED
    BY <1>1, ReportHolds, PTL
===============================================================================
