------------------------------ MODULE FileUpload ------------------------------
(***************************************************************************)
(* PutFile (src/files.go): a multipart command whose body is written by a   *)
(* goroutine of its own into a pipe, one goroutine for each attempt, while  *)
(* executeRoutedMultipart waits for the answer and follows wrongMachine.    *)
(*                                                                         *)
(* Nobody waits for the goroutine of an attempt.  A server may answer       *)
(* before it has read the body, and net/http goes on sending for a while    *)
(* after the answer, so an earlier attempt's goroutine may run next to a    *)
(* later one.  Without Reopen they share the caller's io.ReadSeeker.        *)
(*                                                                         *)
(* A file is a sequence of chunks, one for each Read of io.Copy.  Reads of  *)
(* the shared reader are taken to be atomic.  How a bounce is routed is the *)
(* subject of RoutedCommand; here it succeeds or fails.                     *)
(***************************************************************************)
EXTENDS FileTransfer

VARIABLES
    source,     \* how openUploadBody gets at the file: "seeker" or "reopen"
    pc,         \* where PutFile is
    attempt,    \* the attempt it is at, 1 + Go's attempt
    result,     \* what it returned
    writer,     \* where the goroutine of each attempt is
    chunk,      \* the chunk it has read and not yet written
    pos,        \* how many chunks each reader is past
    conn,       \* the request of each attempt, as net/http sees it
    received,   \* the chunks that the server of each attempt was sent
    complete,   \* the attempts whose body was sent to its end
    answer,     \* what the server of each attempt answered
    stored,     \* the attempts whose file the database stored
    overlap     \* ghost: a body was opened while another goroutine ran

callVars == <<pc, attempt, result>>
bodyVars == <<writer, chunk, pos, received, complete, overlap>>
serverVars == <<answer, stored>>
vars == <<source, callVars, bodyVars, conn, serverVars>>

File == [k \in 1 .. Size |-> k]

Results == {"ok", "refused", "wrongMachine", "transport", "error"}
Answers == {"ok", "refused", "wrongMachine", "http"}

TypeOK ==
    /\ source \in {"seeker", "reopen"}
    /\ pc \in {"idle", "prepare", "wait", "reroute", "done"}
    /\ attempt \in 0 .. WmRetries + 1
    /\ result \in {"none"} \cup Results
    /\ writer \in [Attempts -> {"none", "command", "open", "read", "write", "close", "ended"}]
    /\ chunk \in [Attempts -> 0 .. Size]
    /\ pos \in [Attempts -> 0 .. Size]
    /\ conn \in [Attempts -> {"none", "open", "released", "closed"}]
    /\ received \in [Attempts -> Seq(1 .. Size)]
    /\ complete \subseteq Attempts
    /\ answer \in [Attempts -> {"none"} \cup Answers]
    /\ stored \subseteq complete
    /\ overlap \in BOOLEAN

Init ==
    /\ source \in {"seeker", "reopen"}
    /\ pc = "idle"
    /\ attempt = 0
    /\ result = "none"
    /\ writer = [a \in Attempts |-> "none"]
    /\ chunk = [a \in Attempts |-> 0]
    /\ pos = [a \in Attempts |-> 0]
    /\ conn = [a \in Attempts |-> "none"]
    /\ received = [a \in Attempts |-> << >>]
    /\ complete = {}
    /\ answer = [a \in Attempts |-> "none"]
    /\ stored = {}
    /\ overlap = FALSE

-------------------------------------------------------------------------------
\* PutFile.

Return(r) ==
    /\ pc' = "done"
    /\ result' = r
    /\ UNCHANGED attempt

\* doMultipartCommand: the goroutine is started before anything else is done.
StartAttempt ==
    /\ pc' = "prepare"
    /\ attempt' = attempt + 1
    /\ writer' = [writer EXCEPT ![attempt + 1] = "command"]
    /\ UNCHANGED <<source, result, chunk, pos, received, complete, overlap, conn, serverVars>>

\* No establishment document or no route for the document.
Unrouted ==
    /\ Return("error")
    /\ UNCHANGED <<source, bodyVars, conn, serverVars>>

Begin == pc = "idle" /\ (StartAttempt \/ Unrouted)

\* The base URL makes no request: the goroutine is left with a pipe nobody reads.
RequestFails ==
    /\ pc = "prepare"
    /\ Return("transport")
    /\ UNCHANGED <<source, bodyVars, conn, serverVars>>

\* The token source fails, or returns an empty token: so is it here.
TokenFails ==
    /\ pc = "prepare"
    /\ Return("error")
    /\ UNCHANGED <<source, bodyVars, conn, serverVars>>

\* The request is made and has its token: http.Client.Do takes the pipe over.
Send ==
    /\ pc = "prepare"
    /\ pc' = "wait"
    /\ conn' = [conn EXCEPT ![attempt] = "open"]
    /\ UNCHANGED <<source, attempt, result, bodyVars, serverVars>>

\* The exchange is over for the client: resp.Body.Close(), or an error of Do.
Release == conn' = [conn EXCEPT ![attempt] = "released"]

\* A timeout, a broken connection, or the error of the body's goroutine.
GiveUp ==
    /\ pc = "wait"
    /\ Release
    /\ Return("transport")
    /\ UNCHANGED <<source, bodyVars, serverVars>>

\* Mutant of ReceiveFinal: a status outside 2xx is taken for a refusal.
ReceiveFinalAnyStatus ==
    /\ pc = "wait"
    /\ \/ answer[attempt] \in {"ok", "refused", "http"}
       \/ answer[attempt] = "wrongMachine" /\ attempt = WmRetries + 1
    /\ Release
    /\ Return(IF answer[attempt] = "http" THEN "refused" ELSE answer[attempt])
    /\ UNCHANGED <<source, bodyVars, serverVars>>

\* A status outside 2xx or an undecodable answer ends as GiveUp does.
ReceiveFinal ==
    /\ pc = "wait"
    /\ \/ answer[attempt] \in {"ok", "refused"}
       \/ answer[attempt] = "wrongMachine" /\ attempt = WmRetries + 1
    /\ Release
    /\ Return(answer[attempt])
    /\ UNCHANGED <<source, bodyVars, serverVars>>

\* Mutant of ReceiveBounce: resp.Body is not closed.
ReceiveBounceUnclosed ==
    /\ pc = "wait"
    /\ answer[attempt] = "wrongMachine"
    /\ attempt <= WmRetries
    /\ pc' = "reroute"
    /\ UNCHANGED <<source, attempt, result, bodyVars, conn, serverVars>>

\* Mutant of ReceiveBounce: one bounce too many.
ReceiveBounceUnbounded ==
    /\ pc = "wait"
    /\ answer[attempt] = "wrongMachine"
    /\ pc' = "reroute"
    /\ Release
    /\ UNCHANGED <<source, attempt, result, bodyVars, serverVars>>

\* wrongMachine with budget left; the deferred resp.Body.Close() runs first.
ReceiveBounce ==
    /\ pc = "wait"
    /\ answer[attempt] = "wrongMachine"
    /\ attempt <= WmRetries
    /\ pc' = "reroute"
    /\ Release
    /\ UNCHANGED <<source, attempt, result, bodyVars, serverVars>>

\* Establish and the resolver lead to another attempt, or fail.
Reroute == pc = "reroute" /\ (StartAttempt \/ Unrouted)

-------------------------------------------------------------------------------
\* The goroutine of an attempt.  A write to the pipe waits until net/http reads.

Pumped(a) == conn[a] \in {"open", "released"}

Running(a) == writer[a] \notin {"none", "ended"}

\* The reader that openUploadBody gives to attempt a.
Reader(a) == IF source = "seeker" THEN 1 ELSE a

Goto(a, where) == writer' = [writer EXCEPT ![a] = where]

WriteCommand(a) ==
    /\ writer[a] = "command"
    /\ Pumped(a)
    /\ Goto(a, "open")
    /\ UNCHANGED <<source, callVars, chunk, pos, received, complete, overlap, conn, serverVars>>

\* openUploadBody seeks the shared reader to its start, or opens a new one.
Open(a) ==
    /\ writer[a] = "open"
    /\ pos' = [pos EXCEPT ![Reader(a)] = 0]
    /\ overlap' = (overlap \/ \E b \in Attempts \ {a} : Running(b))
    /\ Goto(a, "read")
    /\ UNCHANGED <<source, callVars, chunk, received, complete, conn, serverVars>>

\* io.Copy reads, whether or not anyone still listens.
ReadChunk(a) ==
    /\ writer[a] = "read"
    /\ LET at == pos[Reader(a)]
       IN  \/ /\ at < Size
              /\ chunk' = [chunk EXCEPT ![a] = at + 1]
              /\ pos' = [pos EXCEPT ![Reader(a)] = at + 1]
              /\ Goto(a, "write")
           \/ /\ at = Size
              /\ Goto(a, "close")
              /\ UNCHANGED <<chunk, pos>>
    /\ UNCHANGED <<source, callVars, received, complete, overlap, conn, serverVars>>

WriteChunk(a) ==
    /\ writer[a] = "write"
    /\ Pumped(a)
    /\ received' = [received EXCEPT ![a] = Append(@, chunk[a])]
    /\ Goto(a, "read")
    /\ UNCHANGED <<source, callVars, chunk, pos, complete, overlap, conn, serverVars>>

\* mw.Close writes the last boundary, and pw.Close ends the body.
CloseBody(a) ==
    /\ writer[a] = "close"
    /\ Pumped(a)
    /\ complete' = complete \cup {a}
    /\ Goto(a, "ended")
    /\ UNCHANGED <<source, callVars, chunk, pos, received, overlap, conn, serverVars>>

\* Mutant of ReadFails: the pipe is closed as if the file had ended.
ReadFailsCloses(a) ==
    /\ writer[a] \in {"open", "read"}
    /\ complete' = complete \cup {a}
    /\ Goto(a, "ended")
    /\ UNCHANGED <<source, callVars, chunk, pos, received, overlap, conn, serverVars>>

\* Seek, Reopen or Read fails: CloseWithError, and the body has no end.
ReadFails(a) ==
    /\ writer[a] \in {"open", "read"}
    /\ Goto(a, "ended")
    /\ UNCHANGED <<source, callVars, chunk, pos, received, complete, overlap, conn, serverVars>>

\* net/http has closed its end of the pipe.
WriteFails(a) ==
    /\ writer[a] \in {"command", "write", "close"}
    /\ conn[a] = "closed"
    /\ Goto(a, "ended")
    /\ UNCHANGED <<source, callVars, chunk, pos, received, complete, overlap, conn, serverVars>>

-------------------------------------------------------------------------------
\* net/http and the servers.

\* The transport closes the body of every request, some time after its end.
Hangup(a) ==
    /\ conn[a] = "released"
    /\ conn' = [conn EXCEPT ![a] = "closed"]
    /\ UNCHANGED <<source, callVars, bodyVars, serverVars>>

\* A server answers once, before it has the body or after; it stores a body
\* that came to its end only, and never one it bounces or refuses.
Serve(a) ==
    /\ conn[a] # "none"
    /\ answer[a] = "none"
    /\ \E r \in Answers, stores \in BOOLEAN :
        /\ r = "ok" => stores
        /\ stores => r \in {"ok", "http"} /\ a \in complete
        /\ answer' = [answer EXCEPT ![a] = r]
        /\ stored' = IF stores THEN stored \cup {a} ELSE stored
    /\ UNCHANGED <<source, callVars, bodyVars, conn>>

-------------------------------------------------------------------------------

Proceed ==
    \/ RequestFails
    \/ TokenFails
    \/ Send
    \/ GiveUp
    \/ ReceiveFinal
    \/ ReceiveBounce
    \/ Reroute

Write(a) ==
    \/ WriteCommand(a)
    \/ Open(a)
    \/ ReadChunk(a)
    \/ WriteChunk(a)
    \/ CloseBody(a)
    \/ ReadFails(a)
    \/ WriteFails(a)

Next == Begin \/ Proceed \/ \E a \in Attempts : Write(a) \/ Hangup(a) \/ Serve(a)

Spec == Init /\ [][Next]_vars

\* The steps for which a goroutine does not depend on net/http to read the pipe:
\* a server that does not read holds up the others for as long as it likes.
Advance(a) == Open(a) \/ ReadChunk(a) \/ ReadFails(a) \/ WriteFails(a)

\* The goroutines are scheduled, waits are bounded by the client's timeout, and
\* net/http closes the body of every request it was given.
Fairness ==
    /\ WF_vars(Proceed)
    /\ \A a \in Attempts : WF_vars(Advance(a)) /\ WF_vars(Hangup(a))

FairSpec == Spec /\ Fairness

-------------------------------------------------------------------------------
\* Properties.

\* What the database stores is the file: always with Reopen, whatever earlier
\* attempts still send; with a seeker as long as no two goroutines shared it
\* (openUploadBody, doMultipartCommand).
StoredIsFile ==
    \A a \in stored : source = "reopen" \/ ~ overlap => received[a] = File

\* The contract of a call, of which PutFile makes one.
Contract == INSTANCE CommandContract WITH
    Calls    <- {1},
    outcome  <- [c \in {1} |-> IF pc = "idle" THEN "idle"
                               ELSE IF pc = "done" THEN result ELSE "pending"],
    executed <- {c \in {1} : stored # {}}

\* However its attempts overlap, PutFile keeps the contract of a single command:
\* a success was stored, a refusal never is.  That the bodies of two attempts may
\* both be stored is not excluded here: the second one is a stutter.
ImplementsContract == Contract!Spec

\* The goroutine of an attempt that never reached http.Client.Do: PutFile returned
\* the error of making the request or that of the token source.
Abandoned(a) == pc = "done" /\ attempt = a /\ conn[a] = "none"

\* No call leaves more than one goroutine behind: every one that was started
\* ends, also when a server answers without reading the body, but for that of a
\* last attempt whose request could not be made or had no token: it is started
\* before either is tried, and nobody closes its pipe then (doMultipartCommand).
WritersEnd == \A a \in Attempts : Running(a) ~> writer[a] = "ended" \/ Abandoned(a)

\* What the comment of PutFile says of a ReadSeeker: retries resend the same
\* bytes.
RetriesResendSameBytes == \A a \in stored : received[a] = File
===============================================================================
