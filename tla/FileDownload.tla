----------------------------- MODULE FileDownload -----------------------------
(***************************************************************************)
(* DownloadFile, DownloadFileRange and DownloadFileWithOptions              *)
(* (src/files.go): a routed fileRead whose answer is copied to the caller's *)
(* writer as it arrives.                                                    *)
(*                                                                         *)
(* One caller goes on downloading one file to one writer.  A "plain" caller *)
(* asks for any range and gives no OnResponse.  A "resuming" one asks for    *)
(* what its writer lacks, and its OnResponse refuses an answer that does     *)
(* not continue what was written.  The file has several versions: another   *)
(* server, or the same one later, may answer with any of them.  How a bounce *)
(* is routed is the subject of RoutedCommand; here it succeeds or fails.    *)
(***************************************************************************)
EXTENDS FileTransfer

CONSTANTS
    FileVersions,   \* the versions of the file that servers have
    Ranges,         \* the ranges a plain caller asks for
    MaxDownloads    \* bound on the calls of the caller

ASSUME DownloadAssumption ==
    /\ FileVersions \subseteq Nat \ {0}
    /\ FileVersions # {}
    /\ Ranges \subseteq [form : {"none", "closed", "open", "suffix"}, a : Nat, b : Nat]
    /\ MaxDownloads \in Nat

VARIABLES
    style,      \* the caller: "plain" or "resuming"
    stage,      \* where downloadFile is; "ready" between calls
    hop,        \* the attempt it is at, 1 + Go's attempt
    range,      \* DownloadFileOptions.Range
    start,      \* how much of the writer was written before the call
    reply,      \* what the server answered
    meta,       \* the FileDownloadMetadata returned, or about to be
    written,    \* the chunks in the caller's writer
    outcome,    \* the error returned, "ok" for nil
    shown,      \* ghost: how often the call consulted OnResponse
    downloads   \* ghost: the calls made

requestVars == <<hop, range, start, downloads>>
downloadVars == <<style, stage, requestVars, reply, meta, written, outcome, shown>>

(***************************************************************************)
(* "bytes=a-b" is closed, "bytes=a-" is open, "bytes=-b" is suffix, and     *)
(* "none" asks for the whole file.  A file of n chunks has chunks 0 .. n-1. *)
(***************************************************************************)
Range(form, a, b) == [form |-> form, a |-> a, b |-> b]
WholeFile == Range("none", 0, 0)

\* Mutant of ValidateFileByteRange: "bytes=-0" is let through.
ValidateFileByteRangeSuffix(r) == r.form = "closed" => r.a <= r.b

ValidateFileByteRange(r) ==
    /\ r.form = "closed" => r.a <= r.b
    /\ r.form = "suffix" => r.b # 0

\* What a range selects of n chunks, as RFC 9110 has it.
Selected(r, n) ==
    {k \in 0 .. n - 1 :
        \/ r.form = "none"
        \/ r.form = "closed" /\ r.a <= k /\ k <= r.b
        \/ r.form = "open" /\ r.a <= k
        \/ r.form = "suffix" /\ n <= k + r.b}

(***************************************************************************)
(* Answers: the status, the version in the file headers (0 without them),   *)
(* the chunks first .. end-1 of the body, and the code of an envelope.      *)
(* 404 stands for every status outside 2xx.                                 *)
(***************************************************************************)
NoReply == [status |-> 0, version |-> 0, first |-> 0, end |-> 0, code |-> "none"]

Stream(status, v, first, end) ==
    [status |-> status, version |-> v, first |-> first, end |-> end, code |-> "none"]

Codes == {"wrongMachine", "refused", "okEnvelope", "undecodable"}
Envelopes ==
    {[status |-> s, version |-> 0, first |-> 0, end |-> 1, code |-> c] :
        s \in {200, 404}, c \in Codes}

\* The header is validated and then a server may serve the range, or ignore it.
Partial(r, v) ==
    {s \in {Stream(206, v, first, end) : first \in 0 .. Size, end \in 0 .. Size} :
        /\ s.first < s.end
        /\ r.form # "none"
        /\ s.first .. s.end - 1 = Selected(r, Size)}

Streams(r) == UNION {{Stream(200, v, 0, Size)} \cup Partial(r, v) : v \in FileVersions}

\* Mutant of IsFile: file headers are not looked at.
IsFileByStatus(r) == r.status \in {200, 206}

IsFile(r) == r.status = 206 \/ (r.status = 200 /\ r.version # 0)

\* An answer that decodes and reports an error; with a 2xx status also one that
\* reports none.
IsEnvelope(r) ==
    \/ r.code \in {"wrongMachine", "refused"}
    \/ (r.code = "okEnvelope" /\ r.status = 200)

Chunk(v, k) == [version |-> v, at |-> k]
Content(v) == [k \in 1 .. Size |-> Chunk(v, k - 1)]
Body(r) == [k \in 1 .. r.end - r.first |-> Chunk(r.version, r.first + k - 1)]

Outcomes == {"none", "ok", "app", "transport", "error", "callback", "badRange"}

DownloadTypeOK ==
    /\ style \in {"plain", "resuming"}
    /\ stage \in {"ready", "send", "wait", "copy", "bounced"}
    /\ hop \in 0 .. WmRetries + 1
    /\ start \in 0 .. Len(written)
    /\ meta.status \in {0, 200, 206, 404}
    /\ written \in Seq([version : {0} \cup FileVersions, at : Nat])
    /\ outcome \in Outcomes
    /\ shown \in 0 .. 1
    /\ downloads \in 0 .. MaxDownloads
    /\ stage = "copy" => /\ meta = reply
                         /\ Len(written) - start <= reply.end - reply.first

DownloadInit ==
    /\ style \in {"plain", "resuming"}
    /\ stage = "ready"
    /\ hop = 0
    /\ range = WholeFile
    /\ start = 0
    /\ reply = NoReply
    /\ meta = NoReply
    /\ written = << >>
    /\ outcome = "none"
    /\ shown = 0
    /\ downloads = 0

-------------------------------------------------------------------------------

ReturnDownload(o, m) ==
    /\ stage' = "ready"
    /\ outcome' = o
    /\ meta' = m

\* What the caller asks for: any range, or what its writer lacks.
Wanted ==
    IF style = "plain" THEN Ranges
    ELSE {IF written = << >> THEN WholeFile ELSE Range("open", Len(written), 0)}

\* A range that validateFileByteRange refuses is not sent.
BeginDownload ==
    /\ stage = "ready"
    /\ downloads < MaxDownloads
    /\ downloads' = downloads + 1
    /\ range' \in Wanted
    /\ hop' = 1
    /\ start' = Len(written)
    /\ shown' = 0
    /\ reply' = NoReply
    /\ meta' = NoReply
    /\ IF ValidateFileByteRange(range')
       THEN stage' = "send" /\ outcome' = "none"
       ELSE stage' = "ready" /\ outcome' = "badRange"
    /\ UNCHANGED <<style, written>>

\* The base URL makes no request, a TransportError, or there is no token.  (Before
\* the first attempt also: no establishment document, or no route.)
Unsent ==
    /\ stage = "send"
    /\ \E o \in {"transport", "error"} : ReturnDownload(o, NoReply)
    /\ UNCHANGED <<style, requestVars, reply, written, shown>>

SendFileRead ==
    /\ stage = "send"
    /\ stage' = "wait"
    /\ reply' = NoReply
    /\ UNCHANGED <<style, requestVars, meta, written, outcome, shown>>

\* A server answers the fileRead.
ServeFileRead ==
    /\ stage = "wait"
    /\ reply = NoReply
    /\ reply' \in Streams(range) \cup Envelopes
    /\ UNCHANGED <<style, stage, requestVars, meta, written, outcome, shown>>

\* The exchange ends without headers, or while an envelope is read.
LoseFileRead ==
    /\ stage = "wait"
    /\ \E m \in {NoReply, reply} :
        /\ ~ IsFile(m)
        /\ ReturnDownload("transport", m)
    /\ UNCHANGED <<style, requestVars, reply, written, shown>>

\* OnResponse of a resuming caller.
Accepts(m) ==
    \/ start = 0
    \/ (m.status = 206 /\ m.version = written[1].version)

Consult == shown' = shown + (IF style = "resuming" THEN 1 ELSE 0)

\* Mutant of AcceptFile: OnResponse is called for a 200 only.
AcceptFileUnasked ==
    /\ stage = "wait"
    /\ IsFile(reply)
    /\ (style = "resuming" /\ reply.status = 200) => Accepts(reply)
    /\ Consult
    /\ stage' = "copy"
    /\ meta' = reply
    /\ UNCHANGED <<style, requestVars, reply, written, outcome>>

\* A file is answered, and OnResponse does not object: the copy begins.
AcceptFile ==
    /\ stage = "wait"
    /\ IsFile(reply)
    /\ style = "resuming" => Accepts(reply)
    /\ Consult
    /\ stage' = "copy"
    /\ meta' = reply
    /\ UNCHANGED <<style, requestVars, reply, written, outcome>>

\* OnResponse returns an error.
RefuseFile ==
    /\ stage = "wait"
    /\ IsFile(reply)
    /\ style = "resuming"
    /\ ~ Accepts(reply)
    /\ Consult
    /\ ReturnDownload("callback", reply)
    /\ UNCHANGED <<style, requestVars, reply, written>>

Copied == Len(written) - start

CopyChunk ==
    /\ stage = "copy"
    /\ Copied < reply.end - reply.first
    /\ written' = Append(written, Chunk(reply.version, reply.first + Copied))
    /\ UNCHANGED <<style, stage, requestVars, reply, meta, outcome, shown>>

\* Mutant of BreakCopy: a body that ends early is taken for the whole.
BreakCopyUnnoticed ==
    /\ stage = "copy"
    /\ ReturnDownload("ok", meta)
    /\ UNCHANGED <<style, requestVars, reply, written, shown>>

\* Mutant of BreakCopy: a broken copy is tried again.
BreakCopyRetried ==
    /\ stage = "copy"
    /\ IF hop <= WmRetries
       THEN /\ stage' = "send"
            /\ hop' = hop + 1
            /\ UNCHANGED <<outcome, meta>>
       ELSE ReturnDownload("transport", meta) /\ UNCHANGED hop
    /\ UNCHANGED <<style, range, start, downloads, reply, written, shown>>

\* io.Copy fails, at the connection or at the writer, anywhere in the body.
BreakCopy ==
    /\ stage = "copy"
    /\ ReturnDownload("transport", meta)
    /\ UNCHANGED <<style, requestVars, reply, written, shown>>

FinishCopy ==
    /\ stage = "copy"
    /\ Copied = reply.end - reply.first
    /\ ReturnDownload("ok", meta)
    /\ UNCHANGED <<style, requestVars, reply, written, shown>>

Undecoded ==
    /\ stage = "wait"
    /\ reply # NoReply
    /\ ~ IsFile(reply)
    /\ ~ IsEnvelope(reply)
    /\ ReturnDownload("transport", reply)
    /\ UNCHANGED <<style, requestVars, reply, written, shown>>

\* The AppError of an envelope, also of the last bounce.
Refused ==
    /\ stage = "wait"
    /\ ~ IsFile(reply)
    /\ IsEnvelope(reply)
    /\ reply.code = "wrongMachine" => hop = WmRetries + 1
    /\ ReturnDownload("app", reply)
    /\ UNCHANGED <<style, requestVars, reply, written, shown>>

\* Mutant of FollowBounce: the last attempt is followed as well.
FollowBounceAlways ==
    /\ stage = "wait"
    /\ reply.code = "wrongMachine"
    /\ ~ IsFile(reply)
    /\ stage' = "bounced"
    /\ meta' = reply
    /\ UNCHANGED <<style, requestVars, reply, written, outcome, shown>>

\* wrongMachine with budget left, whatever the status.
FollowBounce ==
    /\ stage = "wait"
    /\ reply.code = "wrongMachine"
    /\ ~ IsFile(reply)
    /\ hop <= WmRetries
    /\ stage' = "bounced"
    /\ meta' = reply
    /\ UNCHANGED <<style, requestVars, reply, written, outcome, shown>>

\* Mutant of RerouteDownload: the attempts are not counted.
RerouteDownloadUncounted ==
    /\ stage = "bounced"
    /\ stage' = "send"
    /\ UNCHANGED <<style, requestVars, reply, meta, written, outcome, shown>>

\* Establish or the resolver fails: the metadata is what came with the bounce.
RerouteFails ==
    /\ stage = "bounced"
    /\ ReturnDownload("error", meta)
    /\ UNCHANGED <<style, requestVars, reply, written, shown>>

\* Establish and the resolver lead to another attempt.
RerouteDownload ==
    /\ stage = "bounced"
    /\ stage' = "send"
    /\ hop' = hop + 1
    /\ UNCHANGED <<style, range, start, downloads, reply, meta, written, outcome, shown>>

-------------------------------------------------------------------------------

ProceedDownload ==
    \/ Unsent
    \/ SendFileRead
    \/ LoseFileRead
    \/ AcceptFile
    \/ RefuseFile
    \/ CopyChunk
    \/ BreakCopy
    \/ FinishCopy
    \/ Undecoded
    \/ Refused
    \/ FollowBounce
    \/ RerouteFails
    \/ RerouteDownload

DownloadNext == BeginDownload \/ ProceedDownload \/ ServeFileRead

DownloadSpec == DownloadInit /\ [][DownloadNext]_downloadVars

\* The calling goroutine is scheduled, and the client's timeout ends its waits,
\* the copy included.
DownloadFairness == WF_downloadVars(ProceedDownload)

-------------------------------------------------------------------------------
\* Properties.

\* A call that succeeds has written the whole body that its metadata describes,
\* the selected range or the complete file, and nothing else, after any number
\* of bounces: a body that ended early is an error (doFileDownloadOnce).
SuccessIsWhole ==
    outcome = "ok" => SubSeq(written, start + 1, Len(written)) = Body(meta)

\* A caller that checks status and version in OnResponse may continue a broken
\* download on the same writer: the writer never holds chunks of two versions, a
\* gap or a repetition, whatever is bounced to servers that have other versions
\* or ignore Range, and a success has completed the file.
ResumesOneVersion ==
    style = "resuming" =>
        \E v \in FileVersions :
            /\ Len(written) <= Size
            /\ written = SubSeq(Content(v), 1, Len(written))
            /\ outcome = "ok" => written = Content(v)

\* Nothing is written unless a file was answered and accepted: not the body of
\* an error, of a bounce or of a 416, and not before OnResponse has agreed.
RefusalsUnwritten ==
    /\ \A i \in DOMAIN written : written[i].version # 0
    /\ (stage # "copy" /\ outcome \notin {"ok", "transport"}) => Len(written) = start

\* Once OnResponse has seen a response, which a proxy has passed on by then, no
\* other takes its place in that call: it is copied, or the call fails.
CommitIsFinal ==
    [][shown = 1 /\ downloads' = downloads =>
        /\ shown' = 1
        /\ hop' = hop
        /\ reply' = reply
        /\ (outcome' = "ok" /\ outcome # "ok") => Copied = reply.end - reply.first]_downloadVars

\* A range that validateFileByteRange refuses selects nothing of any file, and
\* one that is sent selects something of a file that is long enough.
RangesSelect ==
    LET lengths == 0 .. range.a + range.b + 1
    IN  /\ outcome = "badRange" => \A n \in lengths : Selected(range, n) = {}
        /\ stage = "wait" => \E n \in lengths : Selected(range, n) # {}

\* Every call returns.
DownloadEnds == stage # "ready" ~> stage = "ready"
===============================================================================
