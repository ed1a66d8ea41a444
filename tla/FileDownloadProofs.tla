-------------------------- MODULE FileDownloadProofs --------------------------
(***************************************************************************)
(* For files of any length and any number of versions, any ranges, any      *)
(* budget of bounces and any number of calls to one writer, what a download *)
(* reports of the writer is true.                                           *)
(***************************************************************************)
EXTENDS FileDownload, Integers, TLAPS

Forms == {"none", "closed", "open", "suffix"}
RangeType == [form : Forms, a : Nat, b : Nat]
Chunks == [version : {0} \cup FileVersions, at : Nat]
Replies == [status : {0, 200, 206, 404}, version : {0} \cup FileVersions,
            first : Nat, end : Nat, code : Codes \cup {"none"}]

InCall == {"send", "wait", "copy", "bounced"}

(* The types that DownloadTypeOK leaves open. *)
TypeInv ==
    /\ range \in RangeType
    /\ reply \in Replies
    /\ meta \in Replies

(* What was answered answers the range of this call. *)
ReplyInv == reply \in {NoReply} \cup Streams(range) \cup Envelopes

(* A call in progress has a range worth sending and no outcome, and until it *)
(* copies it has written nothing and not consulted OnResponse.              *)
CallInv ==
    /\ stage \in InCall =>
        /\ outcome = "none"
        /\ ValidateFileByteRange(range)
        /\ style = "resuming" =>
               range = IF start = 0 THEN WholeFile ELSE Range("open", start, 0)
    /\ stage \in InCall \ {"copy"} => Len(written) = start /\ shown = 0
    /\ outcome = "badRange" => ~ ValidateFileByteRange(range)
    /\ stage = "bounced" => hop <= WmRetries

(* The copy has written the beginning of the answered body. *)
CopyInv ==
    /\ stage = "copy" => IsFile(reply)
    /\ stage = "copy" =>
           \A i \in 1 .. Copied : written[start + i] = Body(reply)[i]

(* The writer of a resuming caller holds the beginning of one version, and   *)
(* what is being copied continues it.                                       *)
OneVersion(v) ==
    /\ Len(written) <= Size
    /\ \A i \in DOMAIN written : written[i] = Chunk(v, i - 1)
    /\ stage = "copy" => reply.version = v /\ reply.first = start /\ reply.end = Size
    /\ outcome = "ok" => Len(written) = Size

ResumeInv == style = "resuming" => \E v \in FileVersions : OneVersion(v)

DownloadInv ==
    /\ DownloadTypeOK
    /\ TypeInv
    /\ ReplyInv
    /\ CallInv
    /\ CopyInv
    /\ SuccessIsWhole
    /\ RefusalsUnwritten
    /\ ResumeInv

-------------------------------------------------------------------------------
(* Answers. *)

LEMMA ReplyTypes ==
    ASSUME NEW r \in RangeType, NEW m \in {NoReply} \cup Streams(r) \cup Envelopes
    PROVE  m \in Replies
<1>1. CASE m = NoReply
    BY <1>1 DEF NoReply, Replies
<1>2. CASE m \in Envelopes
    BY <1>2 DEF Envelopes, Replies, Codes
<1>3. CASE m \in Streams(r)
    BY <1>3, TransferAssumption DEF Streams, Stream, Partial, Replies
<1> QED
    BY <1>1, <1>2, <1>3

(* A file that answers a range has at least as much as nothing, and comes    *)
(* from a version.                                                          *)
LEMMA FileAnswers ==
    ASSUME NEW r \in RangeType, NEW m \in {NoReply} \cup Streams(r) \cup Envelopes,
           IsFile(m)
    PROVE  /\ m \in Streams(r)
           /\ m.version \in FileVersions
           /\ m.first <= m.end
           /\ m.code = "none"
<1>1. m \in Streams(r)
    BY DEF IsFile, NoReply, Envelopes
<1> QED
    BY <1>1, TransferAssumption DEF Streams, Stream, Partial

(* What a resuming caller accepts continues what it has. *)
LEMMA AcceptedContinues ==
    ASSUME NEW n \in Nat, NEW m \in Streams(IF n = 0 THEN WholeFile ELSE Range("open", n, 0)),
           n = 0 \/ m.status = 206
    PROVE  m.first = n /\ m.end = Size
<1>1. CASE n = 0
    BY <1>1 DEF Streams, Stream, Partial, WholeFile, Range
<1>2. CASE n # 0
    <2>1. m \in Partial(Range("open", n, 0), m.version)
        BY <1>2 DEF Streams, Stream, Partial
    <2>2. /\ m.first \in 0 .. Size /\ m.end \in 0 .. Size /\ m.first < m.end
          /\ m.first .. m.end - 1 = Selected(Range("open", n, 0), Size)
        BY <2>1 DEF Partial, Stream
    <2>3. \A k \in Int : k \in Selected(Range("open", n, 0), Size) <=>
                             n <= k /\ k <= Size - 1
        BY TransferAssumption DEF Selected, Range
    <2>4. \A k \in Int : m.first <= k /\ k <= m.end - 1 <=> n <= k /\ k <= Size - 1
        <3>1. m.first \in Int /\ m.end \in Int
            BY <2>2, TransferAssumption
        <3> QED
            BY <2>2, <2>3, <3>1, TransferAssumption
    <2>5. m.first \in Int /\ m.end - 1 \in Int /\ n \in Int /\ Size - 1 \in Int
        BY <2>2, TransferAssumption
    <2>6. n <= m.first /\ m.end - 1 <= Size - 1
        BY <2>2, <2>4, <2>5
    <2>7. m.first <= n /\ Size - 1 <= m.end - 1
        BY <2>2, <2>4, <2>5, <2>6
    <2> QED
        BY <2>2, <2>5, <2>6, <2>7, TransferAssumption
<1> QED
    BY <1>1, <1>2

LEMMA BodyChunks ==
    ASSUME NEW m \in Replies, m.first <= m.end
    PROVE  \A i \in 1 .. m.end - m.first : Body(m)[i] = Chunk(m.version, m.first + i - 1)
<1> TAKE i \in 1 .. m.end - m.first
<1>1. Body(m)[i] = Chunk(m.version, m.first + (i - 1))
    BY DEF Body
<1>2. m.first + (i - 1) = m.first + i - 1
    BY DEF Replies
<1> QED
    BY <1>1, <1>2

-------------------------------------------------------------------------------

LEMMA DownloadInvInit == DownloadInit => DownloadInv
<1> SUFFICES ASSUME DownloadInit
             PROVE  DownloadInv
    OBVIOUS
<1>1. DownloadTypeOK
    BY TransferAssumption, DownloadAssumption DEF DownloadInit, DownloadTypeOK, Outcomes, NoReply
<1>2. TypeInv
    BY DEF DownloadInit, TypeInv, RangeType, Forms, Replies, NoReply, WholeFile, Range
<1>3. ReplyInv /\ CallInv /\ CopyInv /\ SuccessIsWhole /\ RefusalsUnwritten
    BY DEF DownloadInit, ReplyInv, CallInv, InCall, CopyInv, SuccessIsWhole, RefusalsUnwritten
<1>4. PICK v \in FileVersions : TRUE
    BY DownloadAssumption
<1>5. ResumeInv
    BY <1>4, TransferAssumption DEF DownloadInit, ResumeInv, OneVersion
<1> QED
    BY <1>1, <1>2, <1>3, <1>5 DEF DownloadInv

-------------------------------------------------------------------------------
(* A step that leaves the writer, the request and the answer alone, and does *)
(* not begin to copy.                                                       *)
LEMMA QuietStep ==
    ASSUME DownloadInv,
           UNCHANGED <<style, range, start, downloads, reply, written>>,
           hop' \in 0 .. WmRetries + 1,
           stage' \in {"ready", "send", "wait", "copy", "bounced"},
           meta' \in Replies, outcome' \in Outcomes, shown' \in 0 .. 1,
           stage' = "copy" => /\ meta' = reply /\ stage = "copy",
           stage' = "bounced" => hop' <= WmRetries,
           stage' \in InCall => stage \in InCall /\ outcome' = "none",
           stage' \in InCall \ {"copy"} => stage # "copy" /\ shown' = 0,
           outcome' = "badRange" => outcome = "badRange",
           outcome' = "ok" => /\ SubSeq(written, start + 1, Len(written)) = Body(meta')
                              /\ style = "resuming" => Len(written) = Size,
           (stage' # "copy" /\ outcome' \notin {"ok", "transport"}) => Len(written) = start
    PROVE  DownloadInv'
<1>1. DownloadTypeOK'
    BY DEF DownloadInv, DownloadTypeOK, Replies
<1>2. TypeInv' /\ ReplyInv'
    BY DEF DownloadInv, TypeInv, ReplyInv
<1>3. CallInv'
    BY DEF DownloadInv, CallInv, InCall
<1>4. CopyInv'
    BY DEF DownloadInv, CopyInv, Copied
<1>5. SuccessIsWhole' /\ RefusalsUnwritten'
    BY DEF DownloadInv, SuccessIsWhole, RefusalsUnwritten
<1>6. ResumeInv'
    <2> SUFFICES ASSUME style = "resuming"
                 PROVE  \E v \in FileVersions : OneVersion(v)'
        BY DEF ResumeInv
    <2>1. PICK v \in FileVersions : OneVersion(v)
        BY DEF DownloadInv, ResumeInv
    <2>2. OneVersion(v)'
        BY <2>1 DEF OneVersion
    <2> QED
        BY <2>2
<1> QED
    BY <1>1, <1>2, <1>3, <1>4, <1>5, <1>6 DEF DownloadInv

LEMMA BeginStep ==
    ASSUME DownloadInv, BeginDownload
    PROVE  DownloadInv'
<1>1. range' \in RangeType
    BY DownloadAssumption
    DEF BeginDownload, Wanted, RangeType, Forms, WholeFile, Range, DownloadInv, DownloadTypeOK
<1>2. Len(written) \in Nat
    BY DEF DownloadInv, DownloadTypeOK
<1>3. DownloadTypeOK'
    BY <1>2, TransferAssumption, DownloadAssumption
    DEF BeginDownload, DownloadInv, DownloadTypeOK, NoReply, Outcomes
<1>4. NoReply \in Replies
    BY DEF NoReply, Replies
<1>5. TypeInv' /\ ReplyInv'
    BY <1>1, <1>4 DEF BeginDownload, TypeInv, ReplyInv
<1>6. style = "resuming" =>
          range' = IF start' = 0 THEN WholeFile ELSE Range("open", start', 0)
    <2>1. written = << >> <=> Len(written) = 0
        BY DEF DownloadInv, DownloadTypeOK
    <2> QED
        BY <2>1 DEF BeginDownload, Wanted, DownloadInv, DownloadTypeOK
<1>7. CallInv' /\ CopyInv'
    BY <1>6 DEF BeginDownload, CallInv, CopyInv, InCall
<1>8. SuccessIsWhole' /\ RefusalsUnwritten'
    BY DEF BeginDownload, DownloadInv, SuccessIsWhole, RefusalsUnwritten
<1>9. ResumeInv'
    <2> SUFFICES ASSUME style = "resuming"
                 PROVE  \E v \in FileVersions : OneVersion(v)'
        BY DEF BeginDownload, ResumeInv
    <2>1. PICK v \in FileVersions : OneVersion(v)
        BY DEF DownloadInv, ResumeInv
    <2>2. OneVersion(v)'
        BY <2>1 DEF BeginDownload, OneVersion
    <2> QED
        BY <2>2
<1> QED
    BY <1>3, <1>5, <1>7, <1>8, <1>9 DEF DownloadInv

LEMMA ServeStep ==
    ASSUME DownloadInv, ServeFileRead
    PROVE  DownloadInv'
<1>1. reply' \in Replies
    BY ReplyTypes DEF ServeFileRead, DownloadInv, TypeInv
<1>2. DownloadTypeOK' /\ TypeInv' /\ ReplyInv'
    BY <1>1 DEF ServeFileRead, DownloadInv, DownloadTypeOK, TypeInv, ReplyInv, requestVars
<1>3. CallInv' /\ CopyInv' /\ SuccessIsWhole' /\ RefusalsUnwritten'
    BY DEF ServeFileRead, DownloadInv, CallInv, InCall, CopyInv, SuccessIsWhole,
           RefusalsUnwritten, requestVars
<1>4. ResumeInv'
    <2> SUFFICES ASSUME style = "resuming"
                 PROVE  \E v \in FileVersions : OneVersion(v)'
        BY DEF ServeFileRead, ResumeInv
    <2>1. PICK v \in FileVersions : OneVersion(v)
        BY DEF DownloadInv, ResumeInv
    <2>2. OneVersion(v)'
        BY <2>1 DEF ServeFileRead, OneVersion, requestVars
    <2> QED
        BY <2>2
<1> QED
    BY <1>2, <1>3, <1>4 DEF DownloadInv

LEMMA SendStep ==
    ASSUME DownloadInv, SendFileRead
    PROVE  DownloadInv'
<1>1. NoReply \in Replies
    BY DEF NoReply, Replies
<1>2. DownloadTypeOK' /\ TypeInv' /\ ReplyInv'
    BY <1>1 DEF SendFileRead, DownloadInv, DownloadTypeOK, TypeInv, ReplyInv, requestVars
<1>3. CallInv' /\ CopyInv' /\ SuccessIsWhole' /\ RefusalsUnwritten'
    BY DEF SendFileRead, DownloadInv, CallInv, InCall, CopyInv, SuccessIsWhole,
           RefusalsUnwritten, requestVars
<1>4. ResumeInv'
    <2> SUFFICES ASSUME style = "resuming"
                 PROVE  \E v \in FileVersions : OneVersion(v)'
        BY DEF SendFileRead, ResumeInv
    <2>1. PICK v \in FileVersions : OneVersion(v)
        BY DEF DownloadInv, ResumeInv
    <2>2. OneVersion(v)'
        BY <2>1 DEF SendFileRead, OneVersion, requestVars
    <2> QED
        BY <2>2
<1> QED
    BY <1>2, <1>3, <1>4 DEF DownloadInv

(* The answer that is accepted comes from one version, and for a resuming    *)
(* caller it continues that of the writer.                                  *)
LEMMA AcceptStep ==
    ASSUME DownloadInv, AcceptFile
    PROVE  DownloadInv'
<1>1. /\ reply \in Streams(range) /\ reply.version \in FileVersions
      /\ reply.first <= reply.end /\ reply \in Replies
    BY FileAnswers DEF AcceptFile, DownloadInv, ReplyInv, TypeInv
<1>2. Len(written) = start /\ shown = 0 /\ outcome = "none"
    BY DEF AcceptFile, DownloadInv, CallInv, InCall
<1>3. Len(written) \in Nat /\ reply.first \in Nat /\ reply.end \in Nat
    BY <1>1 DEF Replies, DownloadInv, DownloadTypeOK
<1>4. shown' \in 0 .. 1
    BY <1>2 DEF AcceptFile, Consult
<1>5. DownloadTypeOK'
    BY <1>1, <1>2, <1>3, <1>4 DEF AcceptFile, DownloadInv, DownloadTypeOK, Replies, requestVars
<1>6. TypeInv' /\ ReplyInv' /\ CallInv'
    BY DEF AcceptFile, DownloadInv, TypeInv, ReplyInv, CallInv, InCall, requestVars
<1>7. CopyInv'
    BY <1>2, <1>3 DEF AcceptFile, CopyInv, Copied, requestVars
<1>8. SuccessIsWhole' /\ RefusalsUnwritten'
    BY <1>2 DEF AcceptFile, DownloadInv, SuccessIsWhole, RefusalsUnwritten, requestVars
<1>9. ResumeInv'
    <2> SUFFICES ASSUME style = "resuming"
                 PROVE  \E v \in FileVersions : OneVersion(v)'
        BY DEF AcceptFile, ResumeInv
    <2>1. PICK v \in FileVersions : OneVersion(v)
        BY DEF DownloadInv, ResumeInv
    <2>2. range = IF start = 0 THEN WholeFile ELSE Range("open", start, 0)
        BY DEF AcceptFile, DownloadInv, CallInv, InCall
    <2>3. Accepts(reply)
        BY DEF AcceptFile
    <2>4. reply.first = start /\ reply.end = Size
        <3>1. start \in Nat /\ (start = 0 \/ reply.status = 206)
            BY <1>2, <1>3, <2>3 DEF Accepts
        <3>2. reply \in Streams(IF start = 0 THEN WholeFile ELSE Range("open", start, 0))
            BY <1>1, <2>2
        <3> QED
            BY <3>1, <3>2, AcceptedContinues
    <2>5. start # 0 => reply.version = v
        <3> SUFFICES ASSUME start # 0
                     PROVE  reply.version = v
            OBVIOUS
        <3>1. reply.version = written[1].version
            BY <2>3 DEF Accepts
        <3>2. 1 \in DOMAIN written
            BY <1>2, <1>3 DEF DownloadInv, DownloadTypeOK
        <3> QED
            BY <2>1, <3>1, <3>2 DEF OneVersion, Chunk
    <2>6. start = 0 => DOMAIN written = {}
        BY <1>2 DEF DownloadInv, DownloadTypeOK
    <2>7. /\ Len(written) <= Size
          /\ \A i \in DOMAIN written : written[i] = Chunk(reply.version, i - 1)
        BY <2>1, <2>5, <2>6 DEF OneVersion
    <2>8. UNCHANGED <<written, reply, start, outcome>>
        BY DEF AcceptFile, requestVars
    <2>9. OneVersion(reply.version)'
        BY <1>2, <2>4, <2>7, <2>8 DEF OneVersion
    <2>10. reply' = reply
        BY <2>8
    <2> QED
        BY <1>1, <2>9, <2>10
<1> QED
    BY <1>5, <1>6, <1>7, <1>8, <1>9 DEF DownloadInv

LEMMA CopyStep ==
    ASSUME DownloadInv, CopyChunk
    PROVE  DownloadInv'
<1> DEFINE chunk == Chunk(reply.version, reply.first + Copied)
<1>1. /\ reply \in Streams(range) /\ reply.version \in FileVersions
      /\ reply.first <= reply.end /\ reply \in Replies
    BY FileAnswers DEF CopyChunk, DownloadInv, ReplyInv, TypeInv, CopyInv
<1>2. /\ Len(written) \in Nat /\ start \in Nat /\ start <= Len(written)
      /\ reply.first \in Nat /\ reply.end \in Nat /\ Copied \in Nat
    BY <1>1 DEF Replies, DownloadInv, DownloadTypeOK, Copied
<1>3. chunk \in Chunks
    BY <1>1, <1>2 DEF Chunk, Chunks
<1>4. written \in Seq(Chunks)
    BY DEF DownloadInv, DownloadTypeOK, Chunks
<1>5. /\ written' \in Seq(Chunks) /\ Len(written') = Len(written) + 1
      /\ \A i \in 1 .. Len(written) : written'[i] = written[i]
      /\ written'[Len(written) + 1] = chunk
    BY <1>3, <1>4 DEF CopyChunk
<1>6. Copied' = Copied + 1 /\ Copied' <= reply.end - reply.first
    BY <1>2, <1>5 DEF CopyChunk, Copied, requestVars
<1>7. DownloadTypeOK'
    BY <1>2, <1>5, <1>6 DEF CopyChunk, DownloadInv, DownloadTypeOK, requestVars, Chunks, Copied
<1>8. TypeInv' /\ ReplyInv' /\ CallInv'
    BY DEF CopyChunk, DownloadInv, TypeInv, ReplyInv, CallInv, InCall, requestVars
<1>9. CopyInv'
    <2>1. IsFile(reply)'
        BY DEF CopyChunk, DownloadInv, CopyInv, IsFile
    <2>2. \A i \in 1 .. Copied : written[start + i] = Body(reply)[i]
        BY DEF CopyChunk, DownloadInv, CopyInv
    <2>3. ASSUME NEW i \in 1 .. Copied + 1
          PROVE  written'[start + i] = Body(reply)[i]
        <3>1. CASE i <= Copied
            <4>1. i \in 1 .. Copied
                BY <1>2, <3>1
            <4>2. start + i \in 1 .. Len(written)
                BY <1>2, <4>1 DEF Copied
            <4>3. written'[start + i] = written[start + i]
                BY <1>5, <4>2
            <4> QED
                BY <2>2, <4>1, <4>3
        <3>2. CASE i = Copied + 1
            <4>1. start + i = Len(written) + 1
                BY <1>2, <3>2 DEF Copied
            <4>2. i \in 1 .. reply.end - reply.first
                BY <1>2, <1>6, <3>2
            <4>3. Body(reply)[i] = Chunk(reply.version, reply.first + i - 1)
                BY <1>1, <4>2, BodyChunks
            <4>4. reply.first + i - 1 = reply.first + Copied
                BY <1>2, <3>2
            <4> QED
                BY <1>5, <4>1, <4>3, <4>4
        <3>3. i <= Copied \/ i = Copied + 1
            <4> DEFINE n == Copied
            <4>1. n \in Nat /\ i \in 1 .. n + 1
                BY <1>2
            <4> HIDE DEF n
            <4>2. i <= n \/ i = n + 1
                BY <4>1
            <4> QED
                BY <4>2 DEF n
        <3> QED
            BY <3>1, <3>2, <3>3
    <2> QED
        BY <1>6, <2>1, <2>3 DEF CopyChunk, CopyInv, requestVars
<1>10. SuccessIsWhole'
    BY DEF CopyChunk, DownloadInv, CallInv, InCall, SuccessIsWhole
<1>11. RefusalsUnwritten'
    <2>1. chunk.version # 0
        BY <1>1, DownloadAssumption DEF Chunk
    <2>2. \A i \in DOMAIN written' : written'[i].version # 0
        BY <1>2, <1>4, <1>5, <2>1 DEF DownloadInv, RefusalsUnwritten
    <2> QED
        BY <2>2 DEF CopyChunk, RefusalsUnwritten
<1>12. ResumeInv'
    <2> SUFFICES ASSUME style = "resuming"
                 PROVE  \E v \in FileVersions : OneVersion(v)'
        BY DEF CopyChunk, ResumeInv
    <2>1. PICK v \in FileVersions : OneVersion(v)
        BY DEF DownloadInv, ResumeInv
    <2>2. reply.version = v /\ reply.first = start /\ reply.end = Size /\ outcome = "none"
        BY <2>1 DEF CopyChunk, OneVersion, DownloadInv, CallInv, InCall
    <2>3. reply.first + Copied = Len(written) /\ Len(written) + 1 <= Size
        BY <1>2, <2>2 DEF Copied, CopyChunk
    <2>4. \A i \in DOMAIN written' : written'[i] = Chunk(v, i - 1)
        BY <1>2, <1>4, <1>5, <2>1, <2>2, <2>3 DEF OneVersion
    <2>5. OneVersion(v)'
        BY <1>5, <2>2, <2>3, <2>4 DEF OneVersion, CopyChunk, requestVars
    <2> QED
        BY <2>5
<1> QED
    BY <1>7, <1>8, <1>9, <1>10, <1>11, <1>12 DEF DownloadInv

(* What is written when the copy ends is the body. *)
LEMMA FinishStep ==
    ASSUME DownloadInv, FinishCopy
    PROVE  DownloadInv'
<1>1. /\ reply.version \in FileVersions
      /\ reply.first <= reply.end /\ reply \in Replies /\ meta = reply
    BY FileAnswers DEF FinishCopy, DownloadInv, ReplyInv, TypeInv, CopyInv, DownloadTypeOK
<1>2. /\ Len(written) \in Nat /\ start \in Nat /\ start <= Len(written)
      /\ reply.first \in Nat /\ reply.end \in Nat
      /\ Len(written) - start = reply.end - reply.first
    BY <1>1 DEF Replies, DownloadInv, DownloadTypeOK, FinishCopy, Copied
<1>3. written \in Seq(Chunks)
    BY DEF DownloadInv, DownloadTypeOK, Chunks
<1>4. SubSeq(written, start + 1, Len(written)) = Body(meta)
    <2>1. Body(reply) = [k \in 1 .. Len(written) - start |-> Body(reply)[k]]
        BY <1>2 DEF Body
    <2>2. SubSeq(written, start + 1, Len(written)) =
              [k \in 1 .. Len(written) - start |-> written[start + k]]
        <3>1. Len(written) - (start + 1) + 1 = Len(written) - start
            BY <1>2
        <3>2. \A k \in 1 .. Len(written) - start : start + 1 + k - 1 = start + k
            BY <1>2
        <3> QED
            BY <1>2, <1>3, <3>1, <3>2
    <2>3. \A k \in 1 .. Len(written) - start : written[start + k] = Body(reply)[k]
        BY DEF FinishCopy, DownloadInv, CopyInv, Copied
    <2> QED
        BY <1>1, <2>1, <2>2, <2>3
<1>5. style = "resuming" => Len(written) = Size
    <2> SUFFICES ASSUME style = "resuming"
                 PROVE  Len(written) = Size
        OBVIOUS
    <2>1. PICK v \in FileVersions : OneVersion(v)
        BY DEF DownloadInv, ResumeInv
    <2>2. reply.first = start /\ reply.end = Size
        BY <2>1 DEF FinishCopy, OneVersion
    <2> QED
        BY <1>2, <2>2, TransferAssumption
<1>6. stage = "copy" /\ stage' = "ready" /\ outcome' = "ok" /\ meta' = meta
    BY DEF FinishCopy, ReturnDownload
<1> QED
    BY <1>1, <1>4, <1>5, <1>6, QuietStep
    DEF FinishCopy, DownloadInv, DownloadTypeOK, InCall, Outcomes, requestVars

LEMMA DownloadInvNext == DownloadInv /\ [DownloadNext]_downloadVars => DownloadInv'
<1> SUFFICES ASSUME DownloadInv, [DownloadNext]_downloadVars
             PROVE  DownloadInv'
    OBVIOUS
<1> USE DEF requestVars, ReturnDownload, InCall, Outcomes
<1>a. /\ hop \in 0 .. WmRetries + 1 /\ shown \in 0 .. 1
      /\ meta \in Replies /\ reply \in Replies /\ NoReply \in Replies
    BY DEF DownloadInv, DownloadTypeOK, TypeInv, Replies, NoReply
<1>b. stage \in InCall \ {"copy"} => Len(written) = start /\ shown = 0 /\ outcome = "none"
    BY DEF DownloadInv, CallInv
<1>1. CASE BeginDownload
    BY <1>1, BeginStep
<1>2. CASE Unsent
    BY <1>2, <1>a, <1>b, QuietStep DEF Unsent
<1>3. CASE SendFileRead
    BY <1>3, SendStep
<1>4. CASE LoseFileRead
    BY <1>4, <1>a, <1>b, QuietStep DEF LoseFileRead
<1>5. CASE AcceptFile
    BY <1>5, AcceptStep
<1>6. CASE RefuseFile
    <2>1. shown' \in 0 .. 1
        BY <1>6, <1>b DEF RefuseFile, Consult
    <2> QED
        BY <1>6, <1>a, <1>b, <2>1, QuietStep DEF RefuseFile
<1>7. CASE CopyChunk
    BY <1>7, CopyStep
<1>8. CASE BreakCopy
    BY <1>8, <1>a, QuietStep DEF BreakCopy
<1>9. CASE FinishCopy
    BY <1>9, FinishStep
<1>10. CASE Undecoded
    BY <1>10, <1>a, <1>b, QuietStep DEF Undecoded
<1>11. CASE Refused
    BY <1>11, <1>a, <1>b, QuietStep DEF Refused
<1>12. CASE FollowBounce
    BY <1>12, <1>a, <1>b, QuietStep DEF FollowBounce
<1>13. CASE RerouteDownload
    <2>1. hop' \in 0 .. WmRetries + 1
        BY <1>13, <1>a, TransferAssumption DEF RerouteDownload, DownloadInv, CallInv
    <2> QED
        BY <1>13, <1>a, <1>b, <2>1, QuietStep DEF RerouteDownload
<1>14. CASE ServeFileRead
    BY <1>14, ServeStep
<1>15. CASE RerouteFails
    BY <1>15, <1>a, <1>b, QuietStep DEF RerouteFails
<1>16. CASE UNCHANGED downloadVars
    BY <1>16 DEF downloadVars, DownloadInv, DownloadTypeOK, TypeInv, ReplyInv, CallInv, CopyInv,
                 SuccessIsWhole, RefusalsUnwritten, ResumeInv, OneVersion, Copied
<1> QED
    BY <1>1, <1>2, <1>3, <1>4, <1>5, <1>6, <1>7, <1>8, <1>9, <1>10, <1>11, <1>12, <1>13, <1>14,
       <1>15, <1>16 DEF DownloadNext, ProceedDownload

-------------------------------------------------------------------------------

LEMMA DownloadInvCorrect == DownloadSpec => []DownloadInv
<1>1. DownloadInit => DownloadInv
    BY DownloadInvInit
<1>2. DownloadInv /\ [DownloadNext]_downloadVars => DownloadInv'
    BY DownloadInvNext
<1> QED
    BY <1>1, <1>2, PTL DEF DownloadSpec

(* The answers, the metadata and the writer keep their types, and no more is *)
(* copied than was answered (downloadFile).                                 *)
THEOREM TypeCorrect == DownloadSpec => []DownloadTypeOK
<1>1. DownloadInv => DownloadTypeOK
    BY DEF DownloadInv
<1> QED
    BY <1>1, DownloadInvCorrect, PTL

(* A successful download wrote the body that its metadata describes, after   *)
(* any number of bounces (doFileDownloadOnce).                              *)
THEOREM SuccessIsWholeCorrect == DownloadSpec => []SuccessIsWhole
<1>1. DownloadInv => SuccessIsWhole
    BY DEF DownloadInv
<1> QED
    BY <1>1, DownloadInvCorrect, PTL

(* Only an accepted file is written (doFileDownloadOnce, isFileResponse).    *)
THEOREM RefusalsUnwrittenCorrect == DownloadSpec => []RefusalsUnwritten
<1>1. DownloadInv => RefusalsUnwritten
    BY DEF DownloadInv
<1> QED
    BY <1>1, DownloadInvCorrect, PTL

(* A caller that checks status and version in OnResponse never mixes two     *)
(* versions on its writer, and a success has completed one.                 *)
THEOREM ResumesOneVersionCorrect == DownloadSpec => []ResumesOneVersion
<1>1. DownloadInv => ResumesOneVersion
    <2> SUFFICES ASSUME DownloadInv, style = "resuming"
                 PROVE  ResumesOneVersion
        BY DEF ResumesOneVersion
    <2>1. PICK v \in FileVersions : OneVersion(v)
        BY DEF DownloadInv, ResumeInv
    <2>2. written \in Seq(Chunks) /\ Len(written) \in Nat /\ Len(written) <= Size
        BY <2>1 DEF OneVersion, DownloadInv, DownloadTypeOK, Chunks
    <2>3. written = [k \in 1 .. Len(written) |-> Chunk(v, k - 1)]
        <3>1. written = [k \in 1 .. Len(written) |-> written[k]]
            BY <2>2
        <3>2. \A k \in 1 .. Len(written) : written[k] = Chunk(v, k - 1)
            BY <2>1, <2>2 DEF OneVersion
        <3> QED
            BY <3>1, <3>2
    <2>4. SubSeq(Content(v), 1, Len(written)) = [k \in 1 .. Len(written) |-> Chunk(v, k - 1)]
        <3>1. SubSeq(Content(v), 1, Len(written)) =
                  [k \in 1 .. Len(written) |-> Content(v)[k]]
            BY <2>2
        <3>2. \A k \in 1 .. Len(written) : Content(v)[k] = Chunk(v, k - 1)
            BY <2>2, TransferAssumption DEF Content
        <3> QED
            BY <3>1, <3>2
    <2>5. outcome = "ok" => written = Content(v)
        BY <2>1, <2>3 DEF OneVersion, Content
    <2> QED
        BY <2>2, <2>3, <2>4, <2>5 DEF ResumesOneVersion
<1> QED
    BY <1>1, DownloadInvCorrect, PTL

(* validateFileByteRange refuses a range only if it selects nothing of any   *)
(* file, and lets it pass only if it selects something of some file.        *)
THEOREM RangesSelectCorrect == DownloadSpec => []RangesSelect
<1>1. DownloadInv => RangesSelect
    <2> SUFFICES ASSUME DownloadInv
                 PROVE  RangesSelect
        OBVIOUS
    <2>1. range \in RangeType
        BY DEF DownloadInv, TypeInv
    <2>2. /\ range.form \in Forms /\ range.a \in Nat /\ range.b \in Nat
        BY <2>1 DEF RangeType
    <2>3. ASSUME ~ ValidateFileByteRange(range), NEW n \in Nat
          PROVE  Selected(range, n) = {}
        BY <2>2, <2>3 DEF Selected, ValidateFileByteRange
    <2>4. ASSUME ValidateFileByteRange(range)
          PROVE  \E n \in 0 .. range.a + range.b + 1 : Selected(range, n) # {}
        <3>1. CASE range.form \in {"none", "suffix"}
            <4>1. 1 \in 0 .. range.a + range.b + 1
                BY <2>2
            <4>2. 0 \in Selected(range, 1)
                BY <2>2, <2>4, <3>1 DEF Selected, ValidateFileByteRange
            <4> QED
                BY <4>1, <4>2
        <3>2. CASE range.form \in {"closed", "open"}
            <4>1. range.a + 1 \in 0 .. range.a + range.b + 1
                BY <2>2
            <4>2. range.a \in Selected(range, range.a + 1)
                BY <2>2, <2>4, <3>2 DEF Selected, ValidateFileByteRange
            <4> QED
                BY <4>1, <4>2
        <3> QED
            BY <2>2, <3>1, <3>2 DEF Forms
    <2>5. outcome = "badRange" => ~ ValidateFileByteRange(range)
        BY DEF DownloadInv, CallInv
    <2>6. stage = "wait" => ValidateFileByteRange(range)
        BY DEF DownloadInv, CallInv, InCall
    <2>7. 0 .. range.a + range.b + 1 \subseteq Nat
        BY <2>2
    <2> QED
        BY <2>3, <2>4, <2>5, <2>6, <2>7 DEF RangesSelect
<1> QED
    BY <1>1, DownloadInvCorrect, PTL

(* Once OnResponse has seen a response, no other takes its place in that     *)
(* call (doFileDownloadOnce, executeRoutedFileDownload).                    *)
THEOREM CommitIsFinalCorrect == DownloadSpec => CommitIsFinal
<1> DEFINE Committed ==
        shown = 1 /\ downloads' = downloads =>
            /\ shown' = 1
            /\ hop' = hop
            /\ reply' = reply
            /\ (outcome' = "ok" /\ outcome # "ok") => Copied = reply.end - reply.first
<1>1. DownloadInv /\ [DownloadNext]_downloadVars => [Committed]_downloadVars
    <2> SUFFICES ASSUME DownloadInv, DownloadNext, shown = 1, downloads' = downloads
                 PROVE  /\ shown' = 1 /\ hop' = hop /\ reply' = reply
                        /\ (outcome' = "ok" /\ outcome # "ok") =>
                               Copied = reply.end - reply.first
        BY DEF downloadVars, requestVars
    <2>1. stage \in {"ready", "copy"}
        BY DEF DownloadInv, DownloadTypeOK, CallInv, InCall
    <2>2. downloads \in Nat
        BY DownloadAssumption DEF DownloadInv, DownloadTypeOK
    <2>3. ~ BeginDownload
        BY <2>2 DEF BeginDownload
    <2>4. CopyChunk \/ BreakCopy \/ FinishCopy
        BY <2>1, <2>3
        DEF DownloadNext, ProceedDownload, Unsent, SendFileRead, LoseFileRead, AcceptFile,
            RefuseFile, Undecoded, Refused, FollowBounce, RerouteFails, RerouteDownload,
            ServeFileRead
    <2> QED
        BY <2>4 DEF CopyChunk, BreakCopy, FinishCopy, ReturnDownload, requestVars
<1> QED
    BY <1>1, DownloadInvCorrect, PTL DEF DownloadSpec, CommitIsFinal
===============================================================================
