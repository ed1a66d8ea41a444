--------------------------- MODULE FileUploadProofs ---------------------------
(***************************************************************************)
(* For a file of any size and any bounce budget: what PutFile has the       *)
(* database store is the file, unless two goroutines shared a reader, and   *)
(* PutFile keeps the contract of a command.                                 *)
(***************************************************************************)
EXTENDS FileUpload, TLAPS

(* The goroutine of a has opened the file and may still read it. *)
Copying(a) == writer[a] \in {"read", "write", "close"}

(* No other goroutine moves the reader of a under its hands. *)
Undisturbed == source = "reopen" \/ ~ overlap

AloneInv ==
    Undisturbed =>
        \A a, b \in Attempts : Copying(a) /\ Copying(b) /\ Reader(a) = Reader(b) => a = b

(* seq is the first n chunks of the file. *)
IsPrefix(seq, n) == Len(seq) = n /\ \A k \in 1 .. n : seq[k] = k

(* What the server of attempt a has been sent. *)
SentInv(a) ==
    /\ writer[a] \in {"none", "command", "open"} => received[a] = << >>
    /\ writer[a] = "read" => IsPrefix(received[a], pos[Reader(a)])
    /\ writer[a] = "write" =>
        /\ pos[Reader(a)] # 0
        /\ chunk[a] = pos[Reader(a)]
        /\ IsPrefix(received[a], pos[Reader(a)] - 1)
    /\ writer[a] = "close" => IsPrefix(received[a], Size)
    /\ a \in complete => IsPrefix(received[a], Size)

ContentInv ==
    /\ AloneInv
    /\ Undisturbed => \A a \in Attempts : SentInv(a)
    /\ \A a \in complete : writer[a] = "ended"
    /\ \A a \in Attempts : writer[a] = "write" => chunk[a] # 0

(* The attempts before the current one were bounced, and those after it do not *)
(* exist yet.                                                                  *)
CallInv ==
    /\ pc = "idle" => attempt = 0
    /\ pc \in {"prepare", "wait", "reroute"} => attempt # 0
    /\ pc = "reroute" => attempt <= WmRetries /\ answer[attempt] = "wrongMachine"
    /\ \A a \in Attempts : a > attempt => writer[a] = "none" /\ conn[a] = "none"
    /\ \A a \in Attempts : a < attempt => answer[a] = "wrongMachine"

(* What an answer tells of the database, and what PutFile returned of it. *)
AnswerInv ==
    /\ \A a \in Attempts : answer[a] # "none" => conn[a] # "none"
    /\ \A a \in Attempts : answer[a] = "ok" => a \in stored
    /\ \A a \in stored : answer[a] \in {"ok", "http"}
    /\ pc = "done" => result \in Results
    /\ pc = "done" /\ result = "ok" => stored # {}
    /\ pc = "done" /\ result \in {"refused", "wrongMachine"} =>
            attempt # 0 /\ answer[attempt] \in {"refused", "wrongMachine"}

Inv == TypeOK /\ CallInv /\ ContentInv /\ AnswerInv
-------------------------------------------------------------------------------

LEMMA InvInit == Init => Inv
<1> SUFFICES ASSUME Init
             PROVE  Inv
    OBVIOUS
<1>1. TypeOK
    <2>1. << >> \in Seq(1 .. Size)
        OBVIOUS
    <2>2. 0 \in 0 .. Size /\ 0 \in 0 .. WmRetries + 1
        BY TransferAssumption
    <2> QED
        BY <2>1, <2>2 DEF Init, TypeOK
<1>2. CallInv /\ AnswerInv
    BY DEF Init, CallInv, AnswerInv, Attempts
<1>3. ContentInv
    BY DEF Init, ContentInv, AloneInv, SentInv, Copying, Attempts
<1> QED
    BY <1>1, <1>2, <1>3 DEF Inv

(* A new attempt starts with nothing sent. *)
LEMMA StartStep ==
    ASSUME Inv, StartAttempt, attempt <= WmRetries,
           attempt # 0 => answer[attempt] = "wrongMachine"
    PROVE  Inv'
<1>1. TypeOK /\ CallInv /\ ContentInv /\ AnswerInv
    BY DEF Inv
<1>2. attempt + 1 \in Attempts /\ writer[attempt + 1] = "none"
    BY <1>1, TransferAssumption DEF TypeOK, CallInv, Attempts
<1>3. TypeOK'
    <2>1. attempt' \in 0 .. WmRetries + 1
        BY <1>2 DEF StartAttempt, Attempts
    <2>2. writer' \in [Attempts -> {"none", "command", "open", "read", "write", "close", "ended"}]
        BY <1>1, <1>2 DEF StartAttempt, TypeOK
    <2>3. QED
        BY <1>1, <2>1, <2>2 DEF StartAttempt, TypeOK, serverVars
<1>4. CallInv'
    BY <1>1, <1>2 DEF StartAttempt, CallInv, TypeOK, Attempts, serverVars
<1>5. AnswerInv'
    BY <1>1 DEF StartAttempt, AnswerInv, serverVars
<1>6. ContentInv'
    <2>1. \A a \in Attempts : Copying(a)' <=> Copying(a)
        BY <1>1, <1>2 DEF StartAttempt, Copying, TypeOK
    <2>2. \A a \in Attempts : Reader(a)' = Reader(a)
        BY DEF StartAttempt, Reader
    <2>3. AloneInv' /\ (Undisturbed' <=> Undisturbed)
        BY <1>1, <2>1, <2>2 DEF StartAttempt, ContentInv, AloneInv, Undisturbed
    <2>4. \A a \in complete' : writer'[a] = "ended"
        BY <1>1, <1>2 DEF StartAttempt, ContentInv, TypeOK
    <2>5. \A a \in Attempts : writer'[a] = "write" => chunk'[a] # 0
        BY <1>1, <1>2 DEF StartAttempt, ContentInv, TypeOK
    <2>6. ASSUME NEW a \in Attempts, SentInv(a)
          PROVE  SentInv(a)'
        BY <1>1, <1>2, <2>2, <2>6 DEF StartAttempt, SentInv, TypeOK, IsPrefix
    <2> QED
        BY <1>1, <2>3, <2>4, <2>5, <2>6 DEF ContentInv
<1> QED
    BY <1>3, <1>4, <1>5, <1>6 DEF Inv

(* The other steps of PutFile send nothing. *)
LEMMA CallStep ==
    ASSUME Inv, Begin \/ Proceed
    PROVE  Inv'
<1>1. TypeOK /\ CallInv /\ ContentInv /\ AnswerInv
    BY DEF Inv
<1>2. ASSUME UNCHANGED <<source, bodyVars>>
      PROVE  ContentInv'
    BY <1>1, <1>2 DEF ContentInv, AloneInv, SentInv, Copying, Undisturbed, Reader,
                      IsPrefix, bodyVars
<1>3. ASSUME attempt # 0
      PROVE  attempt \in Attempts
    BY <1>1, <1>3 DEF TypeOK, Attempts
<1>4. CASE (pc = "idle" \/ pc = "reroute") /\ StartAttempt
    BY <1>1, <1>4, StartStep, TransferAssumption DEF CallInv
<1>5. CASE Unrouted \/ RequestFails \/ TokenFails
    BY <1>1, <1>2, <1>5
       DEF Unrouted, RequestFails, TokenFails, Return, Inv, TypeOK, CallInv, AnswerInv, bodyVars,
           serverVars, Results
<1>6. CASE Send
    <2>1. attempt # 0
        BY <1>1, <1>6 DEF Send, CallInv
    <2>2. conn' = [conn EXCEPT ![attempt] = "open"] /\ attempt \in Attempts
        BY <1>3, <1>6, <2>1 DEF Send
    <2>3. TypeOK'
        BY <1>1, <1>6, <2>2 DEF Send, TypeOK, bodyVars, serverVars
    <2>4. CallInv' /\ AnswerInv'
        BY <1>1, <1>6, <2>1, <2>2 DEF Send, TypeOK, CallInv, AnswerInv, bodyVars, serverVars
    <2> QED
        BY <1>2, <1>6, <2>3, <2>4 DEF Send, Inv
<1>7. CASE GiveUp \/ ReceiveFinal
    <2>1. attempt # 0 /\ pc = "wait"
        BY <1>1, <1>7 DEF GiveUp, ReceiveFinal, CallInv
    <2>2. conn' = [conn EXCEPT ![attempt] = "released"] /\ attempt \in Attempts
        BY <1>3, <1>7, <2>1 DEF GiveUp, ReceiveFinal, Release
    <2>3. PICK r : Return(r) /\ (r = "transport" \/ (r = answer[attempt] /\ r # "http" /\ r # "none"))
        BY <1>7 DEF GiveUp, ReceiveFinal
    <2>4. r \in Results /\ UNCHANGED <<source, bodyVars, serverVars>>
        BY <1>1, <1>7, <2>2, <2>3 DEF GiveUp, ReceiveFinal, Results, TypeOK, Answers
    <2>5. TypeOK'
        BY <1>1, <2>2, <2>3, <2>4 DEF Return, TypeOK, bodyVars, serverVars
    <2>6. CallInv'
        BY <1>1, <2>1, <2>2, <2>3, <2>4 DEF Return, TypeOK, CallInv, bodyVars, serverVars
    <2>7. AnswerInv'
        BY <1>1, <2>1, <2>2, <2>3, <2>4 DEF Return, TypeOK, AnswerInv, bodyVars, serverVars
    <2> QED
        BY <1>2, <2>4, <2>5, <2>6, <2>7 DEF Inv
<1>8. CASE ReceiveBounce
    <2>1. attempt # 0
        BY <1>1, <1>8 DEF ReceiveBounce, CallInv
    <2>2. conn' = [conn EXCEPT ![attempt] = "released"] /\ attempt \in Attempts
        BY <1>3, <1>8, <2>1 DEF ReceiveBounce, Release
    <2>3. TypeOK'
        BY <1>1, <1>8, <2>2 DEF ReceiveBounce, TypeOK, bodyVars, serverVars
    <2>4. CallInv' /\ AnswerInv'
        BY <1>1, <1>8, <2>1, <2>2
           DEF ReceiveBounce, TypeOK, CallInv, AnswerInv, bodyVars, serverVars
    <2> QED
        BY <1>2, <1>8, <2>3, <2>4 DEF ReceiveBounce, Inv
<1> QED
    BY <1>4, <1>5, <1>6, <1>7, <1>8 DEF Begin, Proceed, Reroute

(* net/http and the servers send nothing either, and answer truthfully. *)
LEMMA NetStep ==
    ASSUME Inv, NEW a \in Attempts, Hangup(a) \/ Serve(a)
    PROVE  Inv'
<1>1. TypeOK /\ CallInv /\ ContentInv /\ AnswerInv
    BY DEF Inv
<1>2. ContentInv'
    BY <1>1 DEF Hangup, Serve, ContentInv, AloneInv, SentInv, Copying, Undisturbed, Reader,
                IsPrefix, bodyVars
<1>3. CASE Hangup(a)
    <2>1. TypeOK'
        BY <1>1, <1>3 DEF Hangup, TypeOK, callVars, bodyVars, serverVars
    <2>2. CallInv' /\ AnswerInv'
        BY <1>1, <1>3 DEF Hangup, TypeOK, CallInv, AnswerInv, callVars, bodyVars, serverVars
    <2> QED
        BY <1>2, <2>1, <2>2 DEF Inv
<1>4. CASE Serve(a)
    <2>1. PICK r \in Answers, stores \in BOOLEAN :
            /\ r = "ok" => stores
            /\ stores => r \in {"ok", "http"} /\ a \in complete
            /\ answer' = [answer EXCEPT ![a] = r]
            /\ stored' = IF stores THEN stored \cup {a} ELSE stored
        BY <1>4 DEF Serve
    <2>2. conn[a] # "none" /\ answer[a] = "none" /\ UNCHANGED <<source, callVars, bodyVars, conn>>
        BY <1>4 DEF Serve
    <2>3. TypeOK'
        BY <1>1, <2>1, <2>2 DEF TypeOK, callVars, bodyVars, Answers
    <2>4. CallInv'
        BY <1>1, <2>1, <2>2 DEF TypeOK, CallInv, callVars, bodyVars
    <2>5. AnswerInv'
        <3>1. /\ \A b \in Attempts : answer'[b] # "none" => conn'[b] # "none"
              /\ \A b \in Attempts : answer'[b] = "ok" => b \in stored'
              /\ \A b \in stored' : answer'[b] \in {"ok", "http"}
            BY <1>1, <2>1, <2>2 DEF TypeOK, AnswerInv
        <3>2. pc = "done" /\ result \in {"refused", "wrongMachine"} => a # attempt
            BY <1>1, <2>2 DEF AnswerInv
        <3> QED
            BY <1>1, <2>1, <2>2, <3>1, <3>2 DEF AnswerInv, TypeOK, callVars
    <2> QED
        BY <1>2, <2>3, <2>4, <2>5 DEF Inv
<1> QED
    BY <1>3, <1>4

(* The next chunk continues the file. *)
LEMMA PrefixGrows ==
    ASSUME NEW seq \in Seq(1 .. Size), NEW n \in 1 .. Size, IsPrefix(seq, n - 1)
    PROVE  IsPrefix(Append(seq, n), n)
<1>1. Len(seq) = n - 1 /\ \A k \in 1 .. n - 1 : seq[k] = k
    BY DEF IsPrefix
<1>2. Len(Append(seq, n)) = n /\ Append(seq, n)[n] = n
    BY <1>1
<1>3. \A k \in 1 .. n - 1 : Append(seq, n)[k] = k
    BY <1>1
<1>4. \A k \in 1 .. n : k = n \/ k \in 1 .. n - 1
    OBVIOUS
<1> QED
    BY <1>2, <1>3, <1>4 DEF IsPrefix

(* Whatever a goroutine does keeps the types. *)
LEMMA WriteTypeStep ==
    ASSUME TypeOK, NEW a \in Attempts, writer[a] = "write" => chunk[a] # 0, Write(a)
    PROVE  TypeOK'
<1>1. 1 \in Attempts /\ Reader(a) \in Attempts
    BY TransferAssumption DEF Attempts, Reader
<1>2. UNCHANGED <<source, pc, attempt, result, conn, answer, stored>>
    BY DEF Write, WriteCommand, Open, ReadChunk, WriteChunk, CloseBody, ReadFails, WriteFails,
           callVars, serverVars
<1>3. CASE WriteCommand(a) \/ ReadFails(a) \/ WriteFails(a)
    BY <1>2, <1>3 DEF TypeOK, WriteCommand, ReadFails, WriteFails, Goto
<1>4. CASE Open(a)
    <2>1. 0 \in 0 .. Size
        BY TransferAssumption
    <2>2. overlap' \in BOOLEAN
        BY <1>4, Zenon DEF TypeOK, Open
    <2>3. /\ pos' = [pos EXCEPT ![Reader(a)] = 0]
          /\ writer' = [writer EXCEPT ![a] = "read"]
          /\ UNCHANGED <<chunk, received, complete>>
        BY <1>4 DEF Open, Goto
    <2> QED
        BY <1>1, <1>2, <2>1, <2>2, <2>3 DEF TypeOK
<1>5. CASE ReadChunk(a)
    <2>1. pos[Reader(a)] \in 0 .. Size
        BY <1>1 DEF TypeOK
    <2>2. pos[Reader(a)] < Size => pos[Reader(a)] + 1 \in 0 .. Size
        BY <2>1, TransferAssumption
    <2>3. CASE pos[Reader(a)] < Size /\ writer' = [writer EXCEPT ![a] = "write"]
                /\ chunk' = [chunk EXCEPT ![a] = pos[Reader(a)] + 1]
                /\ pos' = [pos EXCEPT ![Reader(a)] = pos[Reader(a)] + 1]
        BY <1>1, <1>2, <1>5, <2>2, <2>3 DEF TypeOK, ReadChunk
    <2>4. CASE writer' = [writer EXCEPT ![a] = "close"] /\ UNCHANGED <<chunk, pos>>
        BY <1>2, <1>5, <2>4 DEF TypeOK, ReadChunk
    <2> QED
        BY <1>5, <2>3, <2>4 DEF ReadChunk, Goto
<1>6. CASE WriteChunk(a)
    <2>1. chunk[a] \in 1 .. Size
        BY <1>6 DEF TypeOK, WriteChunk
    <2>2. Append(received[a], chunk[a]) \in Seq(1 .. Size)
        BY <2>1 DEF TypeOK
    <2>3. received' = [received EXCEPT ![a] = Append(received[a], chunk[a])]
        BY <1>6 DEF WriteChunk
    <2> QED
        BY <1>2, <1>6, <2>2, <2>3 DEF TypeOK, WriteChunk, Goto
<1>7. CASE CloseBody(a)
    BY <1>2, <1>7 DEF TypeOK, CloseBody, Goto
<1> QED
    BY <1>3, <1>4, <1>5, <1>6, <1>7 DEF Write

(* Between the opening of the file and the end of the body, what a goroutine *)
(* has sent stays the beginning of the file.                                 *)
LEMMA CopyStep ==
    ASSUME TypeOK, ContentInv, NEW a \in Attempts,
           ReadChunk(a) \/ WriteChunk(a) \/ CloseBody(a),
           \A b \in Attempts : Reader(b)' = Reader(b) /\ Reader(b) \in Attempts
    PROVE  ContentInv'
<1>1. PICK w \in {"read", "write", "close", "ended"} : writer' = [writer EXCEPT ![a] = w]
    BY DEF ReadChunk, WriteChunk, CloseBody, Goto
<1>2. UNCHANGED <<source, overlap>> /\ Copying(a)
    BY DEF ReadChunk, WriteChunk, CloseBody, Copying
<1>3. Undisturbed' <=> Undisturbed
    BY <1>2 DEF Undisturbed
<1>4. AloneInv'
    BY <1>1, <1>2, <1>3 DEF TypeOK, ContentInv, AloneInv, Copying
<1>5. \A b \in complete' : writer'[b] = "ended"
    BY <1>1, <1>2 DEF TypeOK, ContentInv, ReadChunk, WriteChunk, CloseBody, Goto, Copying
<1>6. \A b \in Attempts : writer'[b] = "write" => chunk'[b] # 0
    <2>1. CASE ReadChunk(a)
        <3>1. pos[Reader(a)] \in 0 .. Size
            BY DEF TypeOK
        <3> QED
            BY <2>1, <3>1 DEF TypeOK, ContentInv, ReadChunk, Goto
    <2>2. CASE WriteChunk(a) \/ CloseBody(a)
        BY <2>2 DEF TypeOK, ContentInv, WriteChunk, CloseBody, Goto
    <2> QED
        BY <2>1, <2>2
<1>7. ASSUME Undisturbed, NEW b \in Attempts, b # a
      PROVE  SentInv(b)'
    <2>1. SentInv(b) /\ (Copying(b) => Reader(b) # Reader(a))
        BY <1>2, <1>7 DEF ContentInv, AloneInv
    <2>2. /\ writer'[b] = writer[b]
          /\ chunk'[b] = chunk[b]
          /\ received'[b] = received[b]
          /\ b \in complete' <=> b \in complete
        BY <1>7 DEF TypeOK, ReadChunk, WriteChunk, CloseBody, Goto
    <2>3. Copying(b) => pos'[Reader(b)] = pos[Reader(b)]
        BY <2>1 DEF TypeOK, ReadChunk, WriteChunk, CloseBody
    <2>4. Reader(b)' = Reader(b)
        OBVIOUS
    <2> QED
        BY <2>1, <2>2, <2>3, <2>4 DEF SentInv, Copying, IsPrefix
<1>8. ASSUME Undisturbed
      PROVE  SentInv(a)'
    <2> DEFINE at == pos[Reader(a)]
    <2>1. SentInv(a) /\ at \in 0 .. Size /\ Size \in Nat
        BY <1>8, TransferAssumption DEF ContentInv, TypeOK
    <2>2. a \notin complete
        BY <1>2 DEF ContentInv, Copying
    <2>3. CASE ReadChunk(a)
        <3>1. IsPrefix(received[a], at) /\ received' = received /\ complete' = complete
            BY <2>1, <2>3 DEF SentInv, ReadChunk
        <3>2. CASE at < Size /\ chunk' = [chunk EXCEPT ![a] = at + 1]
                    /\ pos' = [pos EXCEPT ![Reader(a)] = at + 1] /\ writer'[a] = "write"
            <4>1. pos'[Reader(a)'] = at + 1 /\ chunk'[a] = at + 1
                BY <3>2 DEF TypeOK
            <4>2. IsPrefix(received'[a], at + 1 - 1)
                BY <2>1, <3>1
            <4> QED
                BY <2>1, <2>2, <3>1, <3>2, <4>1, <4>2 DEF SentInv, IsPrefix
        <3>3. CASE at = Size /\ writer'[a] = "close"
            BY <2>2, <3>1, <3>3 DEF SentInv, IsPrefix
        <3> QED
            BY <2>3, <3>2, <3>3 DEF ReadChunk, Goto, TypeOK
    <2>4. CASE WriteChunk(a)
        <3>1. at # 0 /\ chunk[a] = at /\ IsPrefix(received[a], at - 1)
            BY <2>1, <2>4 DEF SentInv, WriteChunk
        <3>2. received[a] \in Seq(1 .. Size) /\ at \in 1 .. Size
            BY <2>1, <3>1 DEF TypeOK
        <3>3. IsPrefix(Append(received[a], at), at)
            BY <3>1, <3>2, PrefixGrows
        <3>4. received'[a] = Append(received[a], at) /\ writer'[a] = "read"
            BY <2>4, <3>1 DEF WriteChunk, TypeOK, Goto
        <3>5. pos' = pos /\ complete' = complete
            BY <2>4 DEF WriteChunk
        <3> QED
            BY <2>2, <3>3, <3>4, <3>5 DEF SentInv, IsPrefix
    <2>5. CASE CloseBody(a)
        BY <2>1, <2>5 DEF SentInv, CloseBody, Goto, TypeOK, IsPrefix
    <2> QED
        BY <2>3, <2>4, <2>5
<1> QED
    BY <1>3, <1>4, <1>5, <1>6, <1>7, <1>8 DEF ContentInv

(* A goroutine sends the next part of the file, or stops. *)
LEMMA WriteContentStep ==
    ASSUME Inv, NEW a \in Attempts, Write(a)
    PROVE  ContentInv'
<1>1. TypeOK /\ ContentInv
    BY DEF Inv
<1>2. \A b \in Attempts : Reader(b)' = Reader(b) /\ Reader(b) \in Attempts
    BY TransferAssumption
       DEF Write, WriteCommand, Open, ReadChunk, WriteChunk, CloseBody, ReadFails, WriteFails,
           Reader, Attempts
<1>3. CASE WriteCommand(a) \/ ReadFails(a) \/ WriteFails(a)
    <2>1. PICK w \in {"open", "ended"} :
            /\ writer' = [writer EXCEPT ![a] = w]
            /\ w = "open" => writer[a] = "command"
        BY <1>3 DEF WriteCommand, ReadFails, WriteFails, Goto
    <2>2. UNCHANGED <<source, chunk, pos, received, complete, overlap>>
        BY <1>3 DEF WriteCommand, ReadFails, WriteFails
    <2>3. AloneInv' /\ (Undisturbed' <=> Undisturbed)
        BY <1>1, <1>2, <2>1, <2>2 DEF TypeOK, ContentInv, AloneInv, Copying, Undisturbed
    <2>4. \A b \in complete' : writer'[b] = "ended"
        BY <1>1, <1>3, <2>1, <2>2
           DEF TypeOK, ContentInv, WriteCommand, ReadFails, WriteFails
    <2>5. \A b \in Attempts : writer'[b] = "write" => chunk'[b] # 0
        BY <1>1, <2>1, <2>2 DEF TypeOK, ContentInv
    <2>6. ASSUME NEW b \in Attempts, SentInv(b)
          PROVE  SentInv(b)'
        BY <1>1, <1>2, <2>1, <2>2, <2>6 DEF TypeOK, SentInv, IsPrefix
    <2> QED
        BY <1>1, <2>3, <2>4, <2>5, <2>6 DEF ContentInv
<1>4. CASE Open(a)
    <2>1. /\ writer[a] = "open"
          /\ writer' = [writer EXCEPT ![a] = "read"]
          /\ pos' = [pos EXCEPT ![Reader(a)] = 0]
          /\ UNCHANGED <<source, chunk, received, complete>>
        BY <1>4 DEF Open, Goto
    <2>2. ASSUME Undisturbed'
          PROVE  Undisturbed /\ \A b \in Attempts \ {a} : Copying(b) => Reader(b) # Reader(a)
        <3>1. CASE source = "reopen"
            BY <3>1 DEF Undisturbed, Reader
        <3>2. CASE ~ overlap'
            BY <1>4, <3>2 DEF Open, Undisturbed, Copying, Running
        <3> QED
            BY <2>1, <2>2, <3>1, <3>2 DEF Undisturbed
    <2>3. \A b \in Attempts \ {a} : writer'[b] = writer[b] /\ (Copying(b)' <=> Copying(b))
        BY <1>1, <2>1 DEF TypeOK, Copying
    <2>4. AloneInv'
        BY <1>1, <1>2, <2>2, <2>3 DEF ContentInv, AloneInv
    <2>5. \A b \in complete' : writer'[b] = "ended"
        BY <1>1, <2>1 DEF TypeOK, ContentInv
    <2>6. \A b \in Attempts : writer'[b] = "write" => chunk'[b] # 0
        BY <1>1, <2>1 DEF TypeOK, ContentInv
    <2>7. ASSUME Undisturbed', NEW b \in Attempts
          PROVE  SentInv(b)'
        <3>1. SentInv(b)
            BY <1>1, <2>2, <2>7 DEF ContentInv
        <3>2. CASE b # a
            <4>1. Copying(b) => pos'[Reader(b)] = pos[Reader(b)]
                BY <1>1, <1>2, <2>1, <2>2, <2>7, <3>2 DEF TypeOK
            <4> QED
                BY <1>2, <2>1, <2>3, <3>1, <3>2, <4>1 DEF SentInv, Copying, IsPrefix
        <3>3. CASE b = a
            <4>1. received'[a] = << >> /\ pos'[Reader(a)'] = 0 /\ writer'[a] = "read"
                BY <1>1, <1>2, <2>1, <3>1, <3>3 DEF SentInv, TypeOK
            <4>2. IsPrefix(received'[a], pos'[Reader(a)'])
                BY <4>1 DEF IsPrefix
            <4>3. a \notin complete'
                BY <1>1, <2>1 DEF ContentInv
            <4> QED
                BY <3>3, <4>1, <4>2, <4>3 DEF SentInv, IsPrefix
        <3> QED
            BY <3>2, <3>3
    <2> QED
        BY <2>4, <2>5, <2>6, <2>7 DEF ContentInv
<1>5. CASE ReadChunk(a) \/ WriteChunk(a) \/ CloseBody(a)
    BY <1>1, <1>2, <1>5, CopyStep DEF Inv
<1> QED
    BY <1>3, <1>4, <1>5 DEF Write

LEMMA WriteStep ==
    ASSUME Inv, NEW a \in Attempts, Write(a)
    PROVE  Inv'
<1>1. TypeOK /\ CallInv /\ ContentInv /\ AnswerInv
    BY DEF Inv
<1>2. TypeOK' /\ ContentInv'
    BY <1>1, WriteTypeStep, WriteContentStep DEF ContentInv
<1>3. UNCHANGED <<callVars, conn, serverVars>>
    BY DEF Write, WriteCommand, Open, ReadChunk, WriteChunk, CloseBody, ReadFails, WriteFails
<1>4. writer[a] # "none" /\ \A b \in Attempts : b # a => writer'[b] = writer[b]
    BY <1>1 DEF TypeOK, Write, WriteCommand, Open, ReadChunk, WriteChunk, CloseBody, ReadFails,
                WriteFails, Goto
<1>5. CallInv'
    BY <1>1, <1>3, <1>4 DEF CallInv, callVars, serverVars
<1>6. AnswerInv'
    BY <1>1, <1>3 DEF AnswerInv, callVars, serverVars
<1> QED
    BY <1>2, <1>5, <1>6 DEF Inv

LEMMA NextStep == Inv /\ [Next]_vars => Inv'
<1> SUFFICES ASSUME Inv, [Next]_vars
             PROVE  Inv'
    OBVIOUS
<1>1. CASE Begin \/ Proceed
    BY <1>1, CallStep
<1>2. CASE \E a \in Attempts : Write(a) \/ Hangup(a) \/ Serve(a)
    BY <1>2, WriteStep, NetStep
<1>3. CASE UNCHANGED vars
    BY <1>3 DEF vars, callVars, bodyVars, serverVars, Inv, TypeOK, CallInv, ContentInv,
                AloneInv, SentInv, Copying, Undisturbed, Reader, IsPrefix, AnswerInv
<1> QED
    BY <1>1, <1>2, <1>3 DEF Next

THEOREM InvHolds == Spec => []Inv
<1> QED
    BY InvInit, NextStep, PTL DEF Spec

(* The types of PutFile's state hold however the goroutines of its attempts *)
(* overlap.                                                                 *)
THEOREM TypeCorrect == Spec => []TypeOK
<1>1. Inv => TypeOK
    BY DEF Inv
<1> QED
    BY <1>1, InvHolds, PTL

(* A body that came to its end is the whole file in its order, for a file of   *)
(* any size and any bounce budget: with Reopen always, with a seeker as long   *)
(* as no goroutine opened it while another one ran.                            *)
THEOREM StoredIsFileCorrect == Spec => []StoredIsFile
<1>1. Inv => StoredIsFile
    <2> SUFFICES ASSUME Inv, NEW a \in stored, Undisturbed
                 PROVE  received[a] = File
        BY DEF StoredIsFile, Undisturbed
    <2>1. a \in Attempts /\ a \in complete /\ received[a] \in Seq(1 .. Size)
        BY DEF Inv, TypeOK
    <2>2. Len(received[a]) = Size /\ \A k \in 1 .. Size : received[a][k] = k
        BY <2>1 DEF Inv, ContentInv, SentInv, IsPrefix
    <2> QED
        BY <2>1, <2>2 DEF File
<1> QED
    BY <1>1, InvHolds, PTL
-------------------------------------------------------------------------------
(* PutFile keeps the contract of a command. *)

(* A call that returned a refusal or a last bounce had nothing stored. *)
NeverStored == pc = "done" /\ result \in {"refused", "wrongMachine"} => stored = {}

LEMMA NeverStoredHolds == Inv => NeverStored
<1> SUFFICES ASSUME Inv, pc = "done", result \in {"refused", "wrongMachine"}
             PROVE  stored = {}
    BY DEF NeverStored
<1>1. attempt # 0 /\ answer[attempt] \in {"refused", "wrongMachine"}
    BY DEF Inv, AnswerInv
<1>2. \A a \in Attempts : a < attempt => answer[a] = "wrongMachine"
    BY DEF Inv, CallInv
<1>3. \A a \in Attempts : a > attempt => answer[a] = "none"
    BY DEF Inv, CallInv, AnswerInv
<1>4. \A a \in stored : a \in Attempts /\ answer[a] \in {"ok", "http"}
    BY DEF Inv, TypeOK, AnswerInv
<1>5. \A a \in Attempts : a < attempt \/ a = attempt \/ a > attempt
    BY DEF Inv, TypeOK, Attempts
<1> QED
    BY <1>1, <1>2, <1>3, <1>4, <1>5

LEMMA NeverStoredNext == Inv' => NeverStored'
<1> QED
    BY NeverStoredHolds, PTL

LEMMA StepRefines ==
    ASSUME Inv, Inv', [Next]_vars
    PROVE  [Contract!Next]_<<[c \in {1} |-> IF pc = "idle" THEN "idle"
                                ELSE IF pc = "done" THEN result ELSE "pending"],
                             {c \in {1} : stored # {}}>>
<1> DEFINE out == [c \in {1} |-> IF pc = "idle" THEN "idle"
                                 ELSE IF pc = "done" THEN result ELSE "pending"]
           done == {c \in {1} : stored # {}}
<1> SUFFICES ASSUME ~ (out' = out /\ done' = done)
             PROVE  Contract!Next
    OBVIOUS
<1>1. TypeOK /\ CallInv /\ AnswerInv /\ AnswerInv'
    BY DEF Inv
<1>2. CASE pc = "idle" /\ UNCHANGED stored /\ (pc' = "prepare" \/ (pc' = "done" /\ result' = "error"))
    <2>1. out[1] = "idle" /\ done' = done
        BY <1>2
    <2>2. out' = [out EXCEPT ![1] = "pending"] \/ out' = [out EXCEPT ![1] = "error"]
        BY <1>2
    <2> QED
        BY <2>1, <2>2 DEF Contract!Next, Contract!Call, Contract!Reject
<1>3. CASE pc \notin {"idle", "done"} /\ UNCHANGED stored /\ pc' = "done"
    <2>1. out[1] = "pending" /\ done' = done /\ out' = [out EXCEPT ![1] = result']
        BY <1>3
    <2>2. result' \in Results
        BY <1>1, <1>3 DEF AnswerInv
    <2>3. result' = "ok" => 1 \in done
        BY <1>1, <1>3 DEF AnswerInv
    <2>4. result' \in {"refused", "wrongMachine"} => 1 \notin done
        BY <1>3, NeverStoredNext DEF NeverStored
    <2>5. result' \in Contract!Outcomes
        BY <2>2 DEF Results, Contract!Outcomes, Contract!Refusals, Contract!Unknowns
    <2>6. Contract!Return(1, result')
        BY <2>1, <2>3, <2>4 DEF Contract!Return, Contract!Refusals
    <2> QED
        BY <2>5, <2>6 DEF Contract!Next
<1>4. CASE pc \notin {"idle", "done"} /\ UNCHANGED stored /\ pc' \notin {"idle", "done"}
    BY <1>4
<1>5. ASSUME NEW a \in Attempts, Serve(a)
      PROVE  Contract!Next
    <2>1. UNCHANGED <<pc, result>> /\ stored \subseteq stored'
        BY <1>5 DEF Serve, callVars
    <2>2. stored = {} /\ stored' # {}
        BY <2>1
    <2>3. pc # "idle" /\ a <= attempt
        BY <1>1, <1>5 DEF Serve, CallInv, TypeOK, Attempts
    <2>4. ~ (pc = "done" /\ result \in {"ok", "refused", "wrongMachine"})
        BY <1>1, <1>5, <2>2, <2>3 DEF Serve, CallInv, AnswerInv, TypeOK, Attempts
    <2>5. out[1] \in {"pending"} \cup Contract!Unknowns
        BY <1>1, <2>3, <2>4 DEF AnswerInv, Results, Contract!Unknowns
    <2>6. 1 \notin done /\ done' = done \cup {1} /\ out' = out
        BY <2>1, <2>2
    <2> QED
        BY <2>5, <2>6 DEF Contract!Next, Contract!Execute
<1>6. CASE Begin
    BY <1>2, <1>6 DEF Begin, StartAttempt, Unrouted, Return, serverVars
<1>7. CASE Proceed
    <2>1. pc \notin {"idle", "done"} /\ UNCHANGED stored /\ pc' # "idle"
        BY <1>7 DEF Proceed, RequestFails, TokenFails, Send, GiveUp, ReceiveFinal, ReceiveBounce,
                    Reroute, StartAttempt, Unrouted, Return, serverVars
    <2> QED
        BY <1>3, <1>4, <2>1
<1>8. ASSUME NEW a \in Attempts, Write(a) \/ Hangup(a)
      PROVE  UNCHANGED <<pc, result, stored>>
    BY <1>8 DEF Write, WriteCommand, Open, ReadChunk, WriteChunk, CloseBody, ReadFails,
                WriteFails, Hangup, callVars, serverVars
<1>9. UNCHANGED vars => UNCHANGED <<pc, result, stored>>
    BY DEF vars, callVars, serverVars
<1>10. ~ UNCHANGED <<pc, result, stored>>
    OBVIOUS
<1> QED
    BY <1>5, <1>6, <1>7, <1>8, <1>9, <1>10 DEF Next

(* However its attempts and their goroutines overlap: a success was stored, a  *)
(* refusal or a last bounce never is, and after an error the file may be.      *)
THEOREM ContractImplemented == Spec => ImplementsContract
<1>1. Init => Contract!Init
    BY DEF Init, Contract!Init
<1>2. Inv /\ Inv' /\ [Next]_vars =>
        [Contract!Next]_<<[c \in {1} |-> IF pc = "idle" THEN "idle"
                                ELSE IF pc = "done" THEN result ELSE "pending"],
                          {c \in {1} : stored # {}}>>
    BY StepRefines
<1> QED
    BY <1>1, <1>2, InvHolds, PTL DEF Spec, ImplementsContract, Contract!Spec
===============================================================================
