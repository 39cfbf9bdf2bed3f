--------------------------- MODULE HttpConnProofs ---------------------------
(***************************************************************************)
(* Proofs about HttpConn, for every client, application, size limit and    *)
(* timeout: the responses that ServeConn writes, the files it closes and   *)
(* the requests that it reads.                                             *)
(***************************************************************************)
EXTENDS HttpConn, SequenceTheorems, WellFoundedInduction, TLAPS

Response == [status : Int, reader : BOOLEAN, length : Int, avail : Nat,
             readErr : BOOLEAN, chunked : BOOLEAN, closer : BOOLEAN, badHeader : BOOLEAN,
             lost : Nat]

Entry == [status : Int, close : BOOLEAN, wrote : Nat, chunked : BOOLEAN,
          state : {"head", "done", "cut"}]

WritePcs == {"writeDeadline", "write", "writeBody"}

\* The statuses of responseForRequest's error branch.
ErrorStatuses == {400, 408, 413, 501}

\* A sequence, of whatever elements.
IsSeq(s) == s \in Seq({s[i] : i \in DOMAIN s})

ConnTypeOK ==
  /\ pc \in ReadPcs \cup {"readDeadline", "app", "returned"} \cup WritePcs
  /\ response \in Response /\ close \in BOOLEAN
  /\ out \in Seq(Entry) /\ IsSeq(delivered)
  /\ connClosed \in BOOLEAN

\* Response i is complete and lets the connection go on.
GoesOn(i) == out[i].state = "done" /\ ~out[i].close /\ out[i].status # 101

\* Response i, if it answers a request, carries the application's status.
Answers(i) == i <= Len(delivered) => out[i].status = delivered[i].answer

\* The response in hand is the n-th: the application's to the n-th request, or
\* the last one, to a request that could not be read.
InHand(n) ==
  \/ Len(delivered) = n /\ response.status = delivered[n].answer
  \/ Len(delivered) = n - 1 /\ close /\ \E s \in ErrorStatuses : response = ErrorResponse(s)

\* What has been written, by where ServeConn is.
OutInv ==
  /\ \A i \in 1..Len(out) : Answers(i)
  /\ pc \in ReadPcs \cup {"readDeadline", "app"} =>
       Len(out) = Len(delivered) /\ \A i \in 1..Len(out) : GoesOn(i)
  /\ pc \in {"writeDeadline", "write"} =>
       InHand(Len(out) + 1) /\ \A i \in 1..Len(out) : GoesOn(i)
  /\ pc = "writeBody" =>
       /\ Len(out) > 0 /\ InHand(Len(out)) /\ \A i \in 1..Len(out) - 1 : GoesOn(i)
       /\ cur.state = "head" /\ cur.close = close /\ cur.status = response.status
  /\ pc = "returned" =>
       /\ Len(out) <= Len(delivered) + 1 /\ \A i \in 1..Len(out) - 1 : GoesOn(i)
       /\ CloseIsAnnounced

\* The file of the response in hand is the only one open that the application
\* has not dropped.
FileInv ==
  /\ dropped \in Nat /\ FilesAccounted
  /\ pc \in WritePcs => openFiles = dropped + IF response.closer THEN 1 ELSE 0

ConnInv == ConnTypeOK /\ OutInv /\ FileInv

-----------------------------------------------------------------------------
(* Responses and files.                                                    *)

\* What Append does to a sequence of unknown elements.
LEMMA SeqAppend ==
  ASSUME NEW s, IsSeq(s), NEW e
  PROVE  /\ IsSeq(Append(s, e)) /\ Len(s) \in Nat /\ Len(Append(s, e)) = Len(s) + 1
         /\ \A i \in 1..Len(s) : Append(s, e)[i] = s[i]
         /\ Append(s, e)[Len(s) + 1] = e
<1> DEFINE S == {s[i] : i \in DOMAIN s} \cup {e}
<1>1. s \in Seq(S)
  <2>1. {s[i] : i \in DOMAIN s} \subseteq S
    OBVIOUS
  <2> QED BY <2>1, SeqMonotonic DEF IsSeq
<1>2. e \in S
  OBVIOUS
<1> HIDE DEF S
<1>3. /\ Append(s, e) \in Seq(S) /\ Len(s) \in Nat /\ Len(Append(s, e)) = Len(s) + 1
      /\ \A i \in 1..Len(s) : Append(s, e)[i] = s[i]
      /\ Append(s, e)[Len(s) + 1] = e
  BY <1>1, <1>2, AppendProperties, LenProperties
<1>4. IsSeq(Append(s, e))
  BY <1>3, SeqOfRange DEF IsSeq, Range
<1> QED BY <1>3, <1>4

\* The answer to an unreadable request is one that WriteResponse never refuses.
LEMMA ErrorResponses ==
  ASSUME NEW s \in ErrorStatuses
  PROVE  /\ ErrorResponse(s) \in Response /\ ErrorResponse(s).closer = FALSE
         /\ ~refused(ErrorResponse(s))
  BY DEF ErrorStatuses, ErrorResponse, Response, refused

\* Reading goes on or ends: nothing is written and no file is opened.
LEMMA ReadKeeps ==
  ASSUME ConnInv, pc \in ReadPcs \cup {"readDeadline"}, pc' \in ReadPcs \cup {"app"},
         UNCHANGED <<out, delivered, fileVars, response, close, connClosed>>
  PROVE  ConnInv'
<1>1. ConnTypeOK'
  BY DEF ConnInv, ConnTypeOK, ReadPcs
<1>2. OutInv'
  BY DEF ConnInv, OutInv, ReadPcs, Answers, GoesOn
<1>3. FileInv'
  BY DEF ConnInv, FileInv, FilesAccounted, fileVars, ReadPcs, WritePcs
<1> QED BY <1>1, <1>2, <1>3 DEF ConnInv

\* A request that cannot be read gets its answer and is the last one.
LEMMA FailKeeps ==
  ASSUME ConnInv, pc \in ReadPcs, NEW err, Fail(err), UNCHANGED <<out, fileVars, connClosed>>
  PROVE  ConnInv'
<1>1. PICK s \in ErrorStatuses : response' = ErrorResponse(s)
  BY DEF Fail, errorStatus, ErrorStatuses
<1>2. response' \in Response /\ response'.closer = FALSE
  BY <1>1, ErrorResponses
<1>3. pc' = "writeDeadline" /\ close' = TRUE /\ UNCHANGED delivered
  BY DEF Fail
<1>4. ConnTypeOK'
  BY <1>2, <1>3 DEF ConnInv, ConnTypeOK, WritePcs
<1>5. OutInv'
  <2>1. Len(out) = Len(delivered) /\ Len(out) \in Nat
    BY LenProperties DEF ConnInv, ConnTypeOK, OutInv
  <2>2. InHand(Len(out) + 1)'
    BY <1>1, <1>3, <2>1 DEF InHand
  <2> QED BY <1>3, <2>2 DEF ConnInv, OutInv, ReadPcs, Answers, GoesOn
<1>6. FileInv'
  BY <1>2, <1>3 DEF ConnInv, FileInv, FilesAccounted, fileVars, ReadPcs, WritePcs
<1> QED BY <1>4, <1>5, <1>6 DEF ConnInv

\* Client and network change nothing of this while ServeConn runs.
LEMMA EnvKeeps == ASSUME ConnInv, Env PROVE ConnInv'
<1>1. /\ pc # "returned" /\ connClosed' \in BOOLEAN
      /\ UNCHANGED <<pc, response, close, delivered, out, fileVars>>
  BY DEF Env, ClientGone, ClientStalls, ServerCloses, resVars, ConnInv, ConnTypeOK
<1>2. ConnTypeOK'
  BY <1>1 DEF ConnInv, ConnTypeOK
<1>3. OutInv'
  BY <1>1 DEF ConnInv, OutInv, Answers, GoesOn, InHand, cur
<1>4. FileInv'
  BY <1>1 DEF ConnInv, FileInv, FilesAccounted, fileVars, WritePcs
<1> QED BY <1>2, <1>3, <1>4 DEF ConnInv

\* The steps of ReadRequest.
LEMMA ReadSteps == ASSUME ConnInv, Read, UNCHANGED envVars PROVE ConnInv'
<1>1. ASSUME NEW n \in 1..Total, Fill(n) PROVE ConnInv'
  BY <1>1, ReadKeeps DEF Fill, envVars, resVars
<1>2. ASSUME NEW err, ReadFails(err) PROVE ConnInv'
  BY <1>2, FailKeeps DEF ReadFails, envVars
<1>3. CASE ReadRequestLine
  BY <1>3, ReadKeeps, FailKeeps DEF ReadRequestLine, ReadPcs, Consume, envVars, resVars
<1>4. CASE ReadField
  BY <1>4, ReadKeeps, FailKeeps DEF ReadField, ReadPcs, Consume, envVars, resVars
<1>5. CASE ReadBlank
  <2>1. CASE pc' = IF remaining' > 0 THEN "body" ELSE "app"
    BY <1>5, <2>1, ReadKeeps DEF ReadBlank, ReadPcs, Consume, envVars, resVars, Fail
  <2>2. ASSUME NEW e, Fail(e) PROVE ConnInv'
    BY <1>5, <2>2, FailKeeps DEF ReadBlank, ReadPcs, Consume, envVars
  <2> QED BY <1>5, <2>1, <2>2 DEF ReadBlank
<1>6. CASE ReadBody
  BY <1>6, ReadKeeps DEF ReadBody, ReadPcs, Consume, envVars, resVars
<1> QED BY <1>1, <1>2, <1>3, <1>4, <1>5, <1>6 DEF Read

\* SetReadDeadline at the top of the loop.
LEMMA ReadDeadlineStep ==
  ASSUME ConnInv, SetReadDeadline, UNCHANGED envVars
  PROVE  ConnInv'
<1>1. CASE pc' = "line"
  BY <1>1, ReadKeeps DEF SetReadDeadline, ReadPcs, envVars, resVars
<1>2. CASE connClosed /\ pc' = "returned"
  <2>1. /\ pc = "readDeadline"
        /\ UNCHANGED <<response, close, delivered, out, fileVars, connClosed>>
    BY DEF SetReadDeadline, envVars, resVars
  <2>2. Len(out) = Len(delivered) /\ Len(out) \in Nat
    BY <2>1, LenProperties DEF ConnInv, ConnTypeOK, OutInv
  <2>3. ConnTypeOK'
    BY <1>2, <2>1 DEF ConnInv, ConnTypeOK
  <2>4. OutInv'
    BY <1>2, <2>1, <2>2 DEF ConnInv, OutInv, Answers, GoesOn, ReadPcs, CloseIsAnnounced
  <2>5. FileInv'
    BY <1>2, <2>1, <2>2 DEF ConnInv, FileInv, FilesAccounted, fileVars, ReadPcs, WritePcs
  <2> QED BY <2>3, <2>4, <2>5 DEF ConnInv
<1> QED BY <1>1, <1>2 DEF SetReadDeadline

\* The application answers.
LEMMA AppStep ==
  ASSUME ConnInv, NEW r \in Responses, App(r), UNCHANGED envVars
  PROVE  ConnInv'
<1>1. /\ pc = "app" /\ pc' = "writeDeadline" /\ response' = r /\ UNCHANGED out
      /\ openFiles' = openFiles + r.lost + (IF r.closer THEN 1 ELSE 0)
      /\ dropped' = dropped + r.lost /\ r.lost \in Nat
      /\ close' = shouldCloseConnection(version, fields)
      /\ UNCHANGED connClosed
  BY ResponseAssumption DEF App, envVars
<1>2. PICK d : delivered' = Append(delivered, d) /\ d.answer = r.status
  BY DEF App
<1>3. Len(out) = Len(delivered) /\ \A i \in 1..Len(out) : GoesOn(i) /\ Answers(i)
  BY <1>1 DEF ConnInv, OutInv
<1>4. /\ IsSeq(delivered') /\ Len(delivered) \in Nat /\ Len(delivered') = Len(delivered) + 1
      /\ \A i \in 1..Len(delivered) : delivered'[i] = delivered[i]
      /\ delivered'[Len(delivered) + 1] = d
  BY <1>2, SeqAppend DEF ConnInv, ConnTypeOK
<1>5. ConnTypeOK'
  BY <1>1, <1>4, ResponseAssumption
     DEF ConnInv, ConnTypeOK, WritePcs, Response, shouldCloseConnection
<1>6. OutInv'
  <2>1. InHand(Len(out) + 1)'
    BY <1>1, <1>2, <1>3, <1>4 DEF InHand
  <2>2. \A i \in 1..Len(out) : GoesOn(i)' /\ Answers(i)'
    BY <1>1, <1>3, <1>4 DEF GoesOn, Answers
  <2> QED BY <1>1, <2>1, <2>2 DEF OutInv, ReadPcs
<1>7. FileInv'
  BY <1>1 DEF ConnInv, FileInv, FilesAccounted, fileVars, ReadPcs, WritePcs
<1> QED BY <1>5, <1>6, <1>7 DEF ConnInv

\* The response in hand has been written, whole or cut, as the n-th one, and its
\* file is closed: ServeConn reads on or returns.
LEMMA ResponseOver ==
  ASSUME ConnInv, UNCHANGED <<response, close, delivered, connClosed>>,
         pc \in WritePcs, openFiles' = dropped, UNCHANGED dropped,
         NEW n \in Nat \ {0}, out' \in Seq(Entry), Len(out') = n, InHand(n),
         \A i \in 1..n - 1 : out'[i] = out[i] /\ GoesOn(i) /\ Answers(i),
         out'[n].status = response.status, out'[n].close = close,
         \/ out'[n].state = "cut" /\ pc' = "returned"
         \/ out'[n].state = "done" /\ finish
  PROVE  ConnInv'
<1>0. Len(delivered) \in {n - 1, n}
  BY DEF InHand
<1>1. pc' \in {"returned", "readDeadline"}
  BY DEF finish
<1>2. ConnTypeOK'
  BY <1>1 DEF ConnInv, ConnTypeOK
<1>3. FileInv'
  <2>1. ~(Len(out') < Len(delivered'))
    BY <1>0
  <2> QED BY <1>1, <2>1 DEF ConnInv, FileInv, FilesAccounted, ReadPcs, WritePcs
<1>4. \A i \in 1..n - 1 : GoesOn(i)' /\ Answers(i)'
  BY DEF GoesOn, Answers
<1>5. Answers(n)' /\ Len(delivered) \in {n - 1, n}
  BY <1>0 DEF Answers, InHand
<1>6. \A i \in 1..n : Answers(i)'
  BY <1>4, <1>5
<1>7. CASE pc' = "readDeadline"
  <2>1. ~close /\ response.status # 101 /\ out'[n].state = "done"
    BY <1>7 DEF finish
  <2>2. GoesOn(n)' /\ Len(delivered) = n
    BY <2>1 DEF GoesOn, InHand
  <2>3. \A i \in 1..n : GoesOn(i)'
    BY <1>4, <2>2
  <2>4. OutInv'
    BY <1>6, <1>7, <2>2, <2>3 DEF OutInv
  <2> QED BY <1>2, <1>3, <2>4 DEF ConnInv
<1>8. CASE pc' = "returned"
  <2>1. CloseIsAnnounced'
    BY <1>8 DEF CloseIsAnnounced, finish, cur
  <2>2. Len(out') <= Len(delivered') + 1
    BY <1>5
  <2>3. OutInv'
    BY <1>4, <1>6, <1>8, <2>1, <2>2 DEF OutInv, ReadPcs
  <2> QED BY <1>2, <1>3, <2>3 DEF ConnInv
<1> QED BY <1>1, <1>7, <1>8

\* Before the response in hand is begun, all earlier ones are complete; when one
\* is begun, its entry goes to the end.
LEMMA Begin ==
  ASSUME ConnInv, pc \in {"writeDeadline", "write"}, NEW st \in {"head", "done", "cut"},
         out' = Append(out, entry(st))
  PROVE  /\ Len(out) \in Nat /\ InHand(Len(out) + 1)
         /\ out' \in Seq(Entry) /\ Len(out') = Len(out) + 1
         /\ \A i \in 1..Len(out) : out'[i] = out[i] /\ GoesOn(i) /\ Answers(i)
         /\ out'[Len(out) + 1] = entry(st)
<1>1. entry(st) \in Entry /\ out \in Seq(Entry)
  BY DEF ConnInv, ConnTypeOK, Response, entry, Entry
<1>2. /\ Len(out) \in Nat /\ out' \in Seq(Entry) /\ Len(out') = Len(out) + 1
      /\ \A i \in 1..Len(out) : out'[i] = out[i]
      /\ out'[Len(out) + 1] = entry(st)
  BY <1>1, AppendProperties, LenProperties
<1> QED BY <1>2 DEF ConnInv, OutInv

\* The entry of the response in hand changes; the earlier ones stay.
LEMMA GoOn ==
  ASSUME ConnInv, pc = "writeBody", NEW e \in Entry, SetCur(e)
  PROVE  /\ Len(out) \in Nat \ {0} /\ InHand(Len(out))
         /\ out' \in Seq(Entry) /\ Len(out') = Len(out)
         /\ \A i \in 1..Len(out) - 1 : out'[i] = out[i] /\ GoesOn(i) /\ Answers(i)
         /\ out'[Len(out)] = e
         /\ cur \in Entry /\ cur.close = close /\ cur.status = response.status
<1>1. out \in Seq(Entry) /\ Len(out) \in Nat \ {0} /\ Len(out) \in 1..Len(out)
  BY LenProperties DEF ConnInv, ConnTypeOK, OutInv
<1>2. /\ out' \in Seq(Entry) /\ Len(out') = Len(out)
      /\ \A j \in 1..Len(out) : out'[j] = IF j = Len(out) THEN e ELSE out[j]
  BY <1>1, ExceptSeq DEF SetCur
<1>3. cur \in Entry
  BY <1>1, ElementOfSeq DEF cur
<1> QED BY <1>1, <1>2, <1>3 DEF ConnInv, OutInv

\* The file that the response in hand holds is closed with it.
LEMMA Closed ==
  ASSUME ConnInv, pc \in WritePcs, CloseBody
  PROVE  openFiles' = dropped /\ UNCHANGED dropped
  BY DEF ConnInv, FileInv, CloseBody, ReadPcs, WritePcs

\* SetWriteDeadline and the early returns of WriteResponse.
LEMMA WriteDeadlineSteps ==
  ASSUME ConnInv, SetWriteDeadline \/ Refused, UNCHANGED envVars
  PROVE  ConnInv'
<1>1. /\ pc \in {"writeDeadline", "write"} /\ pc' \in {"write", "returned"}
      /\ UNCHANGED <<response, close, delivered, out, fileVars, connClosed>>
  BY DEF SetWriteDeadline, Refused, envVars, resVars
<1>2. ConnTypeOK'
  BY <1>1 DEF ConnInv, ConnTypeOK, WritePcs
<1>3. InHand(Len(out) + 1) /\ \A i \in 1..Len(out) : GoesOn(i) /\ Answers(i)
  BY <1>1 DEF ConnInv, OutInv
<1>4. FileInv'
  <2>1. Len(out) \in Nat
    BY LenProperties DEF ConnInv, ConnTypeOK
  <2>2. response.closer \in BOOLEAN
    BY DEF ConnInv, ConnTypeOK, Response
  <2>3. response.closer => Len(out) < Len(delivered)
    <3>1. CASE Len(delivered) = Len(out) + 1
      BY <2>1, <3>1
    <3>2. ASSUME NEW s \in ErrorStatuses, response = ErrorResponse(s) PROVE ~response.closer
      BY <3>2, ErrorResponses
    <3> QED BY <1>3, <3>1, <3>2 DEF InHand
  <2>4. openFiles = dropped + IF response.closer THEN 1 ELSE 0
    BY <1>1 DEF ConnInv, FileInv, WritePcs
  <2>5. openFiles' = dropped' + IF response'.closer THEN 1 ELSE 0
    BY <1>1, <2>4 DEF fileVars
  <2>6. pc' = "returned" =>
          openFiles' = dropped' + IF response'.closer /\ Len(out') < Len(delivered') THEN 1 ELSE 0
    BY <1>1, <2>2, <2>3, <2>5
  <2> QED BY <1>1, <2>5, <2>6 DEF ConnInv, FileInv, FilesAccounted, fileVars, ReadPcs, WritePcs
<1>5. \A i \in 1..Len(out) : GoesOn(i)' /\ Answers(i)'
  BY <1>1, <1>3 DEF GoesOn, Answers
<1>6. Len(out) \in Nat
  BY LenProperties DEF ConnInv, ConnTypeOK
<1>7. CASE pc' = "write"
  <2>1. InHand(Len(out) + 1)'
    BY <1>1, <1>3 DEF InHand
  <2>2. OutInv'
    BY <1>1, <1>5, <1>7, <2>1 DEF OutInv, ReadPcs
  <2> QED BY <1>2, <1>4, <2>2 DEF ConnInv
<1>8. CASE pc' = "returned"
  <2>1. connClosed \/ refused(response)
    BY <1>8 DEF SetWriteDeadline, Refused
  <2>2. CloseIsAnnounced'
    <3>1. CASE connClosed
      BY <1>1, <3>1 DEF CloseIsAnnounced
    <3>2. CASE refused(response)
      <4>1. Len(delivered) = Len(out) + 1
        BY <1>3, <3>2, ErrorResponses DEF InHand
      <4> QED BY <1>1, <1>6, <4>1 DEF CloseIsAnnounced
    <3> QED BY <2>1, <3>1, <3>2
  <2>3. Len(out) <= Len(delivered) + 1
    BY <1>3, <1>6 DEF InHand
  <2>4. OutInv'
    BY <1>1, <1>5, <1>6, <1>8, <2>2, <2>3 DEF OutInv, ReadPcs
  <2> QED BY <1>2, <1>4, <2>4 DEF ConnInv
<1> QED BY <1>1, <1>7, <1>8

\* The head, or the failure before it.
LEMMA HeadSteps ==
  ASSUME ConnInv, WriteHead \/ (WriteFails /\ pc = "write"), UNCHANGED envVars
  PROVE  ConnInv'
<1>0. PICK n \in Nat \ {0} : n = Len(out) + 1
  BY LenProperties DEF ConnInv, ConnTypeOK
<1>1. pc = "write" /\ UNCHANGED <<response, close, delivered, connClosed>>
  BY DEF WriteHead, WriteFails, envVars, resVars
<1>2. PICK st \in {"head", "done", "cut"} :
        /\ out' = Append(out, entry(st))
        /\ \/ st = "cut" /\ CloseBody /\ pc' = "returned"
           \/ st = "head" /\ pc' = "writeBody" /\ UNCHANGED fileVars
           \/ st = "done" /\ CloseBody /\ finish
  BY DEF WriteHead, WriteFails
<1>3. /\ n \in Nat \ {0} /\ InHand(n) /\ out' \in Seq(Entry) /\ Len(out') = n
      /\ \A i \in 1..n - 1 : out'[i] = out[i] /\ GoesOn(i) /\ Answers(i)
      /\ out'[n] = entry(st)
  BY <1>0, <1>1, <1>2, Begin
<1>4. out'[n].status = response.status /\ out'[n].close = close /\ out'[n].state = st
  BY <1>3 DEF entry
<1>5. CASE st # "head"
  <2>1. openFiles' = dropped /\ UNCHANGED dropped
    BY <1>1, <1>2, <1>5, Closed DEF WritePcs
  <2> QED BY <1>1, <1>2, <1>3, <1>4, <1>5, <2>1, ResponseOver DEF WritePcs
<1>6. CASE st = "head"
  <2>1. pc' = "writeBody" /\ UNCHANGED fileVars
    BY <1>2, <1>6
  <2>2. ConnTypeOK'
    BY <1>1, <1>3, <2>1 DEF ConnInv, ConnTypeOK, WritePcs
  <2>3. FileInv'
    BY <1>1, <2>1 DEF ConnInv, FileInv, FilesAccounted, fileVars, ReadPcs, WritePcs
  <2>4. \A i \in 1..n - 1 : GoesOn(i)' /\ Answers(i)'
    BY <1>1, <1>3 DEF GoesOn, Answers
  <2>5. InHand(n)' /\ Answers(n)'
    BY <1>1, <1>3, <1>4 DEF InHand, Answers
  <2>6. OutInv'
    BY <1>1, <1>3, <1>4, <1>6, <2>1, <2>4, <2>5 DEF OutInv, ReadPcs, cur
  <2> QED BY <2>2, <2>3, <2>6 DEF ConnInv
<1> QED BY <1>5, <1>6

\* The body: another unit, its end, or a failure.
LEMMA BodySteps ==
  ASSUME ConnInv, WriteBody \/ BodyFails \/ BodyDone \/ (WriteFails /\ pc = "writeBody"),
         UNCHANGED envVars
  PROVE  ConnInv'
<1>1. pc = "writeBody" /\ UNCHANGED <<response, close, delivered, connClosed>>
  BY DEF WriteBody, BodyFails, BodyDone, WriteFails, envVars, resVars
<1>len. PICK n \in Nat \ {0} : n = Len(out)
  BY <1>1, LenProperties DEF ConnInv, ConnTypeOK, OutInv
<1>2. cur \in Entry
  BY <1>1, LenProperties, ElementOfSeq DEF ConnInv, ConnTypeOK, OutInv, cur
<1>3. CASE WriteBody
  <2> DEFINE e == [cur EXCEPT !.wrote = @ + 1]
  <2>1. /\ SetCur(e) /\ pc' = "writeBody" /\ UNCHANGED fileVars
    BY <1>1, <1>3 DEF WriteBody
  <2>2. e \in Entry /\ e.close = cur.close /\ e.status = cur.status /\ e.state = cur.state
    BY <1>2 DEF Entry
  <2> HIDE DEF e
  <2>3. /\ n \in Nat \ {0} /\ InHand(n) /\ out' \in Seq(Entry) /\ Len(out') = n
        /\ \A i \in 1..n - 1 : out'[i] = out[i] /\ GoesOn(i) /\ Answers(i)
        /\ out'[n] = e /\ cur.close = close /\ cur.status = response.status
    BY <1>len, <1>1, <2>1, <2>2, GoOn
  <2>4. cur.state = "head" /\ Answers(n)
    BY <1>len, <1>1, <2>3 DEF ConnInv, OutInv
  <2>5. ConnTypeOK'
    BY <1>1, <2>1, <2>3 DEF ConnInv, ConnTypeOK, WritePcs
  <2>6. FileInv'
    BY <1>1, <2>1 DEF ConnInv, FileInv, FilesAccounted, fileVars, ReadPcs, WritePcs
  <2>7. \A i \in 1..n - 1 : GoesOn(i)' /\ Answers(i)'
    BY <1>1, <2>3 DEF GoesOn, Answers
  <2>8. InHand(n)' /\ Answers(n)'
    BY <1>1, <2>2, <2>3, <2>4 DEF InHand, Answers
  <2>9. OutInv'
    BY <1>1, <2>1, <2>2, <2>3, <2>4, <2>7, <2>8 DEF OutInv, ReadPcs, cur
  <2> QED BY <2>5, <2>6, <2>9 DEF ConnInv
<1>4. ASSUME NEW st \in {"done", "cut"}, SetCur([cur EXCEPT !.state = st]), CloseBody,
             \/ st = "cut" /\ pc' = "returned"
             \/ st = "done" /\ finish
      PROVE  ConnInv'
  <2> DEFINE e == [cur EXCEPT !.state = st]
  <2>1. e \in Entry /\ e.close = cur.close /\ e.status = cur.status /\ e.state = st
    BY <1>2 DEF Entry
  <2>2. SetCur(e)
    BY <1>4
  <2> HIDE DEF e
  <2>3. /\ n \in Nat \ {0} /\ InHand(n) /\ out' \in Seq(Entry) /\ Len(out') = n
        /\ \A i \in 1..n - 1 : out'[i] = out[i] /\ GoesOn(i) /\ Answers(i)
        /\ out'[n] = e /\ cur.close = close /\ cur.status = response.status
    BY <1>len, <1>1, <2>1, <2>2, GoOn
  <2>4. openFiles' = dropped /\ UNCHANGED dropped
    BY <1>1, <1>4, Closed DEF WritePcs
  <2> QED BY <1>1, <1>4, <2>1, <2>3, <2>4, ResponseOver DEF WritePcs
<1>5. CASE BodyFails \/ BodyDone \/ (WriteFails /\ pc = "writeBody")
  BY <1>4, <1>5 DEF BodyFails, BodyDone, WriteFails
<1> QED BY <1>3, <1>5

\* ServeConn, the client and the network preserve the invariant.
LEMMA ConnNext == ASSUME ConnInv, [Next]_vars PROVE ConnInv'
<1>1. CASE Env
  BY <1>1, EnvKeeps
<1>2. CASE ServeConn
  <2>1. Write => \/ WriteHead \/ (WriteFails /\ pc = "write")
                 \/ WriteBody \/ BodyFails \/ BodyDone \/ (WriteFails /\ pc = "writeBody")
    BY DEF Write, WriteFails
  <2> QED BY <1>2, <2>1, ReadDeadlineStep, ReadSteps, AppStep, WriteDeadlineSteps,
             HeadSteps, BodySteps DEF ServeConn
<1>3. CASE UNCHANGED vars
  <2>1. UNCHANGED <<pc, response, close, delivered, out, fileVars, connClosed>>
    BY <1>3 DEF vars, envVars, resVars
  <2>2. ConnTypeOK'
    BY <2>1 DEF ConnInv, ConnTypeOK
  <2>3. OutInv'
    BY <2>1 DEF ConnInv, OutInv, Answers, GoesOn, InHand, cur, CloseIsAnnounced
  <2>4. FileInv'
    BY <2>1 DEF ConnInv, FileInv, FilesAccounted, fileVars
  <2> QED BY <2>2, <2>3, <2>4 DEF ConnInv
<1> QED BY <1>1, <1>2, <1>3 DEF Next, Returned

\* A new connection has no response and no file.
LEMMA ConnInit == Init => ConnInv
<1> SUFFICES ASSUME Init PROVE ConnInv
  OBVIOUS
<1>1. <<>> \in Seq(Entry) /\ Len(<<>>) = 0 /\ IsSeq(<<>>)
  BY EmptySeq DEF IsSeq
<1>2. ErrorResponse(400) \in Response
  BY ErrorResponses DEF ErrorStatuses
<1>3. ConnTypeOK
  BY <1>1, <1>2 DEF Init, ConnTypeOK
<1>4. pc = "readDeadline" /\ Len(out) = 0 /\ Len(delivered) = 0 /\ openFiles = 0 /\ dropped = 0
  BY <1>1 DEF Init
<1>5. OutInv /\ FileInv
  BY <1>4 DEF OutInv, FileInv, FilesAccounted, ReadPcs, WritePcs
<1> QED BY <1>3, <1>5 DEF ConnInv

\* What the invariant says of responses and files.
LEMMA ConnSays == ConnInv => ResponsesInOrder /\ CloseIsAnnounced /\ FilesAccounted
<1> SUFFICES ASSUME ConnInv PROVE ResponsesInOrder /\ CloseIsAnnounced /\ FilesAccounted
  OBVIOUS
<1>1. ResponsesInOrder
  <2>1. Len(out) \in Nat
    BY LenProperties DEF ConnInv, ConnTypeOK
  <2>2. Len(out) <= Len(delivered) + 1
    BY <2>1 DEF ConnInv, ConnTypeOK, OutInv, InHand, WritePcs
  <2>3. \A i \in 1..Len(out) - 1 : GoesOn(i)
    BY <2>1 DEF ConnInv, ConnTypeOK, OutInv, WritePcs
  <2>4. \A i \in 1..Len(out) : Answers(i)
    BY DEF ConnInv, OutInv
  <2> QED BY <2>2, <2>3, <2>4 DEF ResponsesInOrder, GoesOn, Answers
<1>2. CloseIsAnnounced
  BY DEF ConnInv, OutInv, CloseIsAnnounced
<1>3. FilesAccounted
  BY DEF ConnInv, FileInv
<1> QED BY <1>1, <1>2, <1>3

\* What is on the wire, what the application was given and which file is open
\* fit together at every point of ServeConn.
THEOREM ConnInvariance == Spec => []ConnInv
<1> QED BY ConnInit, ConnNext, PTL DEF Spec

\* Pipelined requests are answered in order, one response each, and nothing
\* follows a response that ends the connection (ServeConn, WriteResponse).
THEOREM ResponsesStayInOrder == Spec => []ResponsesInOrder
<1> QED BY ConnSays, ConnInvariance, PTL

\* ServeConn leaves a healthy connection only after a response that said so.
THEOREM CloseAlwaysAnnounced == Spec => []CloseIsAnnounced
<1> QED BY ConnSays, ConnInvariance, PTL

\* Between two requests nothing is open but what the application's responses
\* dropped, and ServeConn returns with one file more only if the response that
\* carries it was never begun: the deferred Close of WriteResponse misses no path
\* after its checks, and the early returns before it are the only ones that leak.
THEOREM FilesAreAccounted == Spec => []FilesAccounted
<1> QED BY ConnSays, ConnInvariance, PTL

-----------------------------------------------------------------------------
(***************************************************************************)
(* Framing: the requests that the application sees are the messages that   *)
(* the client sent, for every script, segmentation and size limit.         *)
(*                                                                         *)
(* The stream of a script is defined by recursion (Before).  Its equations *)
(* are derived here by induction over sets of numbers, from the library's  *)
(* theorem that every set of naturals has a least element.                 *)
(***************************************************************************)

Field == [name : STRING, value : STRING]
Message == [version : STRING, body : Nat, fields : Seq(Field)]

-----------------------------------------------------------------------------
(* Induction over sets of numbers.                                         *)

\* A set of numbers that is not empty has a least one.
LEMMA LeastElement ==
  ASSUME NEW T \in SUBSET Nat, T # {}
  PROVE  \E x \in T : \A y \in T : x <= y
<1>1. \E x \in T : \A y \in T : ~(<<y, x>> \in OpToRel(<, Nat))
  BY NatLessThanWellFounded, WFMin
<1>2. PICK x \in T : \A y \in T : ~(<<y, x>> \in OpToRel(<, Nat))
  BY <1>1
<1>3. \A y \in T : <<y, x>> \in OpToRel(<, Nat) <=> y < x
  BY DEF OpToRel
<1>4. \A y \in T : ~(y < x)
  BY <1>2, <1>3, Zenon
<1> QED BY <1>4

\* Induction, as a fact about sets.
LEMMA SetInduction ==
  ASSUME NEW T, 0 \in T, \A n \in Nat : n \in T => n + 1 \in T
  PROVE  Nat \subseteq T
<1> DEFINE U == {n \in Nat : n \notin T}
<1> SUFFICES ASSUME U # {} PROVE FALSE
  OBVIOUS
<1>1. PICK x \in U : \A y \in U : x <= y
  BY LeastElement
<1>2. x # 0 /\ x - 1 \in Nat /\ x - 1 \notin U
  BY <1>1
<1> QED BY <1>1, <1>2

-----------------------------------------------------------------------------
(* The stream of a script.                                                 *)

IsBefore(f, n) == f = [j \in 1..n |-> IF j = 1 THEN 0 ELSE f[j - 1] + Size(script[j - 1])]

\* The recursion that defines Before has a solution.
LEMMA BeforeExists == \A n \in Nat : \E f : IsBefore(f, n)
<1> DEFINE T == {n \in Nat : \E f : IsBefore(f, n)}
<1>1. 0 \in T
  <2> DEFINE f == [j \in 1..0 |-> 0]
  <2>1. f = [j \in 1..0 |-> IF j = 1 THEN 0 ELSE f[j - 1] + Size(script[j - 1])]
    OBVIOUS
  <2> HIDE DEF f
  <2> QED BY <2>1 DEF IsBefore
<1>2. ASSUME NEW n \in Nat, n \in T PROVE n + 1 \in T
  <2>1. PICK f : IsBefore(f, n)
    BY <1>2
  <2> DEFINE g == [j \in 1..n + 1 |-> IF j = 1 THEN 0 ELSE f[j - 1] + Size(script[j - 1])]
  <2>2. ASSUME NEW j \in 1..n + 1, j # 1 PROVE g[j - 1] = f[j - 1]
    <3>1. j - 1 \in 1..n /\ j - 1 \in 1..n + 1
      BY <2>2
    <3>2. f[j - 1] = IF j - 1 = 1 THEN 0 ELSE f[j - 1 - 1] + Size(script[j - 1 - 1])
      BY <2>1, <3>1 DEF IsBefore
    <3>3. g[j - 1] = IF j - 1 = 1 THEN 0 ELSE f[j - 1 - 1] + Size(script[j - 1 - 1])
      BY <3>1
    <3> QED BY <3>2, <3>3
  <2>3. g = [j \in 1..n + 1 |-> IF j = 1 THEN 0 ELSE g[j - 1] + Size(script[j - 1])]
    BY <2>2
  <2> HIDE DEF g
  <2>4. \E h : IsBefore(h, n + 1)
    BY <2>3 DEF IsBefore
  <2> QED BY <2>4
<1> HIDE DEF T
<1>3. Nat \subseteq T
  BY <1>1, <1>2, SetInduction
<1> QED BY <1>3 DEF T

\* Two solutions agree where both are defined.
LEMMA BeforeUnique ==
  ASSUME NEW n \in Nat, NEW m \in Nat, n <= m, NEW f, IsBefore(f, n), NEW g, IsBefore(g, m)
  PROVE  \A j \in 1..n : f[j] = g[j]
<1> DEFINE T == {j \in Nat : j \in 1..n => f[j] = g[j]}
<1>1. 0 \in T
  OBVIOUS
<1>2. ASSUME NEW j \in Nat, j \in T PROVE j + 1 \in T
  <2> SUFFICES ASSUME j + 1 \in 1..n PROVE f[j + 1] = g[j + 1]
    OBVIOUS
  <2>1. f[j + 1] = IF j + 1 = 1 THEN 0 ELSE f[j + 1 - 1] + Size(script[j + 1 - 1])
    BY DEF IsBefore
  <2>2. g[j + 1] = IF j + 1 = 1 THEN 0 ELSE g[j + 1 - 1] + Size(script[j + 1 - 1])
    BY DEF IsBefore
  <2>3. j + 1 # 1 => f[j] = g[j]
    BY <1>2
  <2>4. j + 1 - 1 = j
    OBVIOUS
  <2> QED BY <2>1, <2>2, <2>3, <2>4
<1> HIDE DEF T
<1>3. Nat \subseteq T
  BY <1>1, <1>2, SetInduction
<1> QED BY <1>3 DEF T

\* Before is the last value of any solution.
LEMMA BeforeValue ==
  ASSUME NEW n \in Nat \ {0}, NEW f, IsBefore(f, n)
  PROVE  Before(n) = f[n]
<1> DEFINE g == CHOOSE b : b = [j \in 1..n |-> IF j = 1 THEN 0
                                               ELSE b[j - 1] + Size(script[j - 1])]
<1>1. IsBefore(g, n)
  BY DEF IsBefore
<1>2. Before(n) = g[n]
  BY DEF Before
<1> HIDE DEF g
<1> QED BY <1>1, <1>2, BeforeUnique

\* The equations of Before.
LEMMA BeforeStep ==
  /\ Before(1) = 0
  /\ \A i \in Nat \ {0} : Before(i + 1) = Before(i) + Size(script[i])
<1>1. PICK f : IsBefore(f, 1)
  BY BeforeExists
<1>2. Before(1) = 0
  <2>1. f[1] = 0
    BY <1>1 DEF IsBefore
  <2> QED BY <1>1, <2>1, BeforeValue
<1>3. ASSUME NEW i \in Nat \ {0} PROVE Before(i + 1) = Before(i) + Size(script[i])
  <2>1. PICK g : IsBefore(g, i)
    BY BeforeExists
  <2>2. PICK h : IsBefore(h, i + 1)
    BY BeforeExists
  <2>3. Before(i) = g[i] /\ Before(i + 1) = h[i + 1] /\ g[i] = h[i]
    BY <2>1, <2>2, BeforeValue, BeforeUnique
  <2>4. i + 1 \in 1..i + 1 /\ i + 1 # 1 /\ i + 1 - 1 = i
    OBVIOUS
  <2>5. h[i + 1] = h[i] + Size(script[i])
    BY <2>2, <2>4 DEF IsBefore
  <2> QED BY <2>3, <2>5
<1> QED BY <1>2, <1>3

-----------------------------------------------------------------------------
(* The invariant.                                                          *)

Versions == {"HTTP/1.1", "HTTP/1.0"}

\* The messages before the i-th exist, and their bodies are as long as they say.
Honest(i) == \A j \in 1..i - 1 : j <= Len(script) /\ Says(script[j], script[j].body)

Length(fs) == ContentLength(fs).length

\* The header lines read so far are the first ones of message i.
ReadSoFar(i) ==
  /\ i <= Len(script) /\ start = Before(i)
  /\ version = script[i].version /\ version \in Versions
  /\ fields \in Seq(Field) /\ Len(fields) <= Len(script[i].fields) /\ Len(fields) <= MaxHeaders
  /\ \A k \in 1..Len(fields) : fields[k] = script[i].fields[k] /\ validField(fields[k])

\* The whole header section of message i has been read and accepted.
Accepted(i) == fields = script[i].fields /\ headerError(version, fields) = "none"

\* Where the reader is in the stream while it reads request i, and after it.
Place(i) ==
  /\ pc = "readDeadline" => pos = Before(i)
  /\ pc = "line" => start = Before(i) /\ pos = Before(i) /\ fields = <<>>
  /\ pc = "header" => ReadSoFar(i) /\ pos = Before(i) + 1 + Len(fields)
  /\ pc \in {"body", "app"} => ReadSoFar(i) /\ Accepted(i)
  /\ pc = "body" => /\ remaining \in 1..Length(fields)
                    /\ pos = Before(i) + 2 + Len(fields) + Length(fields) - remaining
  /\ pc = "app" => pos = Before(i) + 2 + Len(fields) + Length(fields)
  /\ pc \in WritePcs => close \/ pos = Before(i)

StreamInv ==
  /\ script \in Scripts /\ pos \in Nat /\ filled \in Nat /\ pos <= filled /\ filled <= Total

\* As long as the client's bodies are as long as it says, the reader is where a
\* message begins whenever it looks for one.
FrameInv ==
  /\ StreamInv /\ Framing
  /\ Honest(Len(delivered) + 1) => Place(Len(delivered) + 1)

-----------------------------------------------------------------------------
(* Units, sizes and header sections.                                       *)

\* The parts of a message of the script.
LEMMA Messages ==
  ASSUME script \in Scripts
  PROVE  /\ script \in Seq(Message) /\ Len(script) \in Nat
         /\ \A i \in 1..Len(script) :
              /\ script[i] \in Message /\ script[i].body \in Nat
              /\ script[i].fields \in Seq(Field) /\ Len(script[i].fields) \in Nat
              /\ Size(script[i]) \in Nat /\ Size(script[i]) >= 2
<1>1. script \in Seq(Message)
  BY ScriptAssumption DEF Message, Field
<1>2. Len(script) \in Nat /\ \A i \in 1..Len(script) : script[i] \in Message
  BY <1>1, LenProperties, ElementOfSeq
<1>3. \A m \in Message : /\ m.body \in Nat /\ m.fields \in Seq(Field)
                         /\ Len(m.fields) \in Nat
                         /\ Size(m) \in Nat /\ Size(m) >= 2
  <2> SUFFICES ASSUME NEW m \in Message
               PROVE  /\ m.body \in Nat /\ m.fields \in Seq(Field)
                      /\ Len(m.fields) \in Nat
                      /\ Size(m) \in Nat /\ Size(m) >= 2
    OBVIOUS
  <2>1. m.body \in Nat /\ m.fields \in Seq(Field)
    BY DEF Message
  <2>2. Len(m.fields) \in Nat
    BY <2>1, LenProperties
  <2> QED BY <2>1, <2>2 DEF Size
<1> QED BY <1>1, <1>2, <1>3

\* Offsets are numbers, and grow with every message.
LEMMA Offsets ==
  ASSUME script \in Scripts
  PROVE  \A j \in 1..Len(script) + 1 :
           Before(j) \in Nat /\ \A i \in 1..j - 1 : Before(i) < Before(j)
<1> DEFINE N == Len(script)
           T == {j \in Nat : j \in 1..N + 1 =>
                   Before(j) \in Nat /\ \A i \in 1..j - 1 : Before(i) \in Nat /\ Before(i) < Before(j)}
<1>1. N \in Nat
  BY Messages
<1>2. 0 \in T
  BY <1>1
<1>3. ASSUME NEW j \in Nat, j \in T PROVE j + 1 \in T
  <2> SUFFICES ASSUME j + 1 \in 1..N + 1
               PROVE  /\ Before(j + 1) \in Nat
                      /\ \A i \in 1..j : Before(i) \in Nat /\ Before(i) < Before(j + 1)
    OBVIOUS
  <2>1. CASE j = 0
    BY <2>1, BeforeStep
  <2>2. CASE j # 0
    <3>1. /\ j \in 1..N /\ Before(j) \in Nat
          /\ \A i \in 1..j - 1 : Before(i) \in Nat /\ Before(i) < Before(j)
      BY <1>1, <1>3, <2>2
    <3>2. Size(script[j]) \in Nat /\ Size(script[j]) >= 2
      BY <3>1, Messages
    <3>3. Before(j + 1) = Before(j) + Size(script[j])
      BY <2>2, BeforeStep
    <3>4. Before(j + 1) \in Nat /\ Before(j) < Before(j + 1)
      BY <3>1, <3>2, <3>3
    <3>5. \A i \in 1..j - 1 : Before(i) \in Nat /\ Before(i) < Before(j + 1)
      BY <3>1, <3>4
    <3> QED BY <3>1, <3>4, <3>5
  <2> QED BY <2>1, <2>2
<1> HIDE DEF T
<1>4. Nat \subseteq T
  BY <1>2, <1>3, SetInduction
<1> QED BY <1>1, <1>4 DEF T

\* The script of a client does not change, and neither does its stream.
LEMMA Rigid ==
  ASSUME UNCHANGED script
  PROVE  \A i \in Nat \ {0} : Before(i)' = Before(i)
  BY DEF Before, Size
\* The k-th unit of message i.
LEMMA UnitAt ==
  ASSUME script \in Scripts, NEW i \in 1..Len(script), NEW k \in 1..Size(script[i])
  PROVE  LET u == Unit(Before(i) + k)
             m == script[i]
         IN /\ k = 1 => u = [kind |-> "start", version |-> m.version]
            /\ k \in 2..Len(m.fields) + 1 => u = [kind |-> "field", field |-> m.fields[k - 1]]
            /\ k = Len(m.fields) + 2 => u = [kind |-> "blank"]
<1> DEFINE p == Before(i) + k
<1>1. /\ Len(script) \in Nat /\ i \in 1..Len(script) + 1 /\ i + 1 \in 1..Len(script) + 1
      /\ Size(script[i]) \in Nat /\ Len(script[i].fields) \in Nat
  BY Messages
<1>2. Before(i) \in Nat /\ Before(i + 1) = Before(i) + Size(script[i])
  BY <1>1, Offsets, BeforeStep
<1>3. p \in Nat /\ Before(i) < p /\ p <= Before(i + 1) /\ p - Before(i) = k
  BY <1>1, <1>2
<1>4. ASSUME NEW h \in 1..Len(script), Before(h) < p, p <= Before(h + 1) PROVE h = i
  <2>1. h + 1 \in 1..Len(script) + 1 /\ h \in 1..Len(script) + 1
    BY <1>1
  <2>2. /\ Before(h) \in Nat /\ Before(h + 1) \in Nat
    BY <2>1, Offsets
  <2>3. h < i => Before(h + 1) <= Before(i)
    <3>1. CASE h + 1 = i
      BY <1>2, <3>1
    <3>2. CASE h + 1 # i
      <4>1. h < i => h + 1 \in 1..i - 1
        BY <3>2
      <4> QED BY <1>1, <1>2, <2>2, <4>1, Offsets
    <3> QED BY <3>1, <3>2
  <2>4. i < h => Before(i + 1) <= Before(h)
    <3>1. CASE i + 1 = h
      BY <2>2, <3>1
    <3>2. CASE i + 1 # h
      <4>1. i < h => i + 1 \in 1..h - 1
        BY <3>2
      <4> QED BY <1>1, <1>2, <2>1, <2>2, <4>1, Offsets
    <3> QED BY <3>1, <3>2
  <2>5. ~(h < i)
    BY <1>2, <1>3, <1>4, <2>2, <2>3
  <2>6. ~(i < h)
    BY <1>1, <1>2, <1>3, <1>4, <2>2, <2>4
  <2> QED BY <2>5, <2>6
<1>5. MsgAt(p) = i
  BY <1>3, <1>4 DEF MsgAt
<1> HIDE DEF p
<1>6. Unit(p) = LET m == script[i] IN
                CASE k = 1 -> [kind |-> "start", version |-> m.version]
                  [] k \in 2..Len(m.fields) + 1 -> [kind |-> "field", field |-> m.fields[k - 1]]
                  [] k = Len(m.fields) + 2 -> [kind |-> "blank"]
                  [] OTHER -> [kind |-> "data"]
  BY <1>3, <1>5 DEF Unit
<1> QED BY <1>1, <1>6 DEF p

\* All that a header section can say about its length agrees with ContentLength
\* if headerError finds no fault, and then the message is well formed.
LEMMA HeaderAccepted ==
  ASSUME NEW m \in Message, m.version \in Versions, Len(m.fields) <= MaxHeaders,
         \A k \in 1..Len(m.fields) : validField(m.fields[k]),
         headerError(m.version, m.fields) = "none"
  PROVE  /\ WellFormed(m) /\ Length(m.fields) \in 0..MaxBody
         /\ Says(m, Length(m.fields))
<1> DEFINE fs == m.fields
           cl == ContentLength(fs)
           texts == ContentLengths(fs)
           values == {Numeral[t] : t \in texts \cap DOMAIN Numeral}
<1>1. /\ m.version = "HTTP/1.1" => hasNonEmptyHeader(fs, "Host")
      /\ ~hasNonEmptyHeader(fs, "Transfer-Encoding")
      /\ ~cl.err /\ ~(cl.length > MaxBody)
  <2> HIDE DEF cl
  <2> QED BY DEF headerError, cl
<1>2. /\ texts \subseteq DOMAIN Numeral /\ ~(\E a, b \in values : a # b)
      /\ cl.length = IF texts = {} THEN 0 ELSE CHOOSE n \in values : TRUE
  BY <1>1 DEF ContentLength
<1> HIDE DEF cl
<1>3. texts = {} <=> Named(m, "Content-Length") = {}
  BY DEF ContentLengths, Named
<1>4. \A i \in Named(m, "Content-Length") : fs[i].value \in texts
  BY DEF ContentLengths, Named
<1> HIDE DEF texts
<1>5. Says(m, cl.length) /\ cl.length \in Nat
  <2>1. CASE texts = {}
    BY <1>2, <1>3, <2>1 DEF Says
  <2>2. CASE texts # {}
    <3>1. values # {} /\ \A v \in values : v \in Nat
      BY <1>2, <2>2, NumeralAssumption
    <3>2. cl.length \in values
      BY <1>2, <2>2, <3>1
    <3>3. \A t \in texts : t \in DOMAIN Numeral /\ Numeral[t] = cl.length
      BY <1>2, <3>2
    <3> QED BY <1>3, <1>4, <2>2, <3>1, <3>2, <3>3 DEF Says
  <2> QED BY <2>1, <2>2
<1>6. cl.length \in 0..MaxBody
  BY <1>1, <1>5, SizeAssumption
<1>7. WellFormed(m)
  <2>1. Named(m, "") = {}
    BY DEF Named, validField
  <2>2. m.version = "HTTP/1.1" => \E i \in Named(m, "Host") : m.fields[i].value # ""
    BY <1>1 DEF hasNonEmptyHeader, Named
  <2>3. \A i \in Named(m, "Transfer-Encoding") : m.fields[i].value = ""
    BY <1>1 DEF hasNonEmptyHeader, Named
  <2>4. \E n \in 0..MaxBody : Says(m, n)
    BY <1>5, <1>6
  <2> QED BY <2>1, <2>2, <2>3, <2>4 DEF WellFormed, Versions
<1> QED BY <1>5, <1>6, <1>7 DEF Length, cl

\* A message cannot say two lengths.
LEMMA SaysOne ==
  ASSUME NEW m, NEW a, NEW b, Says(m, a), Says(m, b)
  PROVE  a = b
  BY DEF Says

\* Total is where the message after the last would begin.
LEMMA TotalIsNat == ASSUME script \in Scripts PROVE Total \in Nat
<1>1. Len(script) + 1 \in 1..Len(script) + 1
  BY Messages
<1> QED BY <1>1, Offsets DEF Total

\* Where there is something left to read, an honest client has a message.
LEMMA MoreToRead ==
  ASSUME StreamInv, NEW i \in Nat \ {0}, Honest(i), pos < filled, pos = Before(i)
  PROVE  i \in 1..Len(script)
<1>1. Len(script) \in Nat /\ Total \in Nat
  BY Messages, TotalIsNat DEF StreamInv
<1>2. i <= Len(script) + 1
  <2>1. CASE i = 1
    BY <1>1, <2>1
  <2>2. CASE i # 1
    <3>1. i - 1 \in 1..i - 1
      BY <2>2
    <3>2. i - 1 <= Len(script)
      BY <3>1 DEF Honest
    <3> QED BY <1>1, <3>2
  <2> QED BY <2>1, <2>2
<1>3. i # Len(script) + 1
  BY <1>1 DEF StreamInv, Total
<1> QED BY <1>1, <1>2, <1>3

-----------------------------------------------------------------------------
(* The steps of ServeConn.                                                 *)

\* What has been delivered so far stays right while nothing is delivered.
LEMMA FramingKept ==
  ASSUME Framing, Len(delivered) \in Nat, UNCHANGED <<script, delivered>>
  PROVE  Framing'
<1>1. \A i \in Nat \ {0} : Before(i)' = Before(i)
  BY Rigid
<1> QED BY <1>1 DEF Framing

\* For a step that delivers nothing it is enough to find the new place.
LEMMA Framed ==
  ASSUME FrameInv, ConnInv, UNCHANGED <<script, delivered>>, StreamInv',
         NEW i \in Nat, i = Len(delivered) + 1, Honest(i) /\ Place(i) => Place(i)'
  PROVE  FrameInv'
<1>1. Len(delivered) \in Nat
  BY LenProperties DEF ConnInv, ConnTypeOK, IsSeq
<1>2. Framing'
  BY <1>1, FramingKept DEF FrameInv
<1>3. Honest(i)' => Honest(i)
  BY DEF Honest, Says, Named
<1>4. Honest(i)' => Place(i)'
  BY <1>3 DEF FrameInv
<1> QED BY <1>2, <1>4 DEF FrameInv

\* The request that is being read has a number.
LEMMA Current ==
  ASSUME ConnInv
  PROVE  \E i \in Nat \ {0} : i = Len(delivered) + 1
  BY LenProperties DEF ConnInv, ConnTypeOK, IsSeq

\* Nothing that Place speaks of changes.
LEMMA PlaceSame ==
  ASSUME NEW i \in Nat \ {0}, Place(i),
         UNCHANGED <<script, pc, pos, start, version, fields, remaining, close>>
  PROVE  Place(i)'
<1>1. Before(i)' = Before(i)
  BY Rigid
<1> QED BY <1>1 DEF Place, ReadSoFar, Accepted

\* A request that cannot be read is the last one, so its place does not matter.
LEMMA FailPlace ==
  ASSUME FrameInv, ConnInv, NEW err, Fail(err), UNCHANGED <<script, filled>>,
         pos' \in {pos, pos + 1}, pos' <= filled
  PROVE  FrameInv'
<1>1. PICK i \in Nat \ {0} : i = Len(delivered) + 1
  BY Current
<1>2. Total' = Total
  BY Messages, Rigid DEF Total, FrameInv, StreamInv
<1>3. StreamInv'
  BY <1>2 DEF FrameInv, StreamInv
<1>4. Place(i)'
  BY DEF Place, Fail, WritePcs
<1>5. UNCHANGED delivered
  BY DEF Fail
<1> QED BY <1>1, <1>3, <1>4, <1>5, Framed

\* A unit is taken from what has been read ahead.
LEMMA StreamConsumed ==
  ASSUME StreamInv, Buffered, Consume, UNCHANGED script
  PROVE  StreamInv' /\ pos' = pos + 1 /\ pos' <= filled /\ UNCHANGED filled
<1>1. Total' = Total
  BY Messages, Rigid DEF Total, StreamInv
<1> QED BY <1>1 DEF StreamInv, Buffered, Consume

\* The request line is the first unit of the next message.
LEMMA LineStep ==
  ASSUME FrameInv, ConnInv, ReadRequestLine, UNCHANGED envVars
  PROVE  FrameInv'
<1>0. UNCHANGED script /\ pc = "line" /\ Buffered /\ Consume /\ StreamInv
  BY DEF ReadRequestLine, envVars, FrameInv
<1>1. StreamInv' /\ pos' = pos + 1 /\ pos' <= filled /\ UNCHANGED filled
  BY <1>0, StreamConsumed
<1>2. ASSUME NEW e, Fail(e) PROVE FrameInv'
  BY <1>0, <1>1, <1>2, FailPlace
<1>3. CASE ~\E e \in {"parse"} : Fail(e)
  <2>1. PICK i \in Nat \ {0} : i = Len(delivered) + 1
    BY Current
  <2>2. UNCHANGED delivered
    BY <1>3 DEF ReadRequestLine
  <2>3. ASSUME Honest(i), Place(i) PROVE Place(i)'
    <3>1. start = Before(i) /\ pos = Before(i) /\ fields = <<>>
      BY <1>0, <2>3 DEF Place
    <3>2. i \in 1..Len(script)
      BY <1>0, <2>3, <3>1, MoreToRead DEF Buffered
    <3>3. Unit(pos + 1) = [kind |-> "start", version |-> script[i].version]
      <4>1. 1 \in 1..Size(script[i])
        BY <1>0, <3>2, Messages DEF StreamInv
      <4> QED BY <1>0, <3>1, <3>2, <4>1, UnitAt DEF StreamInv
    <3>4. /\ version' = script[i].version /\ version' \in Versions /\ pc' = "header"
          /\ UNCHANGED <<start, fields>>
      BY <1>3, <3>3 DEF ReadRequestLine, Versions
    <3>5. Before(i)' = Before(i) /\ Before(i) \in Nat
      <4>1. i \in 1..Len(script) + 1
        BY <1>0, <3>2, Messages DEF StreamInv
      <4> QED BY <1>0, <4>1, Rigid, Offsets DEF StreamInv
    <3>6. fields' \in Seq(Field) /\ Len(fields') = 0
      BY <3>1, <3>4, EmptySeq
    <3>7. Len(script[i].fields) \in Nat
      BY <1>0, <3>2, Messages DEF StreamInv
    <3>8. ReadSoFar(i)'
      BY <1>0, <3>1, <3>2, <3>4, <3>5, <3>6, <3>7, SizeAssumption DEF ReadSoFar
    <3> QED BY <1>1, <3>1, <3>4, <3>5, <3>6, <3>8 DEF Place, WritePcs
  <2> QED BY <1>0, <1>1, <2>1, <2>2, <2>3, Framed
<1> QED BY <1>2, <1>3

\* In the header section the reader is at line Len(fields) + 2 of the message.
LEMMA HeaderUnit ==
  ASSUME StreamInv, NEW i \in Nat \ {0}, Place(i), pc = "header"
  PROVE  LET m == script[i]
             n == Len(fields)
             u == Unit(pos + 1)
         IN /\ i \in 1..Len(script) /\ n \in Nat /\ Len(m.fields) \in Nat /\ n <= Len(m.fields)
            /\ m \in Message /\ Before(i) \in Nat
            /\ n < Len(m.fields) => u = [kind |-> "field", field |-> m.fields[n + 1]]
            /\ n = Len(m.fields) => u = [kind |-> "blank"]
<1> DEFINE m == script[i]
           n == Len(fields)
<1>1. ReadSoFar(i) /\ pos = Before(i) + 1 + n
  BY DEF Place
<1>2. i \in 1..Len(script) /\ Len(script) \in Nat
  BY <1>1, Messages DEF ReadSoFar, StreamInv
<1>3. /\ m \in Message /\ m.body \in Nat /\ Len(m.fields) \in Nat
      /\ n \in Nat /\ n <= Len(m.fields)
  BY <1>1, <1>2, Messages, LenProperties DEF ReadSoFar, StreamInv
<1>4. Before(i) \in Nat
  BY <1>2, Offsets DEF StreamInv
<1>5. n + 2 \in 1..Size(m) /\ pos + 1 = Before(i) + (n + 2)
  <2>1. PICK f \in Nat, b \in Nat : f = Len(m.fields) /\ b = m.body
    BY <1>3
  <2>2. Size(m) = 2 + f + b
    BY <2>1 DEF Size
  <2>3. n \in Nat /\ n <= f
    BY <1>3, <2>1
  <2> HIDE DEF n, m
  <2>4. n + 2 \in 1..Size(m)
    BY <2>2, <2>3
  <2>5. pos + 1 = Before(i) + (n + 2)
    BY <1>1, <1>4, <2>3
  <2> QED
    BY <2>4, <2>5
<1> HIDE DEF n
<1>6. PICK k \in 1..Size(m) : k = n + 2 /\ pos + 1 = Before(i) + k
  BY <1>5
<1>7. /\ k \in 2..Len(m.fields) + 1 =>
           Unit(pos + 1) = [kind |-> "field", field |-> m.fields[k - 1]]
      /\ k = Len(m.fields) + 2 => Unit(pos + 1) = [kind |-> "blank"]
  BY <1>2, <1>6, UnitAt DEF StreamInv
<1>8. /\ k - 1 = n + 1 /\ (n < Len(m.fields) => k \in 2..Len(m.fields) + 1)
      /\ n = Len(m.fields) => k = Len(m.fields) + 2
  BY <1>3, <1>6
<1> QED BY <1>2, <1>3, <1>4, <1>7, <1>8 DEF n

\* A field line is the next line of the message, and is kept if it is valid.
LEMMA FieldStep ==
  ASSUME FrameInv, ConnInv, ReadField, UNCHANGED envVars
  PROVE  FrameInv'
<1>0. /\ UNCHANGED script /\ pc = "header" /\ Buffered /\ Consume /\ StreamInv
      /\ Unit(pos + 1).kind = "field"
  BY DEF ReadField, envVars, FrameInv
<1>1. StreamInv' /\ pos' = pos + 1 /\ pos' <= filled /\ UNCHANGED filled
  BY <1>0, StreamConsumed
<1>2. CASE Fail("parse")
  BY <1>0, <1>1, <1>2, FailPlace
<1>3. CASE ~Fail("parse")
  <2>1. PICK i \in Nat \ {0} : i = Len(delivered) + 1
    BY Current
  <2>2. /\ UNCHANGED <<delivered, pc, start, version>>
        /\ ~tooManyHeaders /\ validField(Unit(pos + 1).field)
        /\ fields' = Append(fields, Unit(pos + 1).field)
    BY <1>3 DEF ReadField
  <2>3. ASSUME Honest(i), Place(i) PROVE Place(i)'
    <3>1. PICK n \in Nat : n = Len(fields)
      BY <1>0, <2>3, HeaderUnit
    <3>2. ReadSoFar(i) /\ pos = Before(i) + 1 + n
      BY <1>0, <2>3, <3>1 DEF Place
    <3>3. /\ i \in 1..Len(script) /\ Len(script[i].fields) \in Nat /\ n <= Len(script[i].fields)
          /\ script[i] \in Message /\ Before(i) \in Nat
          /\ n < Len(script[i].fields) =>
               Unit(pos + 1) = [kind |-> "field", field |-> script[i].fields[n + 1]]
          /\ n = Len(script[i].fields) => Unit(pos + 1) = [kind |-> "blank"]
      BY <1>0, <2>3, <3>1, HeaderUnit
    <3>4. n < Len(script[i].fields) /\ Unit(pos + 1).field = script[i].fields[n + 1]
      BY <1>0, <3>3
    <3>5. script[i].fields[n + 1] \in Field
      <4>1. script[i].fields \in Seq(Field) /\ n + 1 \in 1..Len(script[i].fields)
        BY <3>3, <3>4 DEF Message
      <4> QED BY <4>1, ElementOfSeq
    <3>6. /\ fields' \in Seq(Field) /\ Len(fields') = n + 1
          /\ \A k \in 1..n : fields'[k] = fields[k]
          /\ fields'[n + 1] = script[i].fields[n + 1]
      BY <2>2, <3>1, <3>2, <3>4, <3>5, AppendProperties DEF ReadSoFar
    <3>7. ASSUME NEW k \in 1..n + 1
          PROVE  fields'[k] = script[i].fields[k] /\ validField(fields'[k])
      <4>1. CASE k \in 1..n
        BY <3>1, <3>2, <3>6, <4>1 DEF ReadSoFar
      <4>2. CASE k = n + 1
        BY <2>2, <3>4, <3>6, <4>2
      <4> QED BY <4>1, <4>2
    <3>8. n + 1 <= MaxHeaders
      BY <2>2, <3>1, SizeAssumption DEF tooManyHeaders
    <3>9. Before(i)' = Before(i)
      BY <1>0, Rigid
    <3>10. ReadSoFar(i)'
      BY <1>0, <2>2, <3>2, <3>3, <3>4, <3>6, <3>7, <3>8, <3>9 DEF ReadSoFar
    <3> QED BY <1>0, <1>1, <2>2, <3>2, <3>3, <3>6, <3>9, <3>10 DEF Place, WritePcs
  <2> QED BY <1>0, <1>1, <2>1, <2>2, <2>3, Framed
<1> QED BY <1>2, <1>3

\* The empty line is the end of the message's header section.
LEMMA BlankStep ==
  ASSUME FrameInv, ConnInv, ReadBlank, UNCHANGED envVars
  PROVE  FrameInv'
<1>0. /\ UNCHANGED script /\ pc = "header" /\ Buffered /\ Consume /\ StreamInv
      /\ Unit(pos + 1).kind = "blank"
  BY DEF ReadBlank, envVars, FrameInv
<1>1. StreamInv' /\ pos' = pos + 1 /\ pos' <= filled /\ UNCHANGED filled
  BY <1>0, StreamConsumed
<1>2. ASSUME NEW e, Fail(e) PROVE FrameInv'
  BY <1>0, <1>1, <1>2, FailPlace
<1>3. ASSUME headerError(version, fields) = "none", remaining' = Length(fields),
             pc' = IF remaining' > 0 THEN "body" ELSE "app",
             UNCHANGED <<delivered, start, version, fields>>
      PROVE  FrameInv'
  <2>1. PICK i \in Nat \ {0} : i = Len(delivered) + 1
    BY Current
  <2>2. ASSUME Honest(i), Place(i) PROVE Place(i)'
    <3>1. PICK n \in Nat : n = Len(fields)
      BY <1>0, <2>2, HeaderUnit
    <3>2. ReadSoFar(i) /\ pos = Before(i) + 1 + n
      BY <1>0, <2>2, <3>1 DEF Place
    <3>3. /\ i \in 1..Len(script) /\ Len(script[i].fields) \in Nat /\ n <= Len(script[i].fields)
          /\ script[i] \in Message /\ Before(i) \in Nat
          /\ n < Len(script[i].fields) =>
               Unit(pos + 1) = [kind |-> "field", field |-> script[i].fields[n + 1]]
      BY <1>0, <2>2, <3>1, HeaderUnit
    <3>4. n = Len(script[i].fields)
      BY <1>0, <3>1, <3>3
    <3>5. fields = script[i].fields
      <4>1. script[i].fields \in Seq(Field) /\ fields \in Seq(Field)
        BY <3>2, <3>3 DEF Message, ReadSoFar
      <4> QED BY <3>1, <3>2, <3>4, <4>1, SeqEqual DEF ReadSoFar
    <3>6. Length(fields) \in Nat
      BY <1>3, <3>2, <3>3, <3>5, HeaderAccepted, SizeAssumption DEF ReadSoFar
    <3>7. Before(i)' = Before(i)
      BY <1>0, Rigid
    <3>8. ReadSoFar(i)' /\ Accepted(i)'
      BY <1>0, <1>3, <3>2, <3>5, <3>7 DEF ReadSoFar, Accepted
    <3>9. Length(fields)' = Length(fields)
      BY <1>3 DEF Length
    <3>10. pos' = Before(i)' + 2 + Len(fields') + 0
      BY <1>1, <1>3, <3>1, <3>2, <3>3, <3>7
    <3>11. CASE Length(fields) > 0
      <4>1. pc' = "body" /\ remaining' \in 1..Length(fields)
        BY <1>3, <3>6, <3>11
      <4>2. pos' = Before(i)' + 2 + Len(fields') + Length(fields)' - remaining'
        BY <1>3, <3>1, <3>3, <3>6, <3>7, <3>9, <3>10
      <4> QED BY <3>8, <3>9, <4>1, <4>2 DEF Place, WritePcs
    <3>12. CASE ~(Length(fields) > 0)
      <4>1. pc' = "app" /\ Length(fields) = 0
        BY <1>3, <3>6, <3>12
      <4> QED BY <3>8, <3>9, <3>10, <4>1 DEF Place, WritePcs
    <3> QED BY <3>11, <3>12
  <2> QED BY <1>0, <1>1, <1>3, <2>1, <2>2, Framed
<1>4. \/ Fail(headerError(version, fields))
      \/ /\ headerError(version, fields) = "none" /\ remaining' = Length(fields)
         /\ pc' = IF remaining' > 0 THEN "body" ELSE "app"
         /\ UNCHANGED <<delivered, start, version, fields>>
  BY DEF ReadBlank, Length
<1> QED BY <1>2, <1>3, <1>4

\* One byte of the announced body.
LEMMA BodyStep ==
  ASSUME FrameInv, ConnInv, ReadBody, UNCHANGED envVars
  PROVE  FrameInv'
<1>0. /\ UNCHANGED <<script, delivered, start, version, fields>>
      /\ pc = "body" /\ Buffered /\ Consume /\ StreamInv
      /\ remaining' = remaining - 1 /\ pc' = IF remaining' = 0 THEN "app" ELSE "body"
  BY DEF ReadBody, envVars, FrameInv
<1>1. StreamInv' /\ pos' = pos + 1 /\ pos' <= filled /\ UNCHANGED filled
  BY <1>0, StreamConsumed
<1>2. PICK i \in Nat \ {0} : i = Len(delivered) + 1
  BY Current
<1>3. ASSUME Honest(i), Place(i) PROVE Place(i)'
  <2>1. /\ ReadSoFar(i) /\ Accepted(i) /\ remaining \in 1..Length(fields)
        /\ pos = Before(i) + 2 + Len(fields) + Length(fields) - remaining
    BY <1>0, <1>3 DEF Place
  <2>2. Before(i)' = Before(i) /\ Length(fields)' = Length(fields)
    BY <1>0, Rigid DEF Length
  <2>3. ReadSoFar(i)' /\ Accepted(i)'
    BY <1>0, <2>1, <2>2 DEF ReadSoFar, Accepted
  <2>4. i \in 1..Len(script) /\ Len(script) \in Nat
    BY <1>0, <2>1, Messages DEF ReadSoFar, StreamInv
  <2>5. Before(i) \in Nat
    BY <1>0, <2>4, Offsets DEF StreamInv
  <2>6. script[i] \in Message /\ Len(fields) \in Nat
    BY <1>0, <2>1, <2>4, Messages, LenProperties DEF ReadSoFar, StreamInv
  <2>7. Length(fields) \in Nat
    BY <2>1, <2>6, HeaderAccepted, SizeAssumption DEF ReadSoFar, Accepted
  <2>8. pos' = Before(i)' + 2 + Len(fields') + Length(fields)' - remaining'
    BY <1>0, <1>1, <2>1, <2>2, <2>5, <2>6, <2>7
  <2>9. CASE remaining = 1
    <3>1. pc' = "app" /\ remaining' = 0
      BY <1>0, <2>9
    <3>2. pos' = Before(i)' + 2 + Len(fields') + Length(fields)'
      BY <1>0, <2>2, <2>5, <2>6, <2>7, <2>8, <3>1
    <3> QED BY <2>3, <3>1, <3>2 DEF Place, WritePcs
  <2>10. CASE remaining # 1
    <3>1. pc' = "body" /\ remaining' \in 1..Length(fields)
      BY <1>0, <2>1, <2>7, <2>10
    <3> QED BY <2>2, <2>3, <2>8, <3>1 DEF Place, WritePcs
  <2> QED BY <2>9, <2>10
<1> QED BY <1>0, <1>1, <1>2, <1>3, Framed
\* The end of a message, counted from its beginning.
LEMMA EndOf ==
  ASSUME NEW b \in Nat, NEW l \in Nat, NEW n \in Nat
  PROVE  (b + 2 + l + n) - b - l - 2 = n /\ b + 2 + l + n = b + (l + 2 + n)
  OBVIOUS

\* What is handed to the application is message i, and if its body is as long as
\* it says, message i + 1 comes next.
LEMMA DeliverStep ==
  ASSUME FrameInv, ConnInv, ConnInv', NEW r \in Responses, App(r), UNCHANGED envVars
  PROVE  FrameInv'
<1>0. UNCHANGED <<script, pos, filled>> /\ pc = "app" /\ pc' = "writeDeadline" /\ StreamInv
  BY DEF App, envVars, inVars, FrameInv
<1>1. PICK i \in Nat \ {0} : i = Len(delivered) + 1
  BY Current
<1>2. PICK d : /\ delivered' = Append(delivered, d)
               /\ d.from = start /\ d.to = pos /\ d.version = version /\ d.fields = fields
  BY DEF App
<1>3. /\ Len(delivered) \in Nat /\ Len(delivered') = i
      /\ \A j \in 1..i - 1 : delivered'[j] = delivered[j]
      /\ delivered'[i] = d
  BY <1>1, <1>2, SeqAppend DEF ConnInv, ConnTypeOK
<1>4. \A j \in Nat \ {0} : Before(j)' = Before(j)
  BY <1>0, Rigid
<1>5. StreamInv'
  <2>1. Total' = Total
    BY <1>0, <1>4, Messages DEF Total, StreamInv
  <2> QED BY <1>0, <2>1 DEF StreamInv
<1>6. ASSUME Honest(i)
      PROVE  LET m == script[i] IN
             /\ i <= Len(script) /\ WellFormed(m)
             /\ start = Before(i) /\ version = m.version /\ fields = m.fields
             /\ pos - start - Len(m.fields) - 2 = Length(m.fields)
             /\ Says(m, Length(m.fields)) /\ Length(m.fields) \in Nat
             /\ pos = Before(i) + 2 + Len(m.fields) + Length(m.fields)
             /\ Before(i) \in Nat
  <2>1. /\ ReadSoFar(i) /\ Accepted(i)
        /\ pos = Before(i) + 2 + Len(fields) + Length(fields)
    BY <1>0, <1>1, <1>6 DEF FrameInv, Place
  <2>2. i \in 1..Len(script) /\ Len(script) \in Nat
    BY <1>0, <2>1, Messages DEF ReadSoFar, StreamInv
  <2>3. script[i] \in Message /\ Before(i) \in Nat /\ Len(script[i].fields) \in Nat
    BY <1>0, <2>2, Messages, Offsets DEF StreamInv
  <2>4. /\ WellFormed(script[i]) /\ Length(script[i].fields) \in 0..MaxBody
        /\ Says(script[i], Length(script[i].fields))
    BY <2>1, <2>3, HeaderAccepted DEF ReadSoFar, Accepted
  <2>5. Length(script[i].fields) \in Nat
    BY <2>4, SizeAssumption
  <2>6. start = Before(i) /\ version = script[i].version /\ fields = script[i].fields
    BY <2>1 DEF ReadSoFar, Accepted
  <2>7. pos = Before(i) + 2 + Len(script[i].fields) + Length(script[i].fields)
    BY <2>1, <2>6
  <2>8. pos - start - Len(script[i].fields) - 2 = Length(script[i].fields)
    BY <2>3, <2>5, <2>6, <2>7, EndOf
  <2> QED BY <2>2, <2>3, <2>4, <2>5, <2>6, <2>7, <2>8
<1>7. Framing'
  <2>1. ASSUME NEW j \in 1..i,
               \A h \in 1..j - 1 : h <= Len(script) /\ Says(script[h], script[h].body)
        PROVE  LET e == delivered'[j]
                   m == script[j]
               IN /\ j <= Len(script) /\ WellFormed(m)
                  /\ e.from = Before(j) /\ Says(m, e.to - e.from - Len(m.fields) - 2)
                  /\ e.version = m.version /\ e.fields = m.fields
    <3>1. CASE j \in 1..i - 1
      <4>1. j \in 1..Len(delivered) /\ delivered'[j] = delivered[j]
        BY <1>1, <1>3, <3>1
      <4> QED BY <2>1, <4>1 DEF FrameInv, Framing
    <3>2. CASE j = i
      <4>1. Honest(i)
        BY <2>1, <3>2 DEF Honest
      <4>2. /\ delivered'[j].from = start /\ delivered'[j].to = pos
            /\ delivered'[j].version = version /\ delivered'[j].fields = fields
        BY <1>2, <1>3, <3>2
      <4> QED BY <1>6, <3>2, <4>1, <4>2
    <3> QED BY <3>1, <3>2
  <2> QED BY <1>0, <1>3, <1>4, <2>1 DEF Framing
<1>8. ASSUME Honest(i + 1) PROVE pos = Before(i + 1)
  <2>1. Honest(i) /\ i <= Len(script) /\ Says(script[i], script[i].body)
    BY <1>8 DEF Honest
  <2>2. /\ pos = Before(i) + 2 + Len(script[i].fields) + Length(script[i].fields)
        /\ Length(script[i].fields) = script[i].body /\ Before(i) \in Nat
    BY <1>6, <2>1, SaysOne
  <2>3. i \in 1..Len(script)
    BY <1>0, <2>1, Messages DEF StreamInv
  <2>4. script[i].body \in Nat /\ Len(script[i].fields) \in Nat
    BY <1>0, <2>3, Messages DEF StreamInv
  <2>5. Before(i + 1) = Before(i) + Size(script[i])
    BY BeforeStep
  <2>6. Size(script[i]) = Len(script[i].fields) + 2 + script[i].body
    BY DEF Size
  <2>7. pos = Before(i) + 2 + Len(script[i].fields) + script[i].body /\ Before(i) \in Nat
    BY <2>2
  <2>8. pos = Before(i) + (Len(script[i].fields) + 2 + script[i].body)
    BY <2>4, <2>7, EndOf
  <2> QED BY <2>5, <2>6, <2>8
<1>9. Honest(Len(delivered) + 1)' => Place(Len(delivered) + 1)'
  <2>1. Honest(i + 1)' => Honest(i + 1)
    BY <1>0 DEF Honest
  <2>2. Honest(i + 1)' => Place(i + 1)'
    BY <1>0, <1>4, <1>8, <2>1 DEF Place, WritePcs
  <2> QED BY <1>3, <2>2 DEF Honest, Place, ReadSoFar, Accepted
<1> QED BY <1>5, <1>7, <1>9 DEF FrameInv

\* Writing the response moves nothing in the stream; the loop goes on only after
\* a response that did not announce a close.
LEMMA WriteStep ==
  ASSUME FrameInv, ConnInv, UNCHANGED <<script, pos, filled, delivered, close>>,
         pc \in WritePcs,
         pc' \in WritePcs \cup {"returned"} \/ (pc' = "readDeadline" /\ ~close)
  PROVE  FrameInv'
<1>1. PICK i \in Nat \ {0} : i = Len(delivered) + 1
  BY Current
<1>2. Before(i)' = Before(i) /\ Total' = Total
  BY Rigid, Messages DEF Total, FrameInv, StreamInv
<1>3. StreamInv'
  BY <1>2 DEF FrameInv, StreamInv
<1>4. Place(i) => Place(i)'
  BY <1>2 DEF Place, WritePcs
<1> QED BY <1>1, <1>3, <1>4, Framed

\* Nothing of the reader changes but the buffer.
LEMMA Elsewhere ==
  ASSUME FrameInv, ConnInv, filled' \in Nat, pos <= filled', filled' <= Total,
         UNCHANGED <<script, pc, pos, start, version, fields, remaining, close, delivered>>
  PROVE  FrameInv'
<1>1. PICK i \in Nat \ {0} : i = Len(delivered) + 1
  BY Current
<1>2. Total' = Total
  BY Rigid, Messages DEF Total, FrameInv, StreamInv
<1>3. StreamInv'
  BY <1>2 DEF FrameInv, StreamInv
<1>4. Place(i) => Place(i)'
  BY PlaceSame
<1> QED BY <1>1, <1>3, <1>4, Framed

\* A new request begins where the last one ended.
LEMMA StartStep ==
  ASSUME FrameInv, ConnInv, SetReadDeadline, UNCHANGED envVars
  PROVE  FrameInv'
<1>0. /\ UNCHANGED <<script, pos, filled, delivered, close>> /\ pc = "readDeadline"
      /\ pc' \in {"line", "returned"} /\ start' = pos /\ fields' = <<>>
  BY DEF SetReadDeadline, envVars, inVars, resVars
<1>1. PICK i \in Nat \ {0} : i = Len(delivered) + 1
  BY Current
<1>2. Before(i)' = Before(i) /\ Total' = Total
  BY <1>0, Rigid, Messages DEF Total, FrameInv, StreamInv
<1>3. StreamInv'
  BY <1>0, <1>2 DEF FrameInv, StreamInv
<1>4. Place(i) => Place(i)'
  BY <1>0, <1>2 DEF Place, WritePcs
<1> QED BY <1>0, <1>1, <1>3, <1>4, Framed

\* Every step keeps the reader in its place.
LEMMA FrameNext == ASSUME FrameInv, ConnInv, ConnInv', [Next]_vars PROVE FrameInv'
<1>0. pos \in Nat /\ filled \in Nat /\ pos <= filled /\ filled <= Total /\ Total \in Nat
  BY TotalIsNat DEF FrameInv, StreamInv
<1>1. CASE Env
  BY <1>0, <1>1, Elsewhere DEF Env, inVars, reqVars, resVars
<1>2. CASE UNCHANGED vars
  BY <1>0, <1>2, Elsewhere DEF vars, inVars, envVars, reqVars, resVars
<1>3. CASE Read /\ UNCHANGED envVars
  <2>1. ASSUME NEW n \in 1..Total, Fill(n) PROVE FrameInv'
    <3>1. filled' \in Nat /\ pos <= filled' /\ filled' <= Total
      BY <1>0, <2>1 DEF Fill
    <3> QED BY <1>3, <2>1, <3>1, Elsewhere DEF Fill, reqVars, resVars, envVars
  <2>2. ASSUME NEW err, ReadFails(err) PROVE FrameInv'
    BY <1>0, <1>3, <2>2, FailPlace DEF ReadFails, inVars, envVars
  <2> QED BY <1>3, <2>1, <2>2, LineStep, FieldStep, BlankStep, BodyStep DEF Read
<1>4. CASE (SetWriteDeadline \/ Refused \/ Write) /\ UNCHANGED envVars
  <2>1. UNCHANGED <<script, pos, filled, delivered, close>>
    BY <1>4 DEF SetWriteDeadline, Refused, Write, WriteHead, WriteBody, BodyFails, BodyDone,
                WriteFails, inVars, resVars, envVars
  <2>2. /\ pc \in WritePcs
        /\ pc' \in WritePcs \cup {"returned"} \/ (pc' = "readDeadline" /\ ~close)
    BY <1>4 DEF SetWriteDeadline, Refused, Write, WriteHead, WriteBody, BodyFails, BodyDone,
                WriteFails, WritePcs, finish
  <2> QED BY <2>1, <2>2, WriteStep
<1> QED BY <1>1, <1>2, <1>3, <1>4, StartStep, DeliverStep DEF Next, ServeConn, Returned

\* A new connection is read from the start of the first message.
LEMMA FrameInit == Init => FrameInv
<1> SUFFICES ASSUME Init PROVE FrameInv
  OBVIOUS
<1>1. Len(delivered) = 0
  BY EmptySeq DEF Init
<1>2. StreamInv
  <2>1. script \in Scripts /\ pos = 0 /\ filled = 0
    BY DEF Init
  <2>2. Total \in Nat
    BY <2>1, TotalIsNat
  <2> QED BY <2>1, <2>2 DEF StreamInv
<1>3. Framing
  BY <1>1 DEF Framing
<1>4. Place(1)
  BY BeforeStep DEF Init, Place, WritePcs
<1> QED BY <1>1, <1>2, <1>3, <1>4 DEF FrameInv

\* Requests are framed as the client framed them: ReadRequest neither skips,
\* repeats, merges nor splits the messages of a pipelining client, however the
\* stream is cut into reads, and hands only well formed ones to the application.
THEOREM FramingIsExact == Spec => []Framing
<1>1. FrameInv => Framing
  BY DEF FrameInv
<1> QED BY <1>1, FrameInit, FrameNext, ConnInvariance, PTL DEF Spec
=============================================================================
