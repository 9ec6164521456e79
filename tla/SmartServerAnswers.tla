------------------------- MODULE SmartServerAnswers --------------------------
(***************************************************************************)
(* That what SmartServer answers is true, for every number of clients,     *)
(* recorded files, sessions and images: AnswerTruthful.                    *)
(*                                                                         *)
(* The argument follows a job from the client to the database: it is on    *)
(* its way once at most (AskedOnce); until its statements take effect no   *)
(* row of it is stored (AheadUntouched), whatever fails before             *)
(* (RollbackUndoes); a deletion is asked for only when that is over        *)
(* (DeleteAfterStore); and the code a handler has decided on is true when  *)
(* it is sent (AboutToTell) and stays so.                                  *)
(***************************************************************************)
EXTENDS SmartServerProofs

Queued(job) ==
  \E c \in Clients : \E i \in 1..Len(inbox[c]) : inbox[c][i].job = job

OnceInInbox ==
  \A c, d \in Clients :
    \A i \in 1..Len(inbox[c]), k \in 1..Len(inbox[d]) :
      inbox[c][i].job = inbox[d][k].job /\ inbox[c][i].job # Login =>
        c = d /\ i = k

AskedOnce ==
  /\ OnceInInbox
  /\ \A j \in Jobs : Queued(j) =>
       j \in sent /\ answer[j] = Unanswered /\ request.job # j
  /\ \A j \in Jobs : j \notin sent =>
       answer[j] = Unanswered /\ request.job # j
  /\ request.job # Login =>
       request.job \in sent /\ answer[request.job] = Unanswered

\* The upload has yet to take effect.
Storing == {"video"} \cup SessionSteps
Ahead(job) ==
  \/ job \notin sent
  \/ Queued(job)
  \/ request.job = job /\ pc \in Storing

Untouched(job) == RowsOf(job) \cap committed = {}

AheadUntouched == \A j \in Uploads : Ahead(j) => Untouched(j)

DeleteAfterStore ==
  \A s \in Sessions : <<"delete", s>> \in sent => ~Ahead(<<"session", s>>)

RollbackUndoes ==
  pc = "rollback" =>
    /\ request.job \in {"session"} \X Sessions
    /\ code \in {3002, 3003, 3004, 3005}
    /\ code # 3005 => Untouched(request.job)

\* What AnswerTruthful says of a job and the code it is answered with.
Truthful(j, a) ==
  /\ j[1] = "video" /\ a = 0 => RowsOf(j) \subseteq committed
  /\ j[1] = "session" /\ a = 0 =>
       RowsOf(j) \ committed \subseteq
         IF <<"delete", j[2]>> \in sent THEN ImageRows(j[2]) ELSE {}
  /\ j[1] = "session" /\ a \in {401, 3001, 3002, 3003, 3004} => Untouched(j)
  /\ j[1] = "delete" /\ a = 0 => Untouched(j)

AboutToTell ==
  pc = "send" /\ request.job # Login => Truthful(request.job, code)

\* A handler of one statement is at work on a job of its own kind.
KindOfCall ==
  pc \in {"login", "video", "delete", "query"} => request.job[1] = pc

\* The inductive invariant.
AInv ==
  /\ IInv
  /\ KindOfCall
  /\ AskedOnce
  /\ AheadUntouched
  /\ DeleteAfterStore
  /\ RollbackUndoes
  /\ AboutToTell
  /\ AnswerTruthful
-----------------------------------------------------------------------------
(***************************************************************************)
(* Jobs and rows.                                                          *)
(***************************************************************************)
LEMMA JobForms ==
  ASSUME NEW j \in Jobs
  PROVE  /\ j # Login
         /\ \/ j \in {"video"} \X Videos /\ j[1] = "video"
            \/ j \in {"session"} \X Sessions /\ j[1] = "session"
            \/ j \in {"delete"} \X Sessions /\ j[1] = "delete"
            \/ j \in {"query"} \X Queries /\ j[1] = "query"
<1>1. Login[1] = "login"
  BY DEF Login
<1> QED
  BY <1>1 DEF Jobs, Uploads

\* What the request being served asks for.
LEMMA RequestJob == IInv => request.job \in Jobs \cup {Login}
<1>1. IInv => request \in Requests
  BY TypeParts DEF IInv, TypeNet
<1> QED
  BY <1>1 DEF Requests

\* Every row is named after the file or session of its job.
LEMMA RowNames ==
  /\ \A j \in Jobs : \A r \in RowsOf(j) : r[2] = j[2]
  /\ \A s : \A r \in ImageRows(s) : r[2] = s /\ r[1] = "feature_image"
<1>1. ASSUME NEW s, NEW r \in ImageRows(s)
      PROVE  r[2] = s /\ r[1] = "feature_image"
  BY DEF ImageRows
<1>2. ASSUME NEW j \in Jobs, NEW r \in RowsOf(j) PROVE r[2] = j[2]
  BY <1>1, JobForms DEF RowsOf
<1> QED
  BY <1>1, <1>2

\* Two uploads never share a row, as files and sessions have different names.
LEMMA RowsApart ==
  /\ \A j, k \in Uploads : j # k => RowsOf(j) \cap RowsOf(k) = {}
  /\ \A j \in Uploads, s \in Sessions :
       j # <<"session", s>> => RowsOf(j) \cap ImageRows(s) = {}
<1>1. Uploads \subseteq Jobs
  BY DEF Jobs
<1>2. ASSUME NEW j \in Uploads, NEW k \in Uploads, j # k PROVE j[2] # k[2]
  BY <1>2, NamesAssumption DEF Uploads
<1>3. ASSUME NEW j \in Uploads, NEW s \in Sessions, j # <<"session", s>>
      PROVE  j[2] # s
  BY <1>3, NamesAssumption DEF Uploads
<1> QED
  BY <1>1, <1>2, <1>3, RowNames

\* The rows of the kinds of jobs.
LEMMA RowsForms ==
  /\ \A j \in {"video"} \X Videos :
       \A r \in RowsOf(j) : r[1] = "video"
  /\ \A s \in Sessions : RowsOf(<<"delete", s>>) = ImageRows(s)
  /\ \A s \in Sessions : ImageRows(s) \subseteq RowsOf(<<"session", s>>)
BY DEF RowsOf
-----------------------------------------------------------------------------
\* The invariant holds at the beginning.
LEMMA InitAInv == Init => AInv
<1> SUFFICES ASSUME Init PROVE AInv
  OBVIOUS
<1>1. IInv
  BY InitIInv
<1>2. /\ \A c \in Clients : inbox[c] = <<>>
      /\ sent = {} /\ committed = {} /\ pc = "down"
      /\ request.job = Login
      /\ \A j \in Jobs : answer[j] = Unanswered
  BY DEF Init, NoRequest
<1>3. ~\E c \in Clients : \E i \in 1..Len(inbox[c]) : TRUE
  BY <1>2
<1>4. AskedOnce
  BY <1>2, <1>3, JobForms DEF AskedOnce, OnceInInbox, Queued
<1>5. /\ KindOfCall /\ AheadUntouched /\ DeleteAfterStore
      /\ RollbackUndoes /\ AboutToTell
  BY <1>2 DEF KindOfCall, AheadUntouched, Untouched, DeleteAfterStore,
              RollbackUndoes, AboutToTell
<1>6. AnswerTruthful
  BY <1>2 DEF AnswerTruthful, Unanswered
<1> QED
  BY <1>1, <1>4, <1>5, <1>6 DEF AInv
-----------------------------------------------------------------------------
(***************************************************************************)
(* Where a job is.                                                         *)
(***************************************************************************)
\* Steps that send nothing and receive nothing: requests may be lost with
\* their connection, and the one at work be done with.
Calm ==
  /\ \A c \in Clients : inbox'[c] = inbox[c] \/ Len(inbox'[c]) = 0
  /\ sent' = sent
  /\ \/ /\ request' = request
        /\ answer' = answer
        /\ pc' \in Storing => pc \in Storing
     \/ /\ request'.job = Login
        /\ \A j \in Jobs : j # request.job => answer'[j] = answer[j]

\* A step that neither sends, takes nor answers a request.
LEMMA CalmAsked ==
  ASSUME IInv, AskedOnce, Calm
  PROVE  AskedOnce' /\ \A j \in Jobs : Ahead(j)' => Ahead(j)
<1>1. ASSUME NEW c \in Clients, NEW i \in 1..Len(inbox'[c])
      PROVE  i \in 1..Len(inbox[c]) /\ inbox'[c][i] = inbox[c][i]
  BY <1>1 DEF Calm
<1>2. \A j \in Jobs : Queued(j)' => Queued(j)
  BY <1>1 DEF Queued
<1>3. OnceInInbox'
  <2>1. SUFFICES ASSUME NEW c \in Clients, NEW d \in Clients,
                        NEW i \in 1..Len(inbox'[c]),
                        NEW k \in 1..Len(inbox'[d]),
                        inbox'[c][i].job = inbox'[d][k].job,
                        inbox'[c][i].job # Login
                 PROVE  c = d /\ i = k
    BY DEF OnceInInbox
  <2>2. /\ i \in 1..Len(inbox[c]) /\ inbox'[c][i] = inbox[c][i]
        /\ k \in 1..Len(inbox[d]) /\ inbox'[d][k] = inbox[d][k]
    BY <1>1
  <2> QED
    BY <2>1, <2>2 DEF AskedOnce, OnceInInbox
<1>4. \A j \in Jobs : request'.job = j => request' = request /\ request.job = j
  BY JobForms DEF Calm
<1>5. \A j \in Jobs : answer'[j] = answer[j] \/ j = request.job
  BY DEF Calm
<1>6. \A j \in Jobs : Queued(j)' =>
        j \in sent' /\ answer'[j] = Unanswered /\ request'.job # j
  BY <1>2, <1>4, <1>5 DEF AskedOnce, Calm
<1>7. \A j \in Jobs : j \notin sent' =>
        answer'[j] = Unanswered /\ request'.job # j
  BY <1>4, <1>5 DEF AskedOnce, Calm
<1>8. request'.job # Login =>
        request'.job \in sent' /\ answer'[request'.job] = Unanswered
  BY DEF AskedOnce, Calm
<1>9. ASSUME NEW j \in Jobs, Ahead(j)' PROVE Ahead(j)
  BY <1>2, <1>4, <1>9, JobForms DEF Ahead, Calm
<1> QED
  BY <1>3, <1>6, <1>7, <1>8, <1>9 DEF AskedOnce

\* A job is sent that was not sent before.
LEMMA SendAsked ==
  ASSUME IInv, AskedOnce, NEW c \in Clients, NEW job \in Jobs \cup {Login},
         NEW token \in known \cup {NoToken}, SendRequest(c, job, token)
  PROVE  AskedOnce' /\ \A j \in Jobs : Ahead(j)' => Ahead(j)
<1> DEFINE r == [job |-> job, token |-> token]
<1>0. TypeNet /\ TypeData /\ inbox \in [Clients -> Seq(Requests)]
  BY TypeParts DEF IInv, TypeNet
<1>1. r \in Requests /\ r.job = job
  BY <1>0, KnownTokens DEF Requests
<1>2. inbox[c] \in Seq(Requests)
  BY <1>0
<1> HIDE DEF r
<1>3. /\ inbox'[c] = Append(inbox[c], r)
      /\ \A d \in Clients \ {c} : inbox'[d] = inbox[d]
  BY <1>0 DEF SendRequest, r
<1>4. /\ Len(inbox[c]) \in Nat
      /\ Len(inbox'[c]) = Len(inbox[c]) + 1
      /\ \A i \in 1..Len(inbox[c]) : inbox'[c][i] = inbox[c][i]
      /\ inbox'[c][Len(inbox[c]) + 1] = r
  BY <1>1, <1>2, <1>3, AppendProperties, LenProperties
\* What is queued then was queued before, or is the one sent.
<1>5. ASSUME NEW d \in Clients, NEW i \in 1..Len(inbox'[d])
      PROVE  \/ i \in 1..Len(inbox[d]) /\ inbox'[d][i] = inbox[d][i]
             \/ d = c /\ i = Len(inbox[c]) + 1 /\ inbox'[d][i] = r
  BY <1>3, <1>4
<1>6. /\ job \notin sent
      /\ job # Login => sent' = sent \cup {job}
      /\ job = Login => sent' = sent
      /\ answer' = answer /\ request' = request /\ pc' = pc
  BY DEF SendRequest, local
<1>7. \A j \in Jobs : Queued(j)' => Queued(j) \/ j = job
  BY <1>1, <1>5 DEF Queued
<1>8. job \in Jobs => ~Queued(job) /\ answer[job] = Unanswered
                                   /\ request.job # job
  BY <1>6 DEF AskedOnce
<1>9. OnceInInbox'
  <2>1. SUFFICES ASSUME NEW d \in Clients, NEW e \in Clients,
                        NEW i \in 1..Len(inbox'[d]),
                        NEW k \in 1..Len(inbox'[e]),
                        inbox'[d][i].job = inbox'[e][k].job,
                        inbox'[d][i].job # Login
                 PROVE  d = e /\ i = k
    BY DEF OnceInInbox
  <2>2. \A f \in Clients : \A h \in 1..Len(inbox[f]) :
          job \in Jobs => inbox[f][h].job # job
    BY <1>8 DEF Queued
  <2>3. CASE /\ i \in 1..Len(inbox[d]) /\ inbox'[d][i] = inbox[d][i]
             /\ k \in 1..Len(inbox[e]) /\ inbox'[e][k] = inbox[e][k]
    BY <2>1, <2>3 DEF AskedOnce, OnceInInbox
  <2>4. CASE /\ d = c /\ i = Len(inbox[c]) + 1 /\ inbox'[d][i] = r
             /\ e = c /\ k = Len(inbox[c]) + 1 /\ inbox'[e][k] = r
    BY <2>4
  <2>5. CASE inbox'[d][i] = r /\ k \in 1..Len(inbox[e])
                              /\ inbox'[e][k] = inbox[e][k]
    BY <1>1, <2>1, <2>2, <2>5
  <2>6. CASE inbox'[e][k] = r /\ i \in 1..Len(inbox[d])
                              /\ inbox'[d][i] = inbox[d][i]
    BY <1>1, <2>1, <2>2, <2>6
  <2> QED
    BY <1>5, <2>3, <2>4, <2>5, <2>6
<1>10. \A j \in Jobs : j # Login
  BY JobForms
<1>11. \A j \in Jobs : Queued(j)' =>
         j \in sent' /\ answer'[j] = Unanswered /\ request'.job # j
  BY <1>6, <1>7, <1>8, <1>10 DEF AskedOnce
<1>12. \A j \in Jobs : j \notin sent' =>
         answer'[j] = Unanswered /\ request'.job # j
  BY <1>6 DEF AskedOnce
<1>13. request'.job # Login =>
         request'.job \in sent' /\ answer'[request'.job] = Unanswered
  BY <1>6 DEF AskedOnce
<1>14. ASSUME NEW j \in Jobs, Ahead(j)' PROVE Ahead(j)
  BY <1>6, <1>7, <1>14 DEF Ahead
<1> QED
  BY <1>9, <1>11, <1>12, <1>13, <1>14 DEF AskedOnce

\* The job received is in no queue any more.
LEMMA ReceiveAsked ==
  ASSUME IInv, AskedOnce, Receive
  PROVE  /\ AskedOnce'
         /\ \A j \in Jobs : Ahead(j)' => Ahead(j)
         /\ request'.job \in Jobs => Queued(request'.job)
<1>0. /\ TypeNet /\ TypeControl /\ inbox \in [Clients -> Seq(Requests)]
      /\ serving \in Clients /\ request' \in Requests
  BY TypeParts, ReceiveRequest DEF IInv, TypeNet
<1> DEFINE q == inbox[serving]
<1>1. q \in Seq(Requests) /\ q # <<>>
  BY <1>0 DEF Receive
<1>2. /\ Len(q) \in Nat \ {0}
      /\ Head(q) = q[1]
      /\ Len(Tail(q)) = Len(q) - 1
      /\ \A i \in 1..Len(Tail(q)) : Tail(q)[i] = q[i + 1]
  BY <1>1, HeadTailProperties, EmptySeq
<1>3. /\ request' = Head(q)
      /\ inbox'[serving] = Tail(q)
      /\ \A d \in Clients \ {serving} : inbox'[d] = inbox[d]
      /\ answer' = answer /\ sent' = sent
  BY <1>0 DEF Receive
<1> HIDE DEF q
<1>4. request' = inbox[serving][1] /\ 1 \in 1..Len(inbox[serving])
  BY <1>2, <1>3 DEF q
<1>5. request'.job \in Jobs \cup {Login}
  BY <1>0 DEF Requests
<1>6. request'.job \in Jobs => Queued(request'.job)
  BY <1>0, <1>4 DEF Queued
<1>7. ASSUME NEW d \in Clients, NEW i \in 1..Len(inbox'[d])
      PROVE  \E k \in 1..Len(inbox[d]) :
               /\ inbox'[d][i] = inbox[d][k]
               /\ k = IF d = serving THEN i + 1 ELSE i
  <2>1. CASE d = serving
    <3>1. inbox'[d] = Tail(q) /\ inbox[d] = q
      BY <1>3, <2>1 DEF q
    <3>2. i \in 1..Len(Tail(q))
      BY <3>1
    <3>3. inbox'[d][i] = q[i + 1]
      BY <1>2, <3>1, <3>2
    <3>4. i + 1 \in 1..Len(q)
      BY <1>2, <3>2
    <3> QED
      BY <2>1, <3>1, <3>3, <3>4
  <2>2. CASE d # serving
    BY <1>3, <2>2
  <2> QED
    BY <2>1, <2>2
<1>8. OnceInInbox'
  <2>1. SUFFICES ASSUME NEW c \in Clients, NEW d \in Clients,
                        NEW i \in 1..Len(inbox'[c]),
                        NEW k \in 1..Len(inbox'[d]),
                        inbox'[c][i].job = inbox'[d][k].job,
                        inbox'[c][i].job # Login
                 PROVE  c = d /\ i = k
    BY DEF OnceInInbox
  <2>2. PICK i1 \in 1..Len(inbox[c]) :
          /\ inbox'[c][i] = inbox[c][i1]
          /\ i1 = IF c = serving THEN i + 1 ELSE i
    BY <1>7
  <2>3. PICK k1 \in 1..Len(inbox[d]) :
          /\ inbox'[d][k] = inbox[d][k1]
          /\ k1 = IF d = serving THEN k + 1 ELSE k
    BY <1>7
  <2>4. c = d /\ i1 = k1
    BY <2>1, <2>2, <2>3 DEF AskedOnce, OnceInInbox
  <2>5. i \in Int /\ k \in Int
    OBVIOUS
  <2> QED
    BY <2>2, <2>3, <2>4, <2>5
<1>9. ASSUME NEW d \in Clients, NEW i \in 1..Len(inbox'[d]),
             inbox'[d][i].job # Login
      PROVE  inbox'[d][i].job # request'.job
  <2>1. PICK k \in 1..Len(inbox[d]) :
          /\ inbox'[d][i] = inbox[d][k]
          /\ k = IF d = serving THEN i + 1 ELSE i
    BY <1>7
  <2>2. ~(d = serving /\ k = 1)
    BY <2>1
  <2> QED
    BY <1>0, <1>4, <1>9, <2>1, <2>2 DEF AskedOnce, OnceInInbox
<1>10. \A j \in Jobs : Queued(j)' => Queued(j) /\ j # request'.job
  BY <1>7, <1>9, JobForms DEF Queued
<1>11. \A j \in Jobs : Queued(j)' =>
         j \in sent' /\ answer'[j] = Unanswered /\ request'.job # j
  BY <1>3, <1>10 DEF AskedOnce
<1>12. \A j \in Jobs : j \notin sent' =>
         answer'[j] = Unanswered /\ request'.job # j
  BY <1>3, <1>6 DEF AskedOnce
<1>13. request'.job # Login =>
         request'.job \in sent' /\ answer'[request'.job] = Unanswered
  BY <1>3, <1>5, <1>6 DEF AskedOnce
<1>14. ASSUME NEW j \in Jobs, Ahead(j)' PROVE Ahead(j)
  BY <1>3, <1>6, <1>10, <1>14 DEF Ahead
<1> QED
  BY <1>6, <1>8, <1>11, <1>12, <1>13, <1>14 DEF AskedOnce

\* No handler begins again what it has done.
LEMMA HandlerStoring == Handler /\ pc' \in Storing => pc \in SessionSteps
<1> SUFFICES ASSUME Handler, pc' \in Storing PROVE pc \in SessionSteps
  OBVIOUS
<1> QED
  BY DEF Storing, SessionSteps, Handler, HandleLogin, HandleInsertVideo,
         HandleDeleteImages, HandleQuery, Autocommit, StartTransaction,
         InsertException, InsertSessionVideo, InsertImage, Insert, Commit,
         Rollback, Respond

\* Whatever happens, a job is asked once, and one that is over stays over.
LEMMA AskedStep ==
  ASSUME IInv, AskedOnce, [Next]_vars
  PROVE  AskedOnce' /\ \A j \in Jobs : Ahead(j)' => Ahead(j)
<1>0. inbox \in [Clients -> Seq(Requests)]
  BY TypeParts DEF IInv, TypeNet
<1> DEFINE Kept == AskedOnce' /\ \A j \in Jobs : Ahead(j)' => Ahead(j)
<1>1. ASSUME UNCHANGED <<inbox, sent, request, answer, pc>> PROVE Kept
  BY <1>1, CalmAsked DEF Calm
<1>2. ASSUME UNCHANGED <<inbox, sent, request, answer>>, pc' \notin Storing
      PROVE  Kept
  BY <1>2, CalmAsked DEF Calm
<1>3. ASSUME ProcessEnds PROVE Kept
  <2>1. \A c \in Clients : Len(inbox'[c]) = 0
    BY <1>3 DEF ProcessEnds
  <2>2. request'.job = Login /\ answer' = answer /\ sent' = sent
    BY <1>3 DEF ProcessEnds, Forget, NoRequest
  <2> QED
    BY <2>1, <2>2, CalmAsked DEF Calm
<1>4. ASSUME NEW c, inbox' = [inbox EXCEPT ![c] = <<>>]
      PROVE  \A d \in Clients : inbox'[d] = inbox[d] \/ Len(inbox'[d]) = 0
  BY <1>0, <1>4
<1>5. ASSUME Close PROVE Kept
  <2>1. \A c \in Clients : inbox'[c] = inbox[c] \/ Len(inbox'[c]) = 0
    BY <1>4, <1>5 DEF Close
  <2>2. request'.job = Login /\ answer' = answer /\ sent' = sent
    BY <1>5 DEF Close, Forget, NoRequest
  <2> QED
    BY <2>1, <2>2, CalmAsked DEF Calm
<1>6. CASE UNCHANGED vars
  BY <1>1, <1>6 DEF vars, client, local
<1>7. CASE \E c \in Clients : ClientStep(c)
  <2>1. PICK c \in Clients : ClientStep(c)
    BY <1>7
  <2>2. CASE Connect(c)
    BY <1>1, <2>2 DEF Connect, local
  <2>3. CASE Leave(c)
    <3>1. \A d \in Clients : inbox'[d] = inbox[d] \/ Len(inbox'[d]) = 0
      BY <1>4, <2>3 DEF Leave
    <3>2. UNCHANGED <<sent, request, answer, pc>>
      BY <2>3 DEF Leave, local
    <3> QED
      BY <3>1, <3>2, CalmAsked DEF Calm
  <2>4. CASE \E job \in Jobs \cup {Login}, token \in known \cup {NoToken} :
               SendRequest(c, job, token)
    BY <2>4, SendAsked
  <2> QED
    BY <2>1, <2>2, <2>3, <2>4 DEF ClientStep
<1>8. CASE DatabaseGone
  BY <1>1, <1>8 DEF DatabaseGone, client, local
<1>9. CASE StartServer \/ Accept
  BY <1>2, <1>9
     DEF StartServer, Accept, client, Storing, SessionSteps
<1>10. CASE ReceiveEnd
  BY <1>5, <1>10 DEF ReceiveEnd
<1>11. CASE Receive
  BY <1>11, ReceiveAsked
<1>12. CASE Send
  <2>1. UNCHANGED <<inbox, sent>> /\ request'.job = Login
    BY <1>12 DEF Send, Forget, NoRequest
  <2>2. \A j \in Jobs : j # request.job => answer'[j] = answer[j]
    BY <1>12 DEF Send
  <2> QED
    BY <2>1, <2>2, CalmAsked DEF Calm
<1>13. CASE SendToNobody
  <2>1. CASE ProcessEnds \/ Close
    BY <1>3, <1>5, <2>1
  <2>2. CASE Forget /\ UNCHANGED client
    <3>1. UNCHANGED <<inbox, sent, answer>> /\ request'.job = Login
      BY <2>2 DEF client, Forget, NoRequest
    <3> QED
      BY <3>1, CalmAsked DEF Calm
  <2> QED
    BY <1>13, <2>1, <2>2 DEF SendToNobody
<1>14. CASE Handler
  <2>1. UNCHANGED <<inbox, sent, request, answer>>
    BY <1>14, HandlerNet
  <2>2. pc' \in Storing => pc \in Storing
    BY <1>14, HandlerStoring DEF Storing
  <2> QED
    BY <2>1, <2>2, CalmAsked DEF Calm
<1> QED
  BY <1>3, <1>6, <1>7, <1>8, <1>9, <1>10, <1>11, <1>12, <1>13, <1>14
     DEF Next, Undisturbed, Server, Kill, Handler
-----------------------------------------------------------------------------
(***************************************************************************)
(* What is stored while a job waits.                                       *)
(***************************************************************************)
\* A step that changes what everybody sees ends the job's effect.
LEMMA StoreEnds ==
  ASSUME IInv, AskedOnce, [Next]_vars, committed' # committed
  PROVE  /\ pc' \in {"send", "rollback"}
         /\ UNCHANGED <<inbox, sent, answer, request>>
         /\ request.job \in sent /\ ~Queued(request.job)
         /\ \/ /\ request.job \in Uploads
               /\ Ahead(request.job)
               /\ committed' = committed \cup RowsOf(request.job)
            \/ /\ request.job \in {"delete"} \X Sessions
               /\ committed' = committed \ RowsOf(request.job)
<1>1. /\ pc \in {"video", "delete", "commit"}
      /\ \/ /\ request.job \in Uploads
            /\ committed' = committed \cup RowsOf(request.job)
         \/ /\ request.job \in {"delete"} \X Sessions
            /\ committed' = committed \ RowsOf(request.job)
  BY CommittedStep
<1>2. HandleInsertVideo \/ HandleDeleteImages \/ Commit
  <2>1. ~(UNCHANGED vars)
    BY DEF vars, db
  <2>2. ~(\E c \in Clients : ClientStep(c))
    BY DEF ClientStep, Connect, Leave, SendRequest, db
  <2>3. ~DatabaseGone /\ ~Kill
    BY DEF DatabaseGone, Broken, Kill, ProcessEnds
  <2>4. ~\/ StartServer \/ Accept \/ ReceiveEnd \/ Receive \/ Send
         \/ SendToNobody \/ HandleLogin \/ HandleQuery \/ StartTransaction
         \/ InsertException \/ InsertSessionVideo \/ InsertImage \/ Rollback
    BY <1>1 DEF StartServer, Accept, ReceiveEnd, Receive, Send, SendToNobody,
                HandleLogin, HandleQuery, StartTransaction, InsertException,
                InsertSessionVideo, InsertImage, Rollback
  <2> QED
    BY <2>1, <2>2, <2>3, <2>4 DEF Next, Undisturbed, Server
<1>3. pc' \in {"send", "rollback"}
  BY <1>2 DEF HandleInsertVideo, HandleDeleteImages, Autocommit, Commit,
              Respond
<1>4. UNCHANGED <<inbox, sent, answer, request>>
  BY <1>2, HandlerNet DEF Handler
<1>5. request.job \in Jobs
  BY <1>1 DEF Jobs
<1>6. request.job \in sent /\ ~Queued(request.job)
  BY <1>5, JobForms DEF AskedOnce
<1>7. request.job \in Uploads => Ahead(request.job)
  <2>1. pc = "delete" => request.job \notin Uploads
    BY DEF IInv, HandlesItsJob, Uploads
  <2> QED
    BY <1>1, <2>1 DEF Ahead, Storing, SessionSteps
<1> QED
  BY <1>1, <1>3, <1>4, <1>6, <1>7

\* No row of a session or file is stored until its upload takes effect.
LEMMA AheadStep == AInv /\ [Next]_vars => AheadUntouched'
<1> SUFFICES ASSUME AInv, [Next]_vars, NEW j \in Uploads, Ahead(j)'
             PROVE  Untouched(j)'
  BY DEF AheadUntouched
<1>1. j \in Jobs /\ Ahead(j)
  BY AskedStep DEF AInv, Jobs
<1>2. Untouched(j)
  BY <1>1 DEF AInv, AheadUntouched
<1>3. CASE committed' = committed
  BY <1>2, <1>3 DEF Untouched
<1>4. CASE committed' # committed
  <2>1. j # request.job
    BY <1>4, StoreEnds
       DEF AInv, Ahead, Queued, Storing, SessionSteps
  <2>2. CASE /\ request.job \in Uploads
             /\ committed' = committed \cup RowsOf(request.job)
    BY <1>2, <2>1, <2>2, RowsApart DEF Untouched
  <2>3. CASE committed' = committed \ RowsOf(request.job)
    BY <1>2, <2>3 DEF Untouched
  <2> QED
    BY <1>4, <2>2, <2>3, StoreEnds DEF AInv
<1> QED
  BY <1>3, <1>4

\* A job joins those sent only when a client sends it.
LEMMA SentStep ==
  ASSUME IInv, [Next]_vars, NEW j \in Jobs
  PROVE  /\ j \in sent => j \in sent'
         /\ j \notin sent /\ j \in sent' =>
              /\ UNCHANGED <<pc, committed>>
              /\ j[1] = "delete" => RowsOf(j) \cap committed # {}
<1>1. ASSUME UNCHANGED sent
      PROVE  (j \in sent => j \in sent') /\ ~(j \notin sent /\ j \in sent')
  BY <1>1
<1>2. CASE UNCHANGED vars
  BY <1>1, <1>2 DEF vars, client
<1>3. CASE \E c \in Clients : ClientStep(c)
  <2>1. PICK c \in Clients : ClientStep(c)
    BY <1>3
  <2>2. CASE Connect(c) \/ Leave(c)
    BY <1>1, <2>2 DEF Connect, Leave
  <2>3. CASE \E job \in Jobs \cup {Login}, token \in known \cup {NoToken} :
               SendRequest(c, job, token)
    BY <2>3 DEF SendRequest, local, db
  <2> QED
    BY <2>1, <2>2, <2>3 DEF ClientStep
<1>4. CASE \/ DatabaseGone \/ StartServer \/ Accept \/ ReceiveEnd \/ Receive
           \/ Send \/ SendToNobody \/ Kill
  BY <1>1, <1>4
     DEF DatabaseGone, StartServer, Accept, ReceiveEnd, Receive, Send,
         SendToNobody, Kill, ProcessEnds, Close, client
<1>5. CASE Handler
  BY <1>1, <1>5, HandlerNet
<1> QED
  BY <1>2, <1>3, <1>4, <1>5 DEF Next, Undisturbed, Server, Handler

\* The job of a session that is being stored.
LEMMA SessionJob ==
  \A s \in Sessions : /\ <<"session", s>> \in Uploads
                      /\ <<"session", s>> \in Jobs
                      /\ <<"delete", s>> \in Jobs
BY DEF Jobs, Uploads

\* Only images that are stored can be asked to be deleted.
LEMMA DeleteStep == AInv /\ [Next]_vars => DeleteAfterStore'
<1> SUFFICES ASSUME AInv, [Next]_vars, NEW s \in Sessions,
                    <<"delete", s>> \in sent', Ahead(<<"session", s>>)'
             PROVE  FALSE
  BY DEF DeleteAfterStore
<1>1. Ahead(<<"session", s>>)
  BY SessionJob, AskedStep DEF AInv
<1>2. <<"delete", s>> \notin sent
  BY <1>1 DEF AInv, DeleteAfterStore
<1>3. RowsOf(<<"delete", s>>) \cap committed # {}
  BY <1>2, SessionJob, SentStep DEF AInv
<1>4. RowsOf(<<"session", s>>) \cap committed = {}
  BY <1>1, SessionJob DEF AInv, AheadUntouched, Untouched
<1> QED
  BY <1>3, <1>4, RowsForms

\* A handler of one statement starts with the first call of its job.
LEMMA KindStep == IInv /\ KindOfCall /\ [Next]_vars => KindOfCall'
<1> SUFFICES ASSUME IInv, KindOfCall, [Next]_vars PROVE KindOfCall'
  OBVIOUS
<1> USE DEF KindOfCall
<1>1. ASSUME UNCHANGED <<pc, request>> PROVE KindOfCall'
  BY <1>1
<1>2. ASSUME pc' \in {"down", "accept", "recv", "send"} PROVE KindOfCall'
  BY <1>2
<1>3. CASE UNCHANGED vars
  BY <1>1, <1>3 DEF vars, local
<1>4. CASE \E c \in Clients : ClientStep(c)
  BY <1>1, <1>4 DEF ClientStep, Connect, Leave, SendRequest, local
<1>5. CASE DatabaseGone
  BY <1>1, <1>5 DEF DatabaseGone, local
<1>6. CASE StartServer \/ Accept \/ ReceiveEnd \/ Send \/ SendToNobody \/ Kill
  BY <1>2, <1>6 DEF StartServer, Accept, ReceiveEnd, Send, SendToNobody, Kill,
                    Close, ProcessEnds
<1>7. CASE Receive
  BY <1>7 DEF Receive, FirstCall
<1>8. CASE Handler
  BY <1>8, HandlerControl DEF InSession, SessionSteps
<1> QED
  BY <1>3, <1>4, <1>5, <1>6, <1>7, <1>8 DEF Next, Undisturbed, Server, Handler

\* What a handler that gives up has written, nobody sees.
LEMMA RollbackStep == AInv /\ [Next]_vars => RollbackUndoes'
<1> SUFFICES ASSUME AInv, [Next]_vars, pc' = "rollback"
             PROVE  /\ request'.job \in {"session"} \X Sessions
                    /\ code' \in {3002, 3003, 3004, 3005}
                    /\ code' # 3005 => Untouched(request.job)'
  BY DEF RollbackUndoes
<1>1. ASSUME UNCHANGED <<pc, request, code>>
      PROVE  /\ request'.job \in {"session"} \X Sessions
             /\ code' \in {3002, 3003, 3004, 3005}
             /\ code' # 3005 => Untouched(request.job)'
  <2>1. committed' = committed
    BY <1>1, CommittedStep DEF AInv
  <2> QED
    BY <1>1, <2>1 DEF AInv, RollbackUndoes, Untouched
<1>2. CASE UNCHANGED vars
  BY <1>1, <1>2 DEF vars, local
<1>3. CASE \E c \in Clients : ClientStep(c)
  BY <1>1, <1>3 DEF ClientStep, Connect, Leave, SendRequest, local
<1>4. CASE DatabaseGone
  BY <1>1, <1>4 DEF DatabaseGone, local
<1>5. CASE StartServer \/ Accept \/ ReceiveEnd \/ Send \/ SendToNobody \/ Kill
  BY <1>5 DEF StartServer, Accept, ReceiveEnd, Send, SendToNobody, Kill,
              Close, ProcessEnds
<1>6. CASE Receive
  BY <1>6, ReceiveControl, TypeParts DEF AInv, IInv
<1>7. CASE Handler
  <2>1. pc \in {"exception", "sessionVideo", "images", "commit"} /\
        code' \in {3002, 3003, 3004, 3005} /\ (pc = "commit" => code' = 3005)
    BY <1>7
       DEF Handler, HandleLogin, HandleInsertVideo, HandleDeleteImages,
           HandleQuery, Autocommit, StartTransaction, InsertException,
           InsertSessionVideo, InsertImage, Insert, Commit, Rollback, Respond,
           AfterImage
  <2>2. request' = request
    BY <1>7, HandlerNet
  <2>3. request.job \in {"session"} \X Sessions
    BY <2>1 DEF AInv, IInv, HandlesItsJob, SessionSteps
  <2>4. pc = "commit" => code' = 3005
    BY <2>1
  <2>5. code' # 3005 => committed' = committed
    BY <2>1, CommittedStep DEF AInv
  <2>6. Untouched(request.job)
    <3>1. Ahead(request.job)
      BY <2>1 DEF Ahead, Storing, SessionSteps
    <3> QED
      BY <2>3, <3>1 DEF AInv, AheadUntouched, Uploads
  <2> QED
    BY <2>1, <2>2, <2>3, <2>5, <2>6 DEF Untouched
<1> QED
  BY <1>2, <1>3, <1>4, <1>5, <1>6, <1>7 DEF Next, Undisturbed, Server, Handler
-----------------------------------------------------------------------------
(***************************************************************************)
(* What is true of a job stays true.                                       *)
(***************************************************************************)
LEMMA TruthKept ==
  ASSUME AInv, [Next]_vars, NEW j \in Jobs, NEW a, j \in sent,
         Truthful(j, a), j = request.job => committed' = committed
  PROVE  Truthful(j, a)'
<1>1. \A k \in Jobs : k \in sent => k \in sent'
  BY SentStep DEF AInv
<1>2. j[1] = "session" => <<"delete", j[2]>> \in Jobs
  BY JobForms, SessionJob
<1>3. CASE committed' = committed
  BY <1>1, <1>2, <1>3 DEF Truthful, Untouched
<1>4. CASE committed' # committed
  <2> DEFINE k == request.job
  <2>1. j # k /\ sent' = sent /\ k \in sent
    BY <1>4, StoreEnds DEF AInv
  <2>2. CASE /\ k \in Uploads /\ Ahead(k)
             /\ committed' = committed \cup RowsOf(k)
    <3>1. CASE j \in Uploads
      <4>1. RowsOf(j) \cap RowsOf(k) = {}
        BY <2>1, <2>2, <3>1, RowsApart
      <4> QED
        BY <2>1, <2>2, <3>1, <4>1, JobForms DEF Truthful, Untouched, Uploads
    <3>2. CASE j \in {"delete"} \X Sessions
      <4>1. PICK s \in Sessions : j = <<"delete", s>>
        BY <3>2
      <4>2. k # <<"session", s>>
        BY <2>1, <2>2, <4>1 DEF AInv, DeleteAfterStore
      <4>3. RowsOf(j) \cap RowsOf(k) = {}
        BY <2>2, <4>1, <4>2, RowsApart, RowsForms
      <4> QED
        BY <2>2, <3>2, <4>3 DEF Truthful, Untouched
    <3>3. CASE j \in {"query"} \X Queries
      BY <3>3 DEF Truthful
    <3> QED
      BY <3>1, <3>2, <3>3 DEF Jobs
  <2>3. CASE /\ k \in {"delete"} \X Sessions
             /\ committed' = committed \ RowsOf(k)
    <3>1. PICK s \in Sessions : k = <<"delete", s>>
      BY <2>3
    <3>2. committed' = committed \ ImageRows(s)
      BY <2>3, <3>1, RowsForms
    <3>3. CASE j \in {"video"} \X Videos
      <4>1. RowsOf(j) \cap ImageRows(s) = {}
        BY <3>3, JobForms, RowsForms, RowNames
      <4> QED
        BY <3>2, <3>3, <4>1 DEF Truthful
    <3>4. CASE j = <<"session", s>>
      BY <2>1, <3>1, <3>2, <3>4 DEF Truthful, Untouched
    <3>5. CASE j \in {"session"} \X Sessions /\ j # <<"session", s>>
      <4>1. RowsOf(j) \cap ImageRows(s) = {}
        BY <3>5, RowsApart DEF Uploads
      <4> QED
        BY <2>1, <3>2, <3>5, <4>1 DEF Truthful, Untouched
    <3>6. CASE j \in {"delete"} \X Sessions \/ j \in {"query"} \X Queries
      BY <3>2, <3>6 DEF Truthful, Untouched
    <3> QED
      BY <3>3, <3>4, <3>5, <3>6 DEF Jobs, Uploads
  <2> QED
    BY <1>4, <2>2, <2>3, StoreEnds DEF AInv
<1> QED
  BY <1>3, <1>4

\* No answer is no lie.
LEMMA NothingTold == \A j \in Jobs : Truthful(j, Unanswered)
BY DEF Truthful, Unanswered

\* The code a handler has decided on is true when it is sent.
LEMMA TellStep == AInv /\ [Next]_vars => AboutToTell'
<1> SUFFICES ASSUME AInv, [Next]_vars, pc' = "send", request'.job # Login
             PROVE  Truthful(request.job, code)'
  BY DEF AboutToTell
<1>1. request.job # Login => request.job \in Jobs /\ request.job \in sent
  BY RequestJob DEF AInv, AskedOnce
<1>2. ASSUME UNCHANGED <<pc, request, code>>
      PROVE  Truthful(request.job, code)'
  <2>1. committed' = committed
    BY <1>2, CommittedStep DEF AInv
  <2>2. Truthful(request.job, code)
    BY <1>2 DEF AInv, AboutToTell
  <2>3. ASSUME NEW j \in Jobs, NEW a, j \in sent, Truthful(j, a)
        PROVE  Truthful(j, a)'
    BY <2>1, <2>3, TruthKept
  <2>4. request.job \in Jobs /\ request.job \in sent
    BY <1>1, <1>2
  <2> QED
    BY <1>2, <2>2, <2>3, <2>4 DEF Truthful, Untouched
<1>3. CASE UNCHANGED vars
  BY <1>2, <1>3 DEF vars, local
<1>4. CASE \E c \in Clients : ClientStep(c)
  BY <1>2, <1>4 DEF ClientStep, Connect, Leave, SendRequest, local
<1>5. CASE DatabaseGone
  BY <1>2, <1>5 DEF DatabaseGone, local
<1>6. CASE StartServer \/ Accept \/ ReceiveEnd \/ Send \/ SendToNobody \/ Kill
  BY <1>6 DEF StartServer, Accept, ReceiveEnd, Send, SendToNobody, Kill,
              Close, ProcessEnds
\* A refusal: the job was waiting, and nothing of it is stored.
<1>7. CASE Receive
  <2>1. request'.job \in Jobs
    BY <1>7, ReceiveRequest, TypeParts DEF AInv, IInv, Requests
  <2>2. Ahead(request'.job) /\ committed' = committed
    BY <1>7, <2>1, ReceiveAsked DEF AInv, Ahead, Receive, db
  <2>3. code' = 401
    BY <1>7, <2>1, JobKinds DEF Receive, FirstCall, JobKind
  <2>4. request'.job \in Uploads => Untouched(request'.job)
    BY <2>2 DEF AInv, AheadUntouched
  <2> QED
    BY <2>1, <2>2, <2>3, <2>4, JobForms DEF Truthful, Untouched, Uploads
<1>8. CASE Handler
  <2>0. request' = request /\ request.job \in Jobs
    BY <1>1, <1>8, HandlerNet
  <2>1. CASE HandleLogin
    <3>1. request.job[1] = "login"
      BY <2>1 DEF HandleLogin, AInv, KindOfCall
    <3> QED
      BY <2>0, <3>1, JobForms
  <2>2. CASE HandleInsertVideo
    <3>1. request.job[1] = "video" /\ ~inTxn /\ view = committed
      BY <2>2 DEF HandleInsertVideo, AInv, KindOfCall, IInv,
                  TransactionOpen, InSession, SessionSteps
    <3>2. code' = 0 => committed' = committed \cup RowsOf(request.job)
      BY <2>2, <3>1 DEF HandleInsertVideo, Autocommit, Executed, Respond
    <3> QED
      BY <2>0, <3>1, <3>2 DEF Truthful
  <2>3. CASE HandleDeleteImages
    <3>1. request.job[1] = "delete" /\ ~inTxn /\ view = committed
      BY <2>3 DEF HandleDeleteImages, AInv, KindOfCall, IInv,
                  TransactionOpen, InSession, SessionSteps
    <3>2. code' = 0 => committed' = committed \ RowsOf(request.job)
      BY <2>3, <3>1 DEF HandleDeleteImages, Autocommit, Executed, Respond
    <3> QED
      BY <2>0, <3>1, <3>2 DEF Truthful, Untouched
  <2>4. CASE HandleQuery
    <3>1. request.job[1] = "query"
      BY <2>4 DEF HandleQuery, AInv, KindOfCall
    <3> QED
      BY <2>0, <3>1 DEF Truthful
  <2>5. CASE StartTransaction
    <3>1. /\ request.job \in {"session"} \X Sessions
          /\ Ahead(request.job) /\ committed' = committed
      BY <2>5, CommittedStep
         DEF StartTransaction, AInv, IInv, HandlesItsJob, Ahead, Storing,
             SessionSteps
    <3>2. code' = 3001
      BY <2>5 DEF StartTransaction, Respond
    <3>3. Untouched(request.job)
      BY <3>1 DEF AInv, AheadUntouched, Uploads
    <3> QED
      BY <2>0, <3>1, <3>2, <3>3 DEF Truthful, Untouched
  <2>6. CASE InsertException \/ InsertSessionVideo \/ InsertImage
    BY <2>6 DEF InsertException, InsertSessionVideo, InsertImage, Insert,
                AfterImage
\* COMMIT succeeded: it is that of this session, and nothing was lost on
\* the way.
  <2>7. CASE Commit
    <3>1. request.job \in {"session"} \X Sessions
      BY <2>7 DEF Commit, AInv, IInv, HandlesItsJob, SessionSteps
    <3>2. dbUp /\ committed' = view /\ code' = 0
      BY <2>7 DEF Commit, Respond
    <3>3. view = committed \cup RowsOf(request.job)
      BY <2>7, <3>2 DEF Commit, AInv, IInv, TransactionOpen, Written,
                        InSession, SessionSteps
    <3> QED
      BY <2>0, <3>1, <3>2, <3>3 DEF Truthful
  <2>8. CASE Rollback
    <3>1. committed' = committed /\ code' = code
      BY <2>8, CommittedStep DEF Rollback, Respond, AInv
    <3>2. /\ request.job \in {"session"} \X Sessions
          /\ code \in {3002, 3003, 3004, 3005}
          /\ code # 3005 => Untouched(request.job)
      BY <2>8 DEF Rollback, AInv, RollbackUndoes
    <3> QED
      BY <2>0, <3>1, <3>2 DEF Truthful, Untouched
  <2> QED
    BY <1>8, <2>1, <2>2, <2>3, <2>4, <2>5, <2>6, <2>7, <2>8 DEF Handler
<1> QED
  BY <1>3, <1>4, <1>5, <1>6, <1>7, <1>8 DEF Next, Undisturbed, Server, Handler

\* An answer is given for the request that was handled, and is its code.
LEMMA AnswerStep ==
  ASSUME IInv, [Next]_vars
  PROVE  \/ answer' = answer
         \/ /\ pc = "send" /\ committed' = committed /\ sent' = sent
            /\ answer' = [j \in Jobs |->
                            IF j = request.job THEN code ELSE answer[j]]
<1>1. CASE UNCHANGED vars
  BY <1>1 DEF vars, client
<1>2. CASE \E c \in Clients : ClientStep(c)
  BY <1>2 DEF ClientStep, Connect, Leave, SendRequest
<1>3. CASE \/ DatabaseGone \/ StartServer \/ Accept \/ ReceiveEnd \/ Receive
           \/ SendToNobody \/ Kill
  BY <1>3
     DEF DatabaseGone, StartServer, Accept, ReceiveEnd, Receive,
         SendToNobody, Kill, ProcessEnds, Close, client
<1>4. CASE Send
  BY <1>4 DEF Send, db
<1>5. CASE Handler
  BY <1>5, HandlerNet
<1> QED
  BY <1>1, <1>2, <1>3, <1>4, <1>5 DEF Next, Undisturbed, Server, Handler

\* An answer is given as the handler has found it.
LEMMA TruthStep == AInv /\ [Next]_vars => AnswerTruthful'
<1> SUFFICES ASSUME AInv, [Next]_vars PROVE AnswerTruthful'
  OBVIOUS
<1>1. AnswerTruthful <=> \A j \in Jobs : Truthful(j, answer[j])
  BY DEF AnswerTruthful, Truthful, Untouched
<1>2. ASSUME NEW j \in Jobs, answer'[j] = answer[j]
      PROVE  Truthful(j, answer[j])'
  <2>1. CASE answer[j] = Unanswered
    BY <1>2, <2>1 DEF Truthful, Unanswered
  <2>2. CASE answer[j] # Unanswered
    <3>1. j \in sent /\ j # request.job
      BY <2>2, JobForms DEF AInv, AskedOnce
    <3>2. Truthful(j, answer[j])
      BY <1>1 DEF AInv
    <3>3. ASSUME NEW a, Truthful(j, a) PROVE Truthful(j, a)'
      BY <3>1, <3>3, TruthKept
    <3> QED
      BY <1>2, <3>2, <3>3 DEF Truthful, Untouched
  <2> QED
    BY <2>1, <2>2
<1>3. ASSUME NEW j \in Jobs PROVE Truthful(j, answer[j])'
  <2>1. CASE answer'[j] = answer[j]
    BY <1>2, <2>1
  <2>2. CASE answer'[j] # answer[j]
    <3>1. /\ pc = "send" /\ committed' = committed /\ sent' = sent
          /\ j = request.job /\ answer'[j] = code
      BY <2>2, AnswerStep DEF AInv
    <3>2. Truthful(j, code)
      BY <3>1, JobForms DEF AInv, AboutToTell
    <3> QED
      BY <3>1, <3>2 DEF Truthful, Untouched
  <2> QED
    BY <2>1, <2>2
<1> QED
  BY <1>3 DEF AnswerTruthful, Truthful, Untouched

\* The invariant is kept by every step.
LEMMA AInvStep == AInv /\ [Next]_vars => AInv'
<1> SUFFICES ASSUME AInv, [Next]_vars PROVE AInv'
  OBVIOUS
<1>1. IInv' /\ AskedOnce'
  BY IInvStep, AskedStep DEF AInv
<1>2. KindOfCall'
  BY KindStep DEF AInv
<1>3. AheadUntouched' /\ DeleteAfterStore' /\ RollbackUndoes'
  BY AheadStep, DeleteStep, RollbackStep
<1>4. AboutToTell' /\ AnswerTruthful'
  BY TellStep, TruthStep
<1> QED
  BY <1>1, <1>2, <1>3, <1>4 DEF AInv

\* What a client was told is what the database holds: a 0 means stored or
\* deleted, an error before COMMIT means that nothing was stored, whatever
\* statement fails, whenever the connection to MySQL or the process ends, and
\* however many clients send (handleInsertAnomalySession and the handlers of
\* video_service.cpp, the gate and the answers of TcpServer::start).
THEOREM AnswersAreTrue == Spec => []AnswerTruthful
<1>1. AInv => AnswerTruthful
  BY DEF AInv
<1> QED
  BY <1>1, InitAInv, AInvStep, PTL DEF Spec
=============================================================================
