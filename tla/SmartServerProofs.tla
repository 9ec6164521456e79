-------------------------- MODULE SmartServerProofs --------------------------
(***************************************************************************)
(* Proofs about SmartServer for every number of clients, recorded files,   *)
(* sessions and images: its types, and that an anomaly session is stored   *)
(* as a whole or not at all (SmartServer implements RecordStore).          *)
(***************************************************************************)
EXTENDS SmartServer, SequenceTheorems, TLAPS

(***************************************************************************)
(* TypeOK in parts, because a solver that knows the Booleans does not know *)
(* the numbers.                                                            *)
(***************************************************************************)
TypeFlags ==
  /\ link \in [Clients -> BOOLEAN]
  /\ inTxn \in BOOLEAN
  /\ dbUp \in BOOLEAN

TypeNet ==
  /\ backlog \in Seq(Clients)
  /\ inbox \in [Clients -> Seq(Requests)]
  /\ request \in Requests

TypeControl ==
  /\ pc \in ServerStates
  /\ serving \in Clients \cup {NoClient}
  /\ serving = NoClient <=> pc \in {"down", "accept"}

TypeData ==
  /\ sent \subseteq Jobs
  /\ known \subseteq 1..issued
  /\ answer \in [Jobs -> Codes \cup {Unanswered}]
  /\ code \in Codes
  /\ image \in 1..(NumImages + 1)
  /\ tokens \subseteq 1..issued
  /\ issued \in 0..MaxLogins

LEMMA TypeParts == TypeOK <=> TypeFlags /\ TypeNet /\ TypeControl /\ TypeData
BY Zenon DEF TypeOK, TypeFlags, TypeNet, TypeControl, TypeData

\* The part of the database a session's handler has written so far.
ExceptionRow(s) == <<"exception_log", s, 0>>
VideoRow(s) == <<"video", s, 0>>
ImageRow(s, i) == <<"feature_image", s, i>>

\* What a handler handles.
SessionSteps == {"start", "exception", "sessionVideo", "images", "commit"}
HandlesItsJob ==
  /\ pc = "video" => request.job \in Uploads
  /\ pc = "delete" => request.job \in {"delete"} \X Sessions
  /\ pc \in SessionSteps => request.job \in {"session"} \X Sessions
  /\ pc \in {"start", "exception", "sessionVideo"} => image = 1
  /\ pc = "images" => image <= NumImages

\* A login that succeeded has issued a token.
LoginIssued ==
  /\ pc \in {"video", "delete", "query", "rollback"} \cup SessionSteps =>
       request.job # Login
  /\ pc = "send" /\ request.job = Login /\ code = 0 => issued > 0

\* Handlers run for requests that passed the gate.
Gated ==
  pc \in {"video", "delete", "query"} \cup SessionSteps =>
    request.token \in tokens

\* The transaction of the handler at work: what it has written, and that the
\* database knows nothing of it yet.
InSession == SessionSteps \ {"start"}
Session == request.job[2]
Written ==
  /\ pc = "exception" => view = committed
  /\ pc = "sessionVideo" => view = committed \cup {ExceptionRow(Session)}
  /\ pc = "images" =>
       view = committed \cup {ExceptionRow(Session), VideoRow(Session)}
                \cup {ImageRow(Session, i) : i \in 1..(image - 1)}
  /\ pc = "commit" => view = committed \cup RowsOf(request.job)

TransactionOpen ==
  /\ inTxn => dbUp /\ pc \in InSession \cup {"rollback"}
  /\ pc \in InSession => (dbUp <=> inTxn)
  /\ inTxn => Written
  /\ ~inTxn => view = committed

IInv == TypeOK /\ HandlesItsJob /\ LoginIssued /\ Gated /\ TransactionOpen
-----------------------------------------------------------------------------
LEMMA InitIInv == Init => IInv
<1> SUFFICES ASSUME Init PROVE IInv
  OBVIOUS
<1>1. TypeFlags
  BY Zenon DEF Init, TypeFlags
<1>2. TypeNet
  BY BoundsAssumption DEF Init, TypeNet, Requests, NoRequest, NoToken
<1>3. TypeControl
  BY NamesAssumption DEF Init, TypeControl, ServerStates
<1>4. TypeData
  BY BoundsAssumption DEF Init, TypeData, Codes, Unanswered
<1>5. HandlesItsJob /\ LoginIssued /\ Gated /\ TransactionOpen
  BY DEF Init, HandlesItsJob, LoginIssued, Gated, TransactionOpen,
         SessionSteps, InSession
<1> QED
  BY <1>1, <1>2, <1>3, <1>4, <1>5, TypeParts DEF IInv
-----------------------------------------------------------------------------
(***************************************************************************)
(* Preservation of the types.                                              *)
(***************************************************************************)
\* What a statement may do to the connection.
FlagsMove ==
  /\ link' = link
  /\ dbUp' = dbUp \/ dbUp' = FALSE
  /\ inTxn' = inTxn \/ inTxn' = FALSE \/ inTxn' = TRUE

Handler ==
  \/ HandleLogin \/ HandleInsertVideo \/ HandleDeleteImages \/ HandleQuery
  \/ StartTransaction \/ InsertException \/ InsertSessionVideo \/ InsertImage
  \/ Commit \/ Rollback

LEMMA HandlerFlags == Handler => FlagsMove
<1>1. ASSUME NEW rows, Autocommit(rows) PROVE FlagsMove
  BY <1>1 DEF FlagsMove, Autocommit, Executed, Failed, Broken, db, client
<1>2. ASSUME NEW row, NEW next, NEW error, Insert(row, next, error)
      PROVE FlagsMove
  BY <1>2 DEF FlagsMove, Insert, Executed, Failed, Broken, db, client
<1>3. CASE HandleLogin
  BY <1>3 DEF FlagsMove, HandleLogin, Failed, Broken, db, client
<1>4. CASE HandleInsertVideo \/ HandleDeleteImages \/ HandleQuery
  BY <1>4, <1>1 DEF HandleInsertVideo, HandleDeleteImages, HandleQuery
<1>5. CASE StartTransaction
  BY <1>5 DEF FlagsMove, StartTransaction, Failed, Broken, db, client
<1>6. CASE InsertException \/ InsertSessionVideo \/ InsertImage
  BY <1>6, <1>2 DEF InsertException, InsertSessionVideo, InsertImage
<1>7. CASE Commit
  BY <1>7 DEF FlagsMove, Commit, Failed, Broken, db, client
<1>8. CASE Rollback
  BY <1>8 DEF FlagsMove, Rollback, Broken, db, client
<1> QED
  BY <1>3, <1>4, <1>5, <1>6, <1>7, <1>8 DEF Handler

LEMMA FlagsStep == TypeFlags /\ [Next]_vars => TypeFlags'
<1> SUFFICES ASSUME TypeFlags, [Next]_vars PROVE TypeFlags'
  OBVIOUS
<1> USE DEF TypeFlags
<1>1. CASE UNCHANGED vars
  BY <1>1, Zenon DEF vars, client, db
<1>2. CASE \E c \in Clients : ClientStep(c)
  <2>1. PICK c \in Clients : ClientStep(c)
    BY <1>2
  <2>2. CASE Connect(c)
    BY <2>2, Zenon DEF Connect, db
  <2>3. CASE Leave(c)
    BY <2>3, Zenon DEF Leave, db
  <2>4. CASE \E job \in Jobs \cup {Login}, token \in known \cup {NoToken} :
               SendRequest(c, job, token)
    BY <2>4, Zenon DEF SendRequest, db
  <2> QED
    BY <2>1, <2>2, <2>3, <2>4 DEF ClientStep
<1>3. ASSUME ProcessEnds PROVE TypeFlags'
  BY <1>3, Zenon DEF ProcessEnds
<1>4. CASE DatabaseGone \/ StartServer
  BY <1>4, Zenon DEF DatabaseGone, Broken, StartServer, client
<1>5. CASE Accept \/ ReceiveEnd \/ Receive \/ Send
  BY <1>5, Zenon DEF Accept, ReceiveEnd, Close, Receive, Send, client, db
<1>6. CASE SendToNobody
  BY <1>6, <1>3, Zenon DEF SendToNobody, Close, client, db
<1>7. CASE Handler
  BY <1>7, HandlerFlags, Zenon DEF FlagsMove
<1> QED
  BY <1>1, <1>2, <1>3, <1>4, <1>5, <1>6, <1>7
     DEF Next, Undisturbed, Server, Kill, Handler

\* A handler leaves the network and what it handles alone.
LEMMA HandlerNet ==
  Handler => /\ UNCHANGED <<link, inbox, sent, known, answer, backlog>>
             /\ UNCHANGED <<serving, request>>
<1> USE DEF client
<1>1. ASSUME NEW rows, Autocommit(rows)
      PROVE  UNCHANGED <<client, backlog, serving, request>>
  BY <1>1 DEF Autocommit
<1>2. ASSUME NEW row, NEW next, NEW error, Insert(row, next, error)
      PROVE  UNCHANGED <<client, backlog, serving, request>>
  BY <1>2 DEF Insert
<1>3. ASSUME Handler PROVE UNCHANGED <<client, backlog, serving, request>>
  BY <1>1, <1>2, <1>3
     DEF Handler, HandleLogin, HandleInsertVideo, HandleDeleteImages,
         HandleQuery, StartTransaction, InsertException, InsertSessionVideo,
         InsertImage, Commit, Rollback
<1> QED
  BY <1>3

LEMMA ReceiveRequest ==
  ASSUME TypeNet, TypeControl, Receive
  PROVE  /\ serving \in Clients
         /\ request' \in Requests
         /\ inbox' \in [Clients -> Seq(Requests)]
<1>1. serving \in Clients
  BY DEF TypeControl, Receive
<1>2. inbox[serving] \in Seq(Requests) /\ inbox[serving] # <<>>
  BY <1>1 DEF TypeNet, Receive
<1>3. /\ Head(inbox[serving]) \in Requests
      /\ Tail(inbox[serving]) \in Seq(Requests)
  BY <1>2, HeadTailProperties
<1> QED
  BY <1>1, <1>3 DEF TypeNet, Receive

LEMMA NoRequestType == NoRequest \in Requests
BY BoundsAssumption DEF NoRequest, Requests, NoToken

LEMMA KnownTokens == TypeData => known \cup {NoToken} \subseteq 0..MaxLogins
BY BoundsAssumption DEF TypeData, NoToken

LEMMA EmptiedInbox ==
  ASSUME NEW c, inbox \in [Clients -> Seq(Requests)]
  PROVE  [inbox EXCEPT ![c] = <<>>] \in [Clients -> Seq(Requests)]
<1> DEFINE nothing == <<>>
<1>1. nothing \in Seq(Requests)
  OBVIOUS
<1> HIDE DEF nothing
<1>2. [inbox EXCEPT ![c] = nothing] \in [Clients -> Seq(Requests)]
  BY <1>1
<1> QED
  BY <1>2 DEF nothing

LEMMA NetStep ==
  TypeNet /\ TypeControl /\ TypeData /\ [Next]_vars => TypeNet'
<1> SUFFICES ASSUME TypeNet, TypeControl, TypeData, [Next]_vars PROVE TypeNet'
  OBVIOUS
<1> USE DEF TypeNet
<1>1. CASE UNCHANGED vars
  BY <1>1 DEF vars, client, local
<1>2. CASE \E c \in Clients : ClientStep(c)
  <2>1. PICK c \in Clients : ClientStep(c)
    BY <1>2
  <2>2. CASE Connect(c)
    BY <2>2 DEF Connect, local
  <2>3. CASE Leave(c)
    BY <2>3, EmptiedInbox DEF Leave, local
  <2>4. ASSUME NEW job \in Jobs \cup {Login},
               NEW token \in known \cup {NoToken},
               SendRequest(c, job, token)
        PROVE  TypeNet'
    <3>1. [job |-> job, token |-> token] \in Requests
      BY KnownTokens DEF Requests
    <3>2. inbox[c] \in Seq(Requests)
      OBVIOUS
    <3>3. Append(inbox[c], [job |-> job, token |-> token]) \in Seq(Requests)
      BY <3>1, <3>2, AppendProperties
    <3>4. inbox' = [inbox EXCEPT ![c] =
                      Append(@, [job |-> job, token |-> token])]
      BY <2>4 DEF SendRequest
    <3>5. UNCHANGED <<backlog, request>>
      BY <2>4 DEF SendRequest, local
    <3>6. inbox' \in [Clients -> Seq(Requests)]
      <4> DEFINE longer == Append(inbox[c], [job |-> job, token |-> token])
      <4>1. longer \in Seq(Requests) /\ inbox' = [inbox EXCEPT ![c] = longer]
        BY <3>3, <3>4
      <4> HIDE DEF longer
      <4> QED
        BY <4>1
    <3> QED
      BY <3>5, <3>6
  <2> QED
    BY <2>1, <2>2, <2>3, <2>4 DEF ClientStep
<1>3. ASSUME ProcessEnds PROVE TypeNet'
  BY <1>3, NoRequestType DEF ProcessEnds, Forget
<1>4. ASSUME Close PROVE TypeNet'
  BY <1>4, NoRequestType, EmptiedInbox DEF Close, Forget
<1>5. CASE DatabaseGone \/ StartServer
  BY <1>5 DEF DatabaseGone, StartServer, client, local
<1>6. CASE Accept
  <2>1. Tail(backlog) \in Seq(Clients)
    BY <1>6, HeadTailProperties DEF Accept
  <2>2. backlog' = Tail(backlog) /\ UNCHANGED <<inbox, request>>
    BY <1>6 DEF Accept, client
  <2> QED
    BY <2>1, <2>2
<1>7. CASE Receive
  BY <1>7, ReceiveRequest DEF Receive
<1>8. CASE Send
  BY <1>8, NoRequestType DEF Send, Forget
<1>9. CASE ReceiveEnd
  BY <1>4, <1>9 DEF ReceiveEnd
<1>10. CASE SendToNobody
  BY <1>3, <1>4, <1>10, NoRequestType DEF SendToNobody, Forget, client
<1>11. CASE Handler
  BY <1>11, HandlerNet
<1> QED
  BY <1>1, <1>2, <1>3, <1>5, <1>6, <1>7, <1>8, <1>9, <1>10, <1>11
     DEF Next, Undisturbed, Server, Kill, Handler

\* The calls a handler can be at, and the one that answers.
LEMMA HandlerControl ==
  Handler => /\ pc \notin {"down", "accept", "recv", "send"}
             /\ pc' \in InSession \cup {"rollback", "send"}
<1> USE DEF InSession, SessionSteps
<1>1. ASSUME NEW rows, Autocommit(rows) PROVE pc' = "send"
  BY <1>1 DEF Autocommit, Respond
<1>2. ASSUME NEW row, NEW next, NEW error, Insert(row, next, error)
      PROVE pc' \in {next, "rollback"}
  BY <1>2 DEF Insert
<1>3. CASE HandleInsertVideo \/ HandleDeleteImages \/ HandleQuery
  BY <1>3, <1>1 DEF HandleInsertVideo, HandleDeleteImages, HandleQuery
<1>4. CASE InsertException \/ InsertSessionVideo \/ InsertImage
  BY <1>4, <1>2 DEF InsertException, InsertSessionVideo, InsertImage, AfterImage
<1>5. CASE HandleLogin \/ StartTransaction \/ Commit \/ Rollback
  BY <1>5 DEF HandleLogin, StartTransaction, Commit, Rollback, Respond
<1> QED
  BY <1>3, <1>4, <1>5 DEF Handler

JobKind == {"login", "video", "session", "delete", "query"}

LEMMA JobKinds ==
  \A job \in Jobs \cup {Login} :
    /\ job[1] \in JobKind
    /\ job[1] = "video" => job \in {"video"} \X Videos
    /\ job[1] = "session" => job \in {"session"} \X Sessions
    /\ job[1] = "delete" => job \in {"delete"} \X Sessions
    /\ job[1] = "login" => job = Login
<1> SUFFICES ASSUME NEW job \in Jobs \cup {Login}
             PROVE  \/ job \in {"video"} \X Videos
                    \/ job \in {"session"} \X Sessions
                    \/ job \in {"delete"} \X Sessions
                    \/ job \in {"query"} \X Queries
                    \/ job = Login
  <2>1. Login[1] = "login"
    BY DEF Login
  <2> QED
    BY <2>1 DEF JobKind
<1> QED
  BY DEF Jobs, Uploads

LEMMA ReceiveControl ==
  ASSUME TypeNet, TypeControl, Receive
  PROVE  pc' \in {"login", "video", "start", "delete", "query", "send"}
<1>1. request'.job \in Jobs \cup {Login}
  BY ReceiveRequest DEF Requests
<1>2. request'.job[1] \in JobKind
  BY <1>1, JobKinds
<1> QED
  BY <1>2 DEF Receive, FirstCall, JobKind

LEMMA ControlStep ==
  TypeNet /\ TypeControl /\ [Next]_vars => TypeControl'
<1> SUFFICES ASSUME TypeNet, TypeControl, [Next]_vars PROVE TypeControl'
  OBVIOUS
<1> USE NamesAssumption DEF TypeControl, ServerStates
<1>1. CASE UNCHANGED vars
  BY <1>1 DEF vars, local
<1>2. CASE \E c \in Clients : ClientStep(c)
  BY <1>2 DEF ClientStep, Connect, Leave, SendRequest, local
<1>3. ASSUME ProcessEnds PROVE TypeControl'
  BY <1>3 DEF ProcessEnds
<1>4. ASSUME Close PROVE TypeControl'
  BY <1>4 DEF Close
<1>5. CASE DatabaseGone \/ StartServer
  BY <1>5 DEF DatabaseGone, StartServer, local
<1>6. CASE Accept
  <2>1. Head(backlog) \in Clients
    BY <1>6, HeadTailProperties DEF Accept, TypeNet
  <2> QED
    BY <1>6, <2>1 DEF Accept
<1>7. CASE Receive
  BY <1>7, ReceiveControl, ReceiveRequest DEF Receive
<1>8. CASE Send \/ ReceiveEnd \/ SendToNobody
  BY <1>3, <1>4, <1>8 DEF Send, ReceiveEnd, SendToNobody
<1>9. CASE Handler
  BY <1>9, HandlerNet, HandlerControl DEF InSession, SessionSteps
<1> QED
  BY <1>1, <1>2, <1>3, <1>5, <1>6, <1>7, <1>8, <1>9
     DEF Next, Undisturbed, Server, Kill, Handler

LEMMA DataStep ==
  TypeData /\ HandlesItsJob /\ LoginIssued /\ [Next]_vars => TypeData'
<1> SUFFICES ASSUME TypeData, HandlesItsJob, LoginIssued, [Next]_vars
             PROVE  TypeData'
  OBVIOUS
<1> USE BoundsAssumption DEF TypeData, Codes
<1>0. ASSUME UNCHANGED <<sent, known, answer, tokens, issued>>,
             \/ UNCHANGED <<code, image>>
             \/ Forget
      PROVE  TypeData'
  BY <1>0 DEF Forget
<1>1. CASE UNCHANGED vars
  BY <1>0, <1>1 DEF vars, client, local
<1>2. CASE \E c \in Clients : ClientStep(c)
  <2>1. PICK c \in Clients : ClientStep(c)
    BY <1>2
  <2>2. CASE Connect(c) \/ Leave(c)
    BY <1>0, <2>2 DEF Connect, Leave, local
  <2>3. ASSUME NEW job \in Jobs \cup {Login},
               NEW token \in known \cup {NoToken},
               SendRequest(c, job, token)
        PROVE  TypeData'
    BY <2>3 DEF SendRequest, local
  <2> QED
    BY <2>1, <2>2, <2>3 DEF ClientStep
<1>3. ASSUME ProcessEnds PROVE TypeData'
  BY <1>3 DEF ProcessEnds, Forget
<1>4. ASSUME Close PROVE TypeData'
  BY <1>0, <1>4 DEF Close
<1>5. CASE DatabaseGone \/ StartServer \/ Accept
  BY <1>0, <1>5 DEF DatabaseGone, StartServer, Accept, client, local
<1>6. CASE Receive
  BY <1>6 DEF Receive
<1>7. CASE Send
  <2>1. known' \subseteq 1..issued
    BY <1>7 DEF Send, LoginIssued
  <2>2. answer' \in [Jobs -> Codes \cup {Unanswered}]
    BY <1>7 DEF Send
  <2> QED
    BY <1>7, <2>1, <2>2 DEF Send, Forget
<1>8. CASE ReceiveEnd \/ SendToNobody
  BY <1>0, <1>3, <1>4, <1>8 DEF ReceiveEnd, SendToNobody, client
<1>9. CASE HandleLogin
  <2>1. UNCHANGED <<sent, known, answer, image>> /\ code' \in Codes
    BY <1>9 DEF HandleLogin, Respond, client
  <2>2. \/ UNCHANGED <<tokens, issued>>
        \/ /\ issued < MaxLogins /\ issued' = issued + 1
           /\ tokens' = tokens \cup {issued'}
    BY <1>9 DEF HandleLogin
  <2>3. CASE UNCHANGED <<tokens, issued>>
    BY <2>1, <2>3
  <2>4. CASE /\ issued < MaxLogins /\ issued' = issued + 1
             /\ tokens' = tokens \cup {issued'}
    <3>1. issued' \in 0..MaxLogins /\ 1..issued \subseteq 1..issued'
      BY <2>4
    <3>2. known' \subseteq 1..issued' /\ tokens' \subseteq 1..issued'
      BY <2>1, <2>4, <3>1
    <3> QED
      BY <2>1, <3>1, <3>2
  <2> QED
    BY <2>2, <2>3, <2>4
<1>10. CASE Handler /\ ~HandleLogin
  <2>1. UNCHANGED <<sent, known, answer>>
    BY <1>10, HandlerNet
  <2>2. UNCHANGED <<tokens, issued>> /\ code' \in Codes
    <3>1. ASSUME NEW rows, Autocommit(rows)
          PROVE  UNCHANGED <<tokens, issued>> /\ code' \in Codes
      BY <3>1 DEF Autocommit, Respond
    <3>2. ASSUME NEW row, NEW next, NEW error \in Codes,
                 Insert(row, next, error)
          PROVE  UNCHANGED <<tokens, issued>> /\ code' \in Codes
      BY <3>2 DEF Insert
    <3> QED
      BY <1>10, <3>1, <3>2
         DEF Handler, HandleInsertVideo, HandleDeleteImages, HandleQuery,
             StartTransaction, InsertException, InsertSessionVideo,
             InsertImage, Commit, Rollback, Respond
  <2>3. image' \in 1..(NumImages + 1)
    <3>1. CASE InsertImage
      BY <3>1 DEF InsertImage, HandlesItsJob
    <3>2. CASE ~InsertImage
      BY <1>10, <3>2
         DEF Handler, HandleInsertVideo, HandleDeleteImages, HandleQuery,
             Autocommit, StartTransaction, InsertException,
             InsertSessionVideo, Commit, Rollback
    <3> QED
      BY <3>1, <3>2
  <2> QED
    BY <2>1, <2>2, <2>3
<1> QED
  BY <1>1, <1>2, <1>3, <1>5, <1>6, <1>7, <1>8, <1>9, <1>10
     DEF Next, Undisturbed, Server, Kill, Handler
-----------------------------------------------------------------------------
(***************************************************************************)
(* Preservation of what a handler handles.                                 *)
(***************************************************************************)
LEMMA JobStep ==
  IInv /\ [Next]_vars => HandlesItsJob' /\ LoginIssued'
<1> SUFFICES ASSUME TypeNet, TypeControl, TypeData, HandlesItsJob, LoginIssued,
                    [Next]_vars
             PROVE  HandlesItsJob' /\ LoginIssued'
  BY TypeParts DEF IInv
<1> USE DEF HandlesItsJob, LoginIssued, SessionSteps
<1>1. ASSUME UNCHANGED <<pc, request, code, image, issued>>
      PROVE  HandlesItsJob' /\ LoginIssued'
  BY <1>1
<1>2. ASSUME pc' \in {"down", "accept", "recv"}
      PROVE  HandlesItsJob' /\ LoginIssued'
  BY <1>2
<1>3. CASE UNCHANGED vars
  BY <1>1, <1>3 DEF vars, local
<1>4. CASE \E c \in Clients : ClientStep(c)
  BY <1>1, <1>4 DEF ClientStep, Connect, Leave, SendRequest, local
<1>5. CASE DatabaseGone
  BY <1>1, <1>5 DEF DatabaseGone, local
<1>6. CASE StartServer \/ Accept \/ ReceiveEnd \/ Send \/ SendToNobody \/ Kill
  BY <1>2, <1>6 DEF StartServer, Accept, ReceiveEnd, Send, SendToNobody, Kill,
                    Close, ProcessEnds
<1>7. CASE Receive
  <2>1. request' \in Requests
    BY <1>7, ReceiveRequest
  <2>2. request'.job \in Jobs \cup {Login}
    BY <2>1 DEF Requests
  <2>3. pc' = "send" => code' = 401
    BY <1>7, <2>2, JobKinds DEF Receive, FirstCall, JobKind
  <2>4. pc' # "send" => pc' = FirstCall(request'.job) /\ image' = 1
    BY <1>7 DEF Receive
  <2>5. Login[1] = "login"
    BY DEF Login
  <2> QED
    BY <2>2, <2>3, <2>4, <2>5, JobKinds DEF FirstCall, JobKind, Uploads
<1>8. CASE HandleLogin
  BY <1>8, BoundsAssumption DEF HandleLogin, Respond, TypeData
<1>9. CASE HandleInsertVideo \/ HandleDeleteImages \/ HandleQuery
  BY <1>9 DEF HandleInsertVideo, HandleDeleteImages, HandleQuery, Autocommit,
              Respond
<1>10. CASE StartTransaction
  BY <1>10 DEF StartTransaction, Respond
<1>11. CASE InsertException
  BY <1>11 DEF InsertException, Insert
<1>12. CASE InsertSessionVideo
  BY <1>12, BoundsAssumption DEF InsertSessionVideo, Insert, AfterImage
<1>13. CASE InsertImage
  BY <1>13, BoundsAssumption DEF InsertImage, Insert, AfterImage, TypeData
<1>14. CASE Commit
  BY <1>14 DEF Commit, Respond
<1>15. CASE Rollback
  BY <1>15 DEF Rollback, Respond
<1> QED
  BY <1>3, <1>4, <1>5, <1>6, <1>7, <1>8, <1>9, <1>10, <1>11, <1>12, <1>13,
     <1>14, <1>15 DEF Next, Undisturbed, Server

\* Tokens are forgotten only with the request that is handled.
LEMMA GateStep == IInv /\ [Next]_vars => Gated'
<1> SUFFICES ASSUME TypeNet, TypeControl, Gated, [Next]_vars PROVE Gated'
  BY TypeParts DEF IInv
<1> USE DEF Gated, SessionSteps
<1>1. ASSUME UNCHANGED <<pc, request, tokens>> PROVE Gated'
  BY <1>1
<1>2. ASSUME pc' \in {"down", "accept", "recv"} PROVE Gated'
  BY <1>2
<1>3. CASE UNCHANGED vars
  BY <1>1, <1>3 DEF vars, local
<1>4. CASE \E c \in Clients : ClientStep(c)
  BY <1>1, <1>4 DEF ClientStep, Connect, Leave, SendRequest, local
<1>5. CASE DatabaseGone
  BY <1>1, <1>5 DEF DatabaseGone, local
<1>6. CASE StartServer \/ Accept \/ ReceiveEnd \/ Send \/ SendToNobody \/ Kill
  BY <1>2, <1>6 DEF StartServer, Accept, ReceiveEnd, Send, SendToNobody, Kill,
                    Close, ProcessEnds
<1>7. CASE Receive
  <2>1. request'.job \in Jobs \cup {Login}
    BY <1>7, ReceiveRequest DEF Requests
  <2>2. CASE request'.job = Login
    <3>0. Login[1] = "login"
      BY DEF Login
    <3>1. FirstCall(request'.job) = "login"
      BY <2>2, <3>0 DEF FirstCall
    <3> QED
      BY <1>7, <3>1 DEF Receive
  <2>3. CASE request'.job # Login
    BY <1>7, <2>3 DEF Receive, Authorized
  <2> QED
    BY <2>2, <2>3
<1>8. CASE Handler
  <2>1. UNCHANGED request
    BY <1>8, HandlerNet
  <2>2. CASE pc' \in {"send", "rollback"}
    BY <2>2
  <2>3. CASE pc' \notin {"send", "rollback"}
    <3>1. pc \in SessionSteps /\ UNCHANGED tokens
      BY <1>8, <2>3
         DEF Handler, HandleLogin, HandleInsertVideo, HandleDeleteImages,
             HandleQuery, Autocommit, StartTransaction, InsertException,
             InsertSessionVideo, InsertImage, Insert, Commit, Rollback,
             Respond
    <3> QED
      BY <2>1, <3>1
  <2> QED
    BY <2>2, <2>3
<1> QED
  BY <1>3, <1>4, <1>5, <1>6, <1>7, <1>8 DEF Next, Undisturbed, Server, Handler
-----------------------------------------------------------------------------
(***************************************************************************)
(* Preservation of the transaction's invariant.                            *)
(***************************************************************************)
LEMMA TransactionStep == IInv /\ [Next]_vars => TransactionOpen'
<1> SUFFICES ASSUME TypeNet, TypeControl, TypeData, HandlesItsJob,
                    TransactionOpen, [Next]_vars
             PROVE  TransactionOpen'
  BY TypeParts DEF IInv
<1> USE DEF InSession, SessionSteps
<1>1. ASSUME UNCHANGED <<pc, request, image, db>> PROVE TransactionOpen'
  BY <1>1 DEF TransactionOpen, Written, Session, db
<1>2. ASSUME NEW outcomes, Broken(outcomes) PROVE TransactionOpen'
  BY <1>2 DEF TransactionOpen, Broken
<1>3. ASSUME UNCHANGED db, pc \notin InSession \cup {"rollback"},
             pc' \notin InSession
      PROVE  TransactionOpen'
  BY <1>3 DEF TransactionOpen, db
<1>4. ASSUME UNCHANGED db, pc' = "rollback" PROVE TransactionOpen'
  BY <1>4 DEF TransactionOpen, Written, db
<1>5. ASSUME ~inTxn', view' = committed', pc' \notin InSession
      PROVE  TransactionOpen'
  BY <1>5 DEF TransactionOpen
<1>6. ASSUME NEW rows, Autocommit(rows), pc \notin InSession \cup {"rollback"}
      PROVE  TransactionOpen'
  <2>1. pc' = "send" /\ ~inTxn
    BY <1>6 DEF Autocommit, Respond, TransactionOpen
  <2>2. CASE Executed(rows)
    BY <1>5, <2>1, <2>2 DEF Executed
  <2>3. CASE Failed(Uncertain(rows))
    BY <1>2, <1>3, <1>6, <2>1, <2>3 DEF Failed
  <2> QED
    BY <1>6, <2>2, <2>3 DEF Autocommit
<1>7. CASE UNCHANGED vars
  BY <1>1, <1>7 DEF vars, local
<1>8. CASE \E c \in Clients : ClientStep(c)
  BY <1>1, <1>8 DEF ClientStep, Connect, Leave, SendRequest, local
<1>9. CASE DatabaseGone
  BY <1>2, <1>9 DEF DatabaseGone
<1>10. CASE StartServer
  BY <1>10, <1>5 DEF StartServer, TransactionOpen
<1>11. ASSUME ProcessEnds PROVE TransactionOpen'
  BY <1>11, <1>5 DEF ProcessEnds
<1>12. CASE Accept \/ ReceiveEnd \/ Send
  BY <1>3, <1>12 DEF Accept, ReceiveEnd, Close, Send
<1>13. CASE SendToNobody
  BY <1>3, <1>11, <1>13 DEF SendToNobody, Close
<1>14. CASE Receive
  BY <1>3, <1>14, ReceiveControl DEF Receive
<1>15. CASE HandleLogin
  BY <1>2, <1>3, <1>15 DEF HandleLogin, Respond, Failed
<1>16. CASE HandleInsertVideo \/ HandleDeleteImages \/ HandleQuery
  BY <1>6, <1>16 DEF HandleInsertVideo, HandleDeleteImages, HandleQuery
<1>17. CASE StartTransaction
  <2>1. CASE Failed({committed}) /\ Respond(3001)
    BY <1>2, <1>3, <1>17, <2>1 DEF StartTransaction, Failed, Respond
  <2>2. CASE ~(Failed({committed}) /\ Respond(3001))
    BY <1>17, <2>2 DEF StartTransaction, TransactionOpen, Written
  <2> QED
    BY <2>1, <2>2
\* An INSERT that succeeds does so inside the transaction.
<1>18. ASSUME NEW row, NEW next, NEW error, Insert(row, next, error),
              pc \in InSession
       PROVE  \/ TransactionOpen'
              \/ /\ inTxn /\ inTxn' /\ dbUp' /\ pc' = next
                 /\ view' = view \cup {row}
                 /\ committed' = committed /\ request' = request
  <2>1. CASE Executed(view \cup {row}) /\ pc' = next
    BY <1>18, <2>1 DEF Insert, Executed, TransactionOpen
  <2>2. CASE Failed(Uncertain(view \cup {row})) /\ pc' = "rollback"
    BY <1>2, <1>4, <2>2 DEF Failed
  <2> QED
    BY <1>18, <2>1, <2>2 DEF Insert
<1>19. CASE InsertException
  BY <1>18, <1>19
     DEF InsertException, TransactionOpen, Written, ExceptionRow, Session
<1>20. CASE InsertSessionVideo
  <2>1. SUFFICES ASSUME inTxn, inTxn', dbUp', pc' = AfterImage(0),
                        view' = view \cup {VideoRow(Session)},
                        committed' = committed, request' = request
                 PROVE  TransactionOpen'
    BY <1>18, <1>20 DEF InsertSessionVideo, VideoRow, Session
  <2>2. view' = committed \cup {ExceptionRow(Session), VideoRow(Session)}
    BY <1>20, <2>1 DEF InsertSessionVideo, TransactionOpen, Written
  <2>3. image = 1 /\ image' = 1 /\ request.job \in {"session"} \X Sessions
    BY <1>20 DEF InsertSessionVideo, HandlesItsJob
  <2>4. CASE pc' = "images"
    BY <2>1, <2>2, <2>3, <2>4 DEF TransactionOpen, Written, Session
  <2>5. CASE pc' = "commit"
    <3>1. Images = {}
      BY <2>1, <2>5, BoundsAssumption DEF AfterImage, Images
    <3>2. RowsOf(request.job) = {ExceptionRow(Session), VideoRow(Session)}
      BY <2>3, <3>1 DEF RowsOf, ImageRows, ExceptionRow, VideoRow, Session
    <3> QED
      BY <2>1, <2>2, <2>5, <3>2 DEF TransactionOpen, Written
  <2> QED
    BY <2>1, <2>4, <2>5 DEF AfterImage
<1>21. CASE InsertImage
  <2>1. SUFFICES ASSUME inTxn, inTxn', dbUp', pc' = AfterImage(image),
                        view' = view \cup {ImageRow(Session, image)},
                        committed' = committed, request' = request
                 PROVE  TransactionOpen'
    BY <1>18, <1>21 DEF InsertImage, ImageRow, Session
  <2>2. /\ image \in 1..NumImages /\ image' = image + 1
        /\ request.job \in {"session"} \X Sessions
    BY <1>21, BoundsAssumption DEF InsertImage, HandlesItsJob, TypeData
  <2>3. view = committed \cup {ExceptionRow(Session), VideoRow(Session)}
                \cup {ImageRow(Session, i) : i \in 1..(image - 1)}
    BY <1>21, <2>1 DEF InsertImage, TransactionOpen, Written
  <2>4. {ImageRow(Session, i) : i \in 1..image} =
          {ImageRow(Session, i) : i \in 1..(image - 1)}
            \cup {ImageRow(Session, image)}
    BY <2>2, BoundsAssumption
  <2>5. view' = committed \cup {ExceptionRow(Session), VideoRow(Session)}
                \cup {ImageRow(Session, i) : i \in 1..image}
    BY <2>1, <2>3, <2>4
  <2>6. CASE pc' = "images"
    <3>1. image' - 1 = image
      BY <2>2, BoundsAssumption
    <3> QED
      BY <2>1, <2>5, <2>6, <3>1 DEF TransactionOpen, Written, Session
  <2>7. CASE pc' = "commit"
    <3>1. Images = 1..image
      BY <2>1, <2>2, <2>7, BoundsAssumption DEF AfterImage, Images
    <3>2. RowsOf(request.job) = {ExceptionRow(Session), VideoRow(Session)}
                \cup {ImageRow(Session, i) : i \in 1..image}
      BY <2>2, <3>1
         DEF RowsOf, ImageRows, ExceptionRow, VideoRow, ImageRow, Session
    <3> QED
      BY <2>1, <2>5, <2>7, <3>2 DEF TransactionOpen, Written
  <2> QED
    BY <2>1, <2>6, <2>7 DEF AfterImage
<1>22. CASE Commit
  <2>1. CASE Failed({committed, view}) /\ pc' = "rollback"
    BY <1>2, <1>4, <2>1 DEF Failed
  <2>2. CASE ~(Failed({committed, view}) /\ pc' = "rollback")
    BY <1>5, <1>22, <2>2 DEF Commit, Respond
  <2> QED
    BY <2>1, <2>2
<1>23. CASE Rollback
  <2>1. CASE Broken({committed})
    BY <1>2, <2>1
  <2>2. CASE ~Broken({committed})
    BY <1>5, <1>23, <2>2 DEF Rollback, Respond, TransactionOpen, db
  <2> QED
    BY <2>1, <2>2
<1> QED
  BY <1>7, <1>8, <1>9, <1>10, <1>11, <1>12, <1>13, <1>14, <1>15, <1>16, <1>17,
     <1>19, <1>20, <1>21, <1>22, <1>23 DEF Next, Undisturbed, Server, Kill

LEMMA IInvStep == IInv /\ [Next]_vars => IInv'
<1> SUFFICES ASSUME IInv, [Next]_vars PROVE IInv'
  OBVIOUS
<1>1. TypeFlags /\ TypeNet /\ TypeControl /\ TypeData
  BY TypeParts DEF IInv
<1>2. TypeFlags'
  BY <1>1, FlagsStep
<1>3. TypeNet' /\ TypeControl'
  BY <1>1, NetStep, ControlStep
<1>4. TypeData'
  BY <1>1, DataStep DEF IInv
<1>5. TypeOK'
  BY <1>2, <1>3, <1>4, Zenon
     DEF TypeOK, TypeFlags, TypeNet, TypeControl, TypeData
<1>6. HandlesItsJob' /\ LoginIssued' /\ Gated' /\ TransactionOpen'
  BY JobStep, GateStep, TransactionStep
<1> QED
  BY <1>5, <1>6 DEF IInv

LEMMA IInvHolds == Spec => []IInv
BY InitIInv, IInvStep, PTL DEF Spec
-----------------------------------------------------------------------------
\* Every variable of the server, the network and the database keeps its type.
THEOREM TypeCorrect == Spec => []TypeOK
BY IInvHolds, PTL DEF IInv

\* No request ever runs inside a transaction another request left open: the
\* one MySQL connection is clean whenever a handler starts
\* (video_service.cpp:467-506).
THEOREM ConnectionClean == Spec => []NoTransactionLeft
<1>1. IInv => NoTransactionLeft
  BY DEF IInv, TransactionOpen, NoTransactionLeft, InSession, SessionSteps
<1> QED
  BY <1>1, IInvHolds, PTL

\* What a step can do to what everybody sees.
LEMMA CommittedStep ==
  ASSUME IInv, [Next]_vars
  PROVE  \/ committed' = committed
         \/ /\ pc \in {"video", "delete", "commit"}
            /\ \/ /\ request.job \in Uploads
                  /\ committed' = committed \cup RowsOf(request.job)
               \/ /\ request.job \in {"delete"} \X Sessions
                  /\ committed' = committed \ RowsOf(request.job)
<1> USE DEF IInv, TransactionOpen, InSession, SessionSteps
<1>1. CASE UNCHANGED vars
  BY <1>1 DEF vars, db
<1>2. CASE \E c \in Clients : ClientStep(c)
  BY <1>2 DEF ClientStep, Connect, Leave, SendRequest, db
<1>3. CASE DatabaseGone
  BY <1>3 DEF DatabaseGone, Broken
<1>4. CASE \/ StartServer \/ Accept \/ ReceiveEnd \/ Send \/ SendToNobody
           \/ Kill \/ Receive
  BY <1>4 DEF StartServer, Accept, ReceiveEnd, Send, SendToNobody, Kill,
              Receive, Close, ProcessEnds, db
<1>5. ASSUME NEW rows, Autocommit(rows) PROVE committed' \in {committed, rows}
  BY <1>5 DEF Autocommit, Executed, Failed, Broken, Uncertain, db
<1>6. CASE HandleLogin \/ Rollback
  BY <1>6 DEF HandleLogin, Rollback, Failed, Broken, db
<1>7. CASE HandleInsertVideo
  BY <1>5, <1>7 DEF HandleInsertVideo, HandlesItsJob
<1>8. CASE HandleDeleteImages
  BY <1>5, <1>8 DEF HandleDeleteImages, HandlesItsJob
<1>9. CASE HandleQuery
  BY <1>5, <1>9 DEF HandleQuery
<1>10. CASE StartTransaction
  BY <1>10 DEF StartTransaction, Failed, Broken, db
<1>11. ASSUME NEW row, NEW next, NEW error, Insert(row, next, error),
              pc \in InSession
       PROVE  committed' = committed
  BY <1>11 DEF Insert, Executed, Failed, Broken, Uncertain, db
<1>12. CASE InsertException \/ InsertSessionVideo \/ InsertImage
  BY <1>11, <1>12 DEF InsertException, InsertSessionVideo, InsertImage
<1>13. CASE Commit
  <2>1. committed' \in {committed, view}
    BY <1>13 DEF Commit, Failed, Broken, db
  <2>2. pc = "commit" /\ request.job \in Uploads
    BY <1>13 DEF Commit, HandlesItsJob, Uploads
  <2>3. view \in {committed, committed \cup RowsOf(request.job)}
    BY <2>2 DEF Written
  <2> QED
    BY <2>1, <2>2, <2>3
<1> QED
  BY <1>1, <1>2, <1>3, <1>4, <1>6, <1>7, <1>8, <1>9, <1>10, <1>12, <1>13
     DEF Next, Undisturbed, Server

\* The gate of TcpServer::start (tcp_server.cpp:114-124) cannot be passed
\* with a token of an earlier process.
THEOREM OnlyWithToken == Spec => StoreGated
<1>1. ASSUME IInv, [Next]_vars
      PROVE  [committed' # committed => request.token \in tokens]_vars
  BY <1>1, CommittedStep DEF IInv, Gated, SessionSteps
<1> QED
  BY <1>1, IInvHolds, PTL DEF Spec, StoreGated

\* An anomaly session is stored as a whole or not at all, whatever fails and
\* whenever: the server implements RecordStore.
THEOREM StoresWholeSessions == Spec => SessionsAtomic
<1>1. Init => Records!Init
  BY DEF Init, Records!Init
<1>2. ASSUME IInv, [Next]_vars PROVE [Records!Next]_committed
  <2>1. CASE committed' = committed
    BY <2>1
  <2>2. CASE /\ request.job \in Uploads
             /\ committed' = committed \cup RowsOf(request.job)
    BY <2>2 DEF Records!Next, Records!Store
  <2>3. CASE /\ request.job \in {"delete"} \X Sessions
             /\ committed' = committed \ RowsOf(request.job)
    <3>1. RowsOf(request.job) \in SUBSET AllImageRows
      BY <2>3 DEF RowsOf, AllImageRows
    <3> QED
      BY <2>3, <3>1 DEF Records!Next, Records!Remove
  <2> QED
    BY <1>2, <2>1, <2>2, <2>3, CommittedStep
<1> QED
  BY <1>1, <1>2, IInvHolds, PTL DEF Spec, SessionsAtomic, Records!Spec
=============================================================================
