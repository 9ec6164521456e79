----------------------------- MODULE SmartServer -----------------------------
(***************************************************************************)
(* The server of the system (src/server): TcpServer, which serves one      *)
(* client connection at a time and one request at a time, the handlers of  *)
(* its services, and the one MySQL connection all of them use.             *)
(*                                                                         *)
(* One action of the server runs from one call that leaves the process (a  *)
(* socket or a MySQL call) to the next.  Clients connect, send, and leave  *)
(* at any time; a statement may be refused or lose the MySQL connection,   *)
(* which nothing opens again; the process may die and be started again.    *)
(*                                                                         *)
(* MySQL is external and modelled by what the handlers rely on: a          *)
(* statement outside a transaction takes effect at once, START TRANSACTION *)
(* commits what was open, a lost connection rolls back, and an effect that *)
(* was under way when the connection was lost may have been made or not.   *)
(* Abstracted: SQL text, escaping, the columns and the framing of messages.*)
(***************************************************************************)
EXTENDS Integers, Sequences

CONSTANTS
  Clients,    \* the client connections; one can be opened again once closed
  NoClient,   \* no connection is being served
  Videos,     \* recorded files, each uploaded once
  Sessions,   \* anomaly sessions, each uploaded once
  Queries,    \* list queries, each sent once
  NumImages,  \* images of a session, at most 3 in the client
  MaxLogins,  \* bound: tokens given out
  MaxInflight \* bound: requests on their way on one connection

ASSUME NamesAssumption ==
  /\ NoClient \notin Clients
  /\ Videos \cap Sessions = {}

ASSUME BoundsAssumption ==
  /\ NumImages \in Nat
  /\ MaxLogins \in Nat
  /\ MaxInflight \in Nat

VARIABLES
  link,       \* clients: whether each has its connection open
  backlog,    \* connections waiting to be accepted, in order
  inbox,      \* requests sent and not yet received, per connection
  sent,       \* jobs already requested
  known,      \* tokens that reached a client
  answer,     \* jobs: the code the client got
  pc,         \* server: the call it is at
  serving,    \* clientFd
  request,    \* the request being handled
  code,       \* response["code"]
  image,      \* the index in data["images"]
  tokens,     \* m_tokenUsers
  issued,     \* tokens generated so far
  committed,  \* MySQL: the rows every reader sees
  view,       \* the rows the server's connection sees
  inTxn,      \* a transaction is open on it
  dbUp        \* the connection is alive

client == <<link, inbox, sent, known, answer>>
db == <<committed, view, inTxn, dbUp>>
vars == <<client, backlog, pc, serving, request, code, image, tokens, issued,
          db>>

local == <<pc, serving, request, code, image, tokens, issued>>

NoToken == 0
Unanswered == -1
Images == 1..NumImages

\* What clients ask for.  A login may be sent any number of times.
Uploads == ({"video"} \X Videos) \cup ({"session"} \X Sessions)
Jobs == Uploads \cup ({"delete"} \X Sessions) \cup ({"query"} \X Queries)
Login == <<"login", "">>
NoRequest == [job |-> Login, token |-> NoToken]
Requests == [job : Jobs \cup {Login}, token : 0..MaxLogins]

\* The rows a job is about.
ImageRows(s) == {<<"feature_image", s, i>> : i \in Images}
RowsOf(job) ==
  CASE job[1] = "video"   -> {<<"video", job[2], 0>>}
    [] job[1] = "session" -> {<<"exception_log", job[2], 0>>,
                              <<"video", job[2], 0>>} \cup ImageRows(job[2])
    [] job[1] = "delete"  -> ImageRows(job[2])
    [] OTHER              -> {}
AllImageRows == UNION {ImageRows(s) : s \in Sessions}

Codes == {0, 401, 2001, 3001, 3002, 3003, 3004, 3005}

ServerStates ==
  {"down", "accept", "recv", "login", "video", "delete", "query", "start",
   "exception", "sessionVideo", "images", "commit", "rollback", "send"}

Init ==
  /\ link = [c \in Clients |-> FALSE]
  /\ backlog = <<>>
  /\ inbox = [c \in Clients |-> <<>>]
  /\ sent = {}
  /\ known = {}
  /\ answer = [j \in Jobs |-> Unanswered]
  /\ pc = "down"
  /\ serving = NoClient
  /\ request = NoRequest
  /\ code = 0
  /\ image = 1
  /\ tokens = {}
  /\ issued = 0
  /\ committed = {}
  /\ view = {}
  /\ inTxn = FALSE
  /\ dbUp = FALSE
-----------------------------------------------------------------------------
(***************************************************************************)
(* MySQL, as one connection of it behaves.                                 *)
(***************************************************************************)

\* A statement after which the connection sees these rows.
Executed(rows) ==
  /\ dbUp
  /\ view' = rows
  /\ committed' = IF inTxn THEN committed ELSE rows
  /\ UNCHANGED <<inTxn, dbUp>>

\* The connection is lost while a statement runs, with one of these outcomes.
Broken(outcomes) ==
  /\ dbUp
  /\ dbUp' = FALSE
  /\ inTxn' = FALSE
  /\ committed' \in outcomes
  /\ view' = committed'

\* mysql_query returns an error: the statement was refused, the connection
\* was gone before, or is lost now.
Failed(outcomes) == UNCHANGED db \/ Broken(outcomes)

\* What may have become of a statement whose connection was lost.
Uncertain(rows) == IF inTxn THEN {committed} ELSE {committed, rows}

\* The connection is lost between two statements, such as by its timeout.
DatabaseGone ==
  /\ Broken({committed})
  /\ UNCHANGED <<client, backlog, local>>
-----------------------------------------------------------------------------
(***************************************************************************)
(* The clients, as connections.  A token that reached one may be used on   *)
(* another.                                                                *)
(***************************************************************************)
Waiting(c) == \E i \in 1..Len(backlog) : backlog[i] = c

Connect(c) ==
  /\ pc # "down"
  /\ ~link[c]
  /\ ~Waiting(c)
  /\ serving # c
  /\ link' = [link EXCEPT ![c] = TRUE]
  /\ backlog' = Append(backlog, c)
  /\ UNCHANGED <<inbox, sent, known, answer, local, db>>

\* What was sent may still arrive, or be lost with the connection.
Leave(c) ==
  /\ link[c]
  /\ link' = [link EXCEPT ![c] = FALSE]
  /\ inbox' \in {inbox, [inbox EXCEPT ![c] = <<>>]}
  /\ UNCHANGED <<backlog, sent, known, answer, local, db>>

SendRequest(c, job, token) ==
  /\ link[c]
  /\ Len(inbox[c]) < MaxInflight
  /\ job \notin sent
  /\ job[1] = "delete" => RowsOf(job) \cap committed # {}
  /\ inbox' = [inbox EXCEPT ![c] =
                 Append(@, [job |-> job, token |-> token])]
  /\ sent' = IF job = Login THEN sent ELSE sent \cup {job}
  /\ UNCHANGED <<link, backlog, known, answer, local, db>>
-----------------------------------------------------------------------------
(***************************************************************************)
(* TcpServer: the process and its two loops.                               *)
(***************************************************************************)

\* main connects to the database, then listens.
StartServer ==
  /\ pc = "down"
  /\ pc' = "accept"
  /\ dbUp' = TRUE
  /\ UNCHANGED <<client, backlog, serving, request, code, image, tokens,
                 issued, committed, view, inTxn>>

\* The variables of one turn of the inner loop.
Forget == request' = NoRequest /\ code' = 0 /\ image' = 1

\* With the process go its connections and the tokens it gave out.
ProcessEnds ==
  /\ pc' = "down"
  /\ link' = [c \in Clients |-> FALSE]
  /\ inbox' = [c \in Clients |-> <<>>]
  /\ backlog' = <<>>
  /\ serving' = NoClient
  /\ tokens' = {}
  /\ view' = committed
  /\ inTxn' = FALSE
  /\ dbUp' = FALSE
  /\ Forget
  /\ UNCHANGED <<sent, known, answer, issued, committed>>

Kill == pc # "down" /\ ProcessEnds

Accept ==
  /\ pc = "accept"
  /\ backlog # <<>>
  /\ serving' = Head(backlog)
  /\ backlog' = Tail(backlog)
  /\ pc' = "recv"
  /\ UNCHANGED <<client, request, code, image, tokens, issued, db>>

\* The inner loop is left and the connection closed.
Close ==
  /\ inbox' = [inbox EXCEPT ![serving] = <<>>]
  /\ serving' = NoClient
  /\ pc' = "accept"
  /\ Forget
  /\ UNCHANGED <<link, backlog, sent, known, answer, tokens, issued, db>>

\* Bug: the inner loop is not left when recvJson fails.
ReceiveEndRetry ==
  /\ pc = "recv"
  /\ ~link[serving]
  /\ inbox[serving] = <<>>
  /\ UNCHANGED vars

\* recvJson fails when the peer has gone and nothing of it is left.
ReceiveEnd ==
  /\ pc = "recv"
  /\ ~link[serving]
  /\ inbox[serving] = <<>>
  /\ Close

\* The call the handler of a request begins with.
FirstCall(job) == IF job[1] = "session" THEN "start" ELSE job[1]

\* Bug: any token will do, one of an earlier process too.
AuthorizedAnyToken(r) == r.job = Login \/ r.token # NoToken

\* Every request but a login needs a token this process gave out.
Authorized(r) == r.job = Login \/ r.token \in tokens

\* Bug: the loop goes on before the refusal is sent.
ReceiveUnanswered ==
  /\ pc = "recv"
  /\ inbox[serving] # <<>>
  /\ inbox' = [inbox EXCEPT ![serving] = Tail(@)]
  /\ IF Authorized(Head(inbox[serving]))
     THEN /\ request' = Head(inbox[serving])
          /\ pc' = FirstCall(request'.job)
     ELSE UNCHANGED <<request, pc>>
  /\ UNCHANGED <<link, backlog, sent, known, answer, serving, code, image,
                 tokens, issued, db>>

Receive ==
  /\ pc = "recv"
  /\ inbox[serving] # <<>>
  /\ request' = Head(inbox[serving])
  /\ inbox' = [inbox EXCEPT ![serving] = Tail(@)]
  /\ IF Authorized(request')
     THEN pc' = FirstCall(request'.job) /\ code' = 0
     ELSE pc' = "send" /\ code' = 401
  /\ image' = 1
  /\ UNCHANGED <<link, backlog, sent, known, answer, serving, tokens, issued,
                 db>>

\* The answer reaches the client, with the token if it was a login; ...
Send ==
  /\ pc = "send"
  /\ link[serving]
  /\ answer' = [j \in Jobs |-> IF j = request.job THEN code ELSE answer[j]]
  /\ known' = IF request.job = Login /\ code = 0
              THEN known \cup {issued} ELSE known
  /\ pc' = "recv"
  /\ Forget
  /\ UNCHANGED <<link, inbox, backlog, sent, serving, tokens, issued, db>>

\* ... or the client has gone: the bytes vanish, send() reports an error, or
\* it raises SIGPIPE, which nothing handles.
SendToNobody ==
  /\ pc = "send"
  /\ ~link[serving]
  /\ \/ /\ pc' = "recv"
        /\ Forget
        /\ UNCHANGED <<client, backlog, serving, tokens, issued, db>>
     \/ Close
     \/ ProcessEnds
-----------------------------------------------------------------------------
(***************************************************************************)
(* The handlers.  Each ends with a response to send.                       *)
(***************************************************************************)
Respond(c) == pc' = "send" /\ code' = c

\* The query of admin_user, a new token, and its entry in m_tokenUsers.
HandleLogin ==
  /\ pc = "login"
  /\ \/ /\ dbUp
        /\ issued < MaxLogins
        /\ issued' = issued + 1
        /\ tokens' = tokens \cup {issued'}
        /\ Respond(0)
        /\ UNCHANGED db
     \/ /\ dbUp
        /\ Respond(2001)
        /\ UNCHANGED <<tokens, issued, db>>
     \/ /\ Failed({committed})
        /\ Respond(3001)
        /\ UNCHANGED <<tokens, issued>>
  /\ UNCHANGED <<client, backlog, serving, request, image>>

\* A handler of one statement, outside a transaction.
Autocommit(rows) ==
  /\ \/ Executed(rows) /\ Respond(0)
     \/ Failed(Uncertain(rows)) /\ Respond(3001)
  /\ UNCHANGED <<client, backlog, serving, request, image, tokens, issued>>

HandleInsertVideo == pc = "video" /\ Autocommit(view \cup RowsOf(request.job))
HandleDeleteImages == pc = "delete" /\ Autocommit(view \ RowsOf(request.job))
HandleQuery == pc = "query" /\ Autocommit(view)

\* Bug: no transaction is started.
StartTransactionNever ==
  /\ pc = "start"
  /\ pc' = "exception"
  /\ UNCHANGED <<client, backlog, serving, request, code, image, tokens,
                 issued, db>>

\* handleInsertAnomalySession, statement by statement.
StartTransaction ==
  /\ pc = "start"
  /\ \/ /\ dbUp
        /\ committed' = view
        /\ inTxn' = TRUE
        /\ pc' = "exception"
        /\ UNCHANGED <<code, view, dbUp>>
     \/ Failed({committed}) /\ Respond(3001)
  /\ UNCHANGED <<client, backlog, serving, request, image, tokens, issued>>

\* Bug: a failed INSERT is answered without a ROLLBACK.
InsertNoRollback(row, next, error) ==
  /\ \/ Executed(view \cup {row}) /\ pc' = next /\ UNCHANGED code
     \/ Failed(Uncertain(view \cup {row})) /\ Respond(error)
  /\ UNCHANGED <<client, backlog, serving, request, tokens, issued>>

\* An INSERT of the transaction: go on, or give up with this code.
Insert(row, next, error) ==
  /\ \/ Executed(view \cup {row}) /\ pc' = next /\ UNCHANGED code
     \/ /\ Failed(Uncertain(view \cup {row}))
        /\ pc' = "rollback"
        /\ code' = error
  /\ UNCHANGED <<client, backlog, serving, request, tokens, issued>>

InsertException ==
  /\ pc = "exception"
  /\ Insert(<<"exception_log", request.job[2], 0>>, "sessionVideo", 3002)
  /\ UNCHANGED image

\* Bug: one image too many.
AfterImageTooLate(i) == IF i <= NumImages THEN "images" ELSE "commit"

AfterImage(i) == IF i < NumImages THEN "images" ELSE "commit"

InsertSessionVideo ==
  /\ pc = "sessionVideo"
  /\ Insert(<<"video", request.job[2], 0>>, AfterImage(0), 3003)
  /\ UNCHANGED image

InsertImage ==
  /\ pc = "images"
  /\ Insert(<<"feature_image", request.job[2], image>>, AfterImage(image),
            3004)
  /\ image' = image + 1

\* Bug: the result of COMMIT is not looked at.
CommitUnchecked ==
  /\ pc = "commit"
  /\ \/ /\ dbUp
        /\ committed' = view
        /\ inTxn' = FALSE
        /\ UNCHANGED <<view, dbUp>>
     \/ Failed({committed, view})
  /\ Respond(0)
  /\ UNCHANGED <<client, backlog, serving, request, image, tokens, issued>>

\* A failed COMMIT is followed by a ROLLBACK, like a failed INSERT.
Commit ==
  /\ pc = "commit"
  /\ \/ /\ dbUp
        /\ committed' = view
        /\ inTxn' = FALSE
        /\ Respond(0)
        /\ UNCHANGED <<view, dbUp>>
     \/ /\ Failed({committed, view})
        /\ pc' = "rollback"
        /\ code' = 3005
  /\ UNCHANGED <<client, backlog, serving, request, image, tokens, issued>>

\* Its result is not looked at.
Rollback ==
  /\ pc = "rollback"
  /\ \/ /\ dbUp
        /\ view' = committed
        /\ inTxn' = FALSE
        /\ UNCHANGED <<committed, dbUp>>
     \/ ~dbUp /\ UNCHANGED db
     \/ Broken({committed})
  /\ Respond(code)
  /\ UNCHANGED <<client, backlog, serving, request, image, tokens, issued>>

Server ==
  \/ Accept \/ ReceiveEnd \/ Receive \/ Send \/ SendToNobody
  \/ HandleLogin \/ HandleInsertVideo \/ HandleDeleteImages \/ HandleQuery
  \/ StartTransaction \/ InsertException \/ InsertSessionVideo \/ InsertImage
  \/ Commit \/ Rollback

ClientStep(c) ==
  \/ Connect(c)
  \/ Leave(c)
  \/ \E job \in Jobs \cup {Login}, token \in known \cup {NoToken} :
       SendRequest(c, job, token)

Undisturbed ==
  \/ Server
  \/ StartServer
  \/ DatabaseGone
  \/ \E c \in Clients : ClientStep(c)

Next == Undisturbed \/ Kill

Spec == Init /\ [][Next]_vars

\* Nobody kills the process.
UndisturbedSpec == Init /\ [][Undisturbed]_vars

\* The process is scheduled and every MySQL call returns.  No client owes a
\* request or a farewell.
FairSpec == Spec /\ WF_vars(Server)
-----------------------------------------------------------------------------
TypeOK ==
  /\ link \in [Clients -> BOOLEAN]
  /\ backlog \in Seq(Clients)
  /\ inbox \in [Clients -> Seq(Requests)]
  /\ sent \subseteq Jobs
  /\ known \subseteq 1..issued
  /\ answer \in [Jobs -> Codes \cup {Unanswered}]
  /\ pc \in ServerStates
  /\ serving \in Clients \cup {NoClient}
  /\ serving = NoClient <=> pc \in {"down", "accept"}
  /\ request \in Requests
  /\ code \in Codes
  /\ image \in 1..(NumImages + 1)
  /\ tokens \subseteq 1..issued
  /\ issued \in 0..MaxLogins
  /\ inTxn \in BOOLEAN
  /\ dbUp \in BOOLEAN

\* The connection all requests share never carries the transaction of one
\* request into another: outside the handler of a session none is open, and
\* the server sees what everybody sees.
NoTransactionLeft ==
  pc \notin {"exception", "sessionVideo", "images", "commit", "rollback"} =>
    ~inTxn /\ view = committed

\* What a client was told is what the database holds.  A 0 means stored (its
\* images until they are deleted) or deleted; an error before COMMIT means
\* nothing was stored.  The other errors leave it open.
AnswerTruthful ==
  \A j \in Jobs :
    /\ j[1] = "video" /\ answer[j] = 0 => RowsOf(j) \subseteq committed
    /\ j[1] = "session" /\ answer[j] = 0 =>
         RowsOf(j) \ committed \subseteq
           IF <<"delete", j[2]>> \in sent THEN ImageRows(j[2]) ELSE {}
    /\ j[1] = "session" /\ answer[j] \in {401, 3001, 3002, 3003, 3004} =>
         RowsOf(j) \cap committed = {}
    /\ j[1] = "delete" /\ answer[j] = 0 => RowsOf(j) \cap committed = {}

\* The database changes only for a request that carries a token of a login
\* made since the server was started.
StoreGated == [][committed' # committed => request.token \in tokens]_vars

\* An anomaly session is stored as a whole or not at all, whichever statement
\* fails, and whenever the connection or the process ends.
Records == INSTANCE RecordStore WITH
  stored <- committed,
  Units <- {RowsOf(j) : j \in Uploads},
  Removable <- AllImageRows

SessionsAtomic == Records!Spec

\* A request that is being sent over a connection that is being served gets
\* an answer, unless the client or the server goes.
RequestsAnswered ==
  \A c \in Clients, j \in Jobs :
    (serving = c /\ link[c] /\ \E i \in 1..Len(inbox[c]) : inbox[c][i].job = j)
      ~> (answer[j] # Unanswered \/ ~link[c])

\* One connection is served at a time.  Another one is served in turn if every
\* client leaves again and again.
BacklogServed ==
  (\A c \in Clients : []<>~link[c]) =>
    \A c \in Clients : Waiting(c) ~> (serving = c \/ pc = "down")

\* The comments of sendAll and start: an answer that cannot be sent ends the
\* connection, and the accept loop never ends.
ListensForever == [][pc # "down" => pc' # "down"]_vars
=============================================================================
