----------------------------- MODULE ClientPages -----------------------------
(***************************************************************************)
(* The windows of the client over one ClientApi, and the server at the     *)
(* other end: LoginWidget, MainWidget, which lets only a user in, the two  *)
(* ReviewWidgets, LogWidget, and what Monitorwidget uploads.               *)
(*                                                                         *)
(* The server answers one request after the other.  Which statements fail, *)
(* and how, is SmartServer; here a handler is a set of answers (Records).  *)
(* Answers carry about, what was asked: the server does not send it, it is *)
(* there to say what a list is the answer to.                              *)
(***************************************************************************)
EXTENDS ReviewWidget

CONSTANTS
  Users,         \* names that can be typed in
  NoUser,        \* nobody has logged in
  StoredVideos,  \* the tables at the beginning
  StoredImages,
  PlainTabs,     \* widgets that are only brought up: "monitor", "setting"
  Uploads,       \* recordings to come: a video with the images of a session
  LogPageSize,   \* rows of a page of the log
  LoginAgain,    \* bound: a user who has logged in may open the login again
  MaxClicks      \* bound: clicks and recordings that lead to a request

ASSUME PagesAssumption ==
  /\ NoUser \notin Users
  /\ PlainTabs \subseteq {"monitor", "setting"}
  /\ LogPageSize \in Nat \ {0}
  /\ LoginAgain \in BOOLEAN
  /\ MaxClicks \in Nat

\* What is stored at the beginning or is to come.
AllImages == StoredImages \cup UNION {u.images : u \in Uploads}

\* Tables are finite.  The path of an image that was detected names one image,
\* which is recorded once: it carries channel, time and frame.  Recordings are
\* saved as .avi and images as .jpg.
ASSUME TablesAssumption ==
  /\ IsFiniteSet(StoredVideos) /\ IsFiniteSet(StoredImages)
  /\ \A u \in Uploads : IsFiniteSet(u.images)
  /\ \A v \in StoredVideos \cup {u.video : u \in Uploads} : v.path[1] = "avi"
  /\ \A i \in AllImages : i.path[1] # "avi"
  /\ \A i, j \in AllImages : i.path = j.path => i = j
  /\ \A u \in Uploads :
       /\ u.images \cap StoredImages = {}
       /\ \A w \in Uploads \ {u} : u.images \cap w.images = {}

\* Records are of the channels there are (channelId + 1 of Monitorwidget and
\* MonitorTask, m_box_channel of ReviewWidget).
ASSUME ChannelsAssumption ==
  /\ \A row \in StoredVideos \cup AllImages : row.channel \in Channels
  /\ \A u \in Uploads : u.video.channel \in Channels

VARIABLES
  user,      \* MainWidget and Monitorwidget: m_loginUser
  login,     \* LoginWidget
  log,       \* LogWidget
  finished,  \* recordings that are complete
  videos,    \* the server's tables
  images,
  lastId     \* the number given to the last row

windows == <<user, login, log, finished>>
server == <<videos, images, lastId>>
vars == <<api, review, budget, windows, server>>

LogModes == {"operation", "exception"}

Init ==
  /\ ApiInit
  /\ page = [s \in Scopes |-> FreshPage]
  /\ modal = NoModal
  /\ tab = "monitor"
  /\ files = Paths(StoredVideos) \cup Paths(StoredImages)
  /\ named = Paths(AllImages)
  /\ again = {}
  /\ budget = MaxClicks
  /\ user = NoUser
  /\ login = [wait |-> 0, name |-> NoUser]
  /\ log = [mode |-> "operation", disabled |-> "operation",
            curPage |-> 1, totalPage |-> 1, prev |-> FALSE, next |-> FALSE,
            wait |-> 0, shown |-> NoList]
  /\ finished = {}
  /\ videos = StoredVideos
  /\ images = StoredImages
  /\ lastId = 0
-----------------------------------------------------------------------------
(***************************************************************************)
(* The connection.                                                         *)
(***************************************************************************)
LinkUp ==
  /\ Connected
  /\ UNCHANGED <<token, nextRequestId, wire, inbound, review, budget, windows,
                 server>>

\* errorOccurred and disconnected; only LoginWidget listens, and stops to
\* wait (onNetworkError).
LinkLost ==
  /\ Disconnected
  /\ login' = [login EXCEPT !.wait = 0]
  /\ UNCHANGED <<review, budget, user, log, finished, server>>
-----------------------------------------------------------------------------
(***************************************************************************)
(* LoginWidget, a window that hides the main one while it is shown.        *)
(***************************************************************************)
OpenLogin ==
  /\ user = NoUser \/ LoginAgain
  /\ modal = NoModal
  /\ modal' = [NoModal EXCEPT !.kind = "login"]
  /\ UNCHANGED <<api, page, tab, disk, budget, windows, server>>

LoginRequest(u) == [type |-> "LOGIN", about |-> [user |-> u]]

\* login: the button is disabled while an answer is awaited.
Login ==
  /\ modal.kind = "login"
  /\ login.wait = 0
  /\ IsConnected
  /\ Spend
  /\ \E u \in Users :
       /\ login' = [wait |-> LastId(1), name |-> u]
       /\ Send(<<LoginRequest(u)>>)
  /\ UNCHANGED <<link, token, inbound, review, user, log, finished, server>>

\* onLoginFinished and showusrname.
OnLoginFinished ==
  /\ Arrived("LOGIN")
  /\ Taken
  /\ Keep(Answer.ok)
  /\ IF login.wait # 0 /\ login.wait = Answer.id
     THEN /\ login' = [login EXCEPT !.wait = 0]
          /\ user' = IF Answer.ok THEN login.name ELSE user
          /\ modal' = IF Answer.ok /\ modal.kind = "login" THEN NoModal
                      ELSE modal
     ELSE UNCHANGED <<login, user, modal>>
  /\ UNCHANGED <<nextRequestId, wire, page, tab, disk, budget, log, finished,
                 server>>
-----------------------------------------------------------------------------
(***************************************************************************)
(* MainWidget.                                                             *)
(***************************************************************************)
\* Everything but the live view is for users.
MayEnter(t) == t = "monitor" \/ user # NoUser

\* switchToMonitor and switchToSetting only bring up a widget.
SwitchTo(t) ==
  /\ modal = NoModal
  /\ tab # t
  /\ MayEnter(t)
  /\ tab' = t
  /\ UNCHANGED <<api, page, modal, disk, budget, windows, server>>

\* switchToReview and switchToAnomalyReview.
SwitchToReview(s) ==
  /\ modal = NoModal
  /\ MayEnter(s)
  /\ Spend
  /\ RefreshData(s)
  /\ tab' = s
  /\ UNCHANGED <<link, token, inbound, modal, disk, windows, server>>
-----------------------------------------------------------------------------
(***************************************************************************)
(* LogWidget.                                                              *)
(***************************************************************************)
LogRequest(mode, n) ==
  [type |-> "LOG_LIST", about |-> [mode |-> mode, page |-> Larger(1, n)]]

\* loadPage and updateModeButtonState: disabled is the mode of the button
\* that is, which is left behind when there is no connection.
LoadLog(mode, n) ==
  IF IsConnected
  THEN /\ log' = [log EXCEPT !.mode = mode, !.disabled = mode,
                             !.curPage = Larger(1, n), !.shown = NoList,
                             !.prev = FALSE, !.next = FALSE,
                             !.wait = LastId(1)]
       /\ Send(<<LogRequest(mode, n)>>)
  ELSE /\ log' = [log EXCEPT !.mode = mode]
       /\ UNCHANGED <<nextRequestId, wire>>

\* switchToLogView and refreshLogs.
SwitchToLog ==
  /\ modal = NoModal
  /\ MayEnter("log")
  /\ Spend
  /\ LoadLog(log.mode, 1)
  /\ tab' = "log"
  /\ UNCHANGED <<link, token, inbound, page, modal, disk, user, login,
                 finished, server>>

\* The two mode buttons and the two page buttons.
LogButtons ==
  {b \in LogModes \X {1, log.curPage - 1, log.curPage + 1} :
     \/ b[1] # log.disabled /\ b[2] = 1
     \/ b[1] = log.mode /\ log.prev /\ b[2] = log.curPage - 1
     \/ b[1] = log.mode /\ log.next /\ b[2] = log.curPage + 1}

ClickLog ==
  /\ At("log")
  /\ Spend
  /\ \E b \in LogButtons : LoadLog(b[1], b[2])
  /\ UNCHANGED <<link, token, inbound, review, user, login, finished, server>>

\* onLogListFinished.
OnLogListFinished ==
  /\ Arrived("LOG_LIST")
  /\ Taken
  /\ log' = IF log.wait = 0 \/ log.wait # Answer.id THEN log
            ELSE LET heard == [log EXCEPT !.wait = 0,
                                          !.prev = log.curPage > 1]
                     pages == Larger(1, (Answer.total + LogPageSize - 1)
                                        \div LogPageSize)
                 IN IF ~Answer.ok THEN heard
                    ELSE [heard EXCEPT
                      !.shown = [query |-> Answer.about, rows |-> Answer.rows],
                      !.totalPage = pages, !.next = log.curPage < pages,
                      !.disabled = log.mode]
  /\ UNCHANGED <<token, nextRequestId, wire, review, budget, user, login,
                 finished, server>>
-----------------------------------------------------------------------------
(***************************************************************************)
(* Monitorwidget: what the channels recorded.  Without a connection the    *)
(* record is given up, and the file stays.                                 *)
(***************************************************************************)
UploadRequest(u) ==
  [type |-> IF u.video.anomaly THEN "SESSION" ELSE "INSERT_VIDEO",
   about |-> u]

\* saveVideoRecord, and the end of on_anomaly_session_ready.
Upload(u) ==
  IF IsConnected THEN Send(<<UploadRequest(u)>>)
  ELSE UNCHANGED <<nextRequestId, wire>>

\* on_recording_changed or on_anomaly_session_ready.
\* Recording is enabled by the login.
RecordingFinished ==
  /\ user # NoUser
  /\ Spend
  /\ \E u \in Uploads \ finished :
       /\ finished' = finished \cup {u}
       /\ files' = files \cup Paths({u.video} \cup u.images)
       /\ Upload(u)
  /\ UNCHANGED <<named, again>>
  /\ UNCHANGED <<link, token, inbound, page, modal, tab, user, login, log,
                 server>>

\* onInsertVideoFinished and onAnomalySessionFinished only change a label.
OnUploadFinished ==
  /\ Arrived("INSERT_VIDEO") \/ Arrived("SESSION")
  /\ Taken
  /\ UNCHANGED <<token, nextRequestId, wire, review, budget, windows, server>>
-----------------------------------------------------------------------------
(***************************************************************************)
(* The server.                                                             *)
(***************************************************************************)
Request == Head(wire)

\* isLoginRequest, isValidToken; m_tokenUsers never forgets a token.
Authorized(r) == r.type = "LOGIN" \/ r.token # ""

\* Dispatch, or makeUnauthorizedResponse, which changes nothing.
Served(outcomes, refusal) ==
  IF Authorized(Request) THEN outcomes ELSE {refusal}

Received(types) == wire # <<>> /\ Request.type \in types

Reply(id, ok, rows, total) ==
  /\ wire' = Tail(wire)
  /\ inbound' = IF link # "up" THEN inbound
                ELSE Append(inbound,
                       [id |-> id, type |-> Request.type, ok |-> ok,
                        rows |-> rows, total |-> total,
                        about |-> Request.about])
  /\ UNCHANGED <<link, token, nextRequestId, review, budget, windows>>

HandleLogin ==
  /\ Received({"LOGIN"})
  /\ \E ok \in BOOLEAN : Reply(Request.id, ok, <<>>, 0)
  /\ UNCHANGED server

Found(r) ==
  CASE r.type = "VIDEO_LIST" -> QueryVideoList(videos, r.about)
    [] r.type = "IMAGE_LIST" -> QueryImageList(images, r.about)
    [] r.type = "RELATED" ->
         FindRelatedVideo(videos, r.about.scope, r.about.channel, r.about.at)

\* handleQueryVideoList, handleQueryImageList and handleFindRelatedVideo.
HandleQuery ==
  /\ Received({"VIDEO_LIST", "IMAGE_LIST", "RELATED"})
  /\ \E a \in Served(Found(Request), Refused) :
       Reply(Request.id, a.ok, a.rows, a.total)
  /\ UNCHANGED server

\* queryExceptionLogs and queryOperationLogs begin a response of their own,
\* without the number that handleQueryLogList had put into its one.
HandleQueryLogList ==
  /\ Received({"LOG_LIST"})
  /\ \E answer \in Served({<<0, TRUE>>, <<0, FALSE>>},
                          <<Request.id, FALSE>>) :
       Reply(answer[1], answer[2], <<>>, 0)
  /\ UNCHANGED server

\* handleInsertVideo and handleInsertAnomalySession.
HandleUpload ==
  /\ Received({"INSERT_VIDEO", "SESSION"})
  /\ \E e \in Served(Edits(<<videos, images>>,
                           <<videos \cup {Request.about.video},
                             images \cup Request.about.images>>),
                     [ok |-> FALSE, table |-> <<videos, images>>]) :
       /\ videos' = e.table[1]
       /\ images' = e.table[2]
       /\ Reply(Request.id, e.ok, <<>>, 0)
  /\ UNCHANGED lastId

\* The row of a snapshot: of now, and of no session.
SnapshotRow(r) ==
  [id |-> 100 + lastId, channel |-> r.channel, at |-> Today * DayLength,
   anomaly |-> FALSE, path |-> r.path]

HandleInsertImage ==
  /\ Received({"INSERT_IMAGE"})
  /\ \E e \in Served(InsertImage(images, SnapshotRow(Request.about)),
                     [ok |-> FALSE, table |-> images]) :
       /\ images' = e.table
       /\ Reply(Request.id, e.ok, <<>>, 0)
  /\ lastId' = lastId + 1
  /\ UNCHANGED videos

HandleDeleteImages ==
  /\ Received({"DELETE"})
  /\ \E e \in Served(DeleteImages(images, Request.about.ids),
                     [ok |-> FALSE, table |-> images]) :
       /\ images' = e.table
       /\ Reply(Request.id, e.ok, <<>>, 0)
  /\ UNCHANGED <<videos, lastId>>
-----------------------------------------------------------------------------
Server ==
  \/ HandleLogin \/ HandleQuery \/ HandleQueryLogList
  \/ HandleUpload \/ HandleInsertImage \/ HandleDeleteImages

ReviewClick(s) ==
  \/ PrevPage(s) \/ NextPage(s) \/ ChangeDate(s) \/ ChangeChannel(s)
  \/ SwitchRecordMode(s)
  \/ SelectItem(s) \/ Play(s) \/ VideoFrame(s)
  \/ AskDelete(s) \/ OpenPreview(s) \/ AskSave(s)

ReviewStep ==
  /\ \/ \E s \in Scopes : ReviewClick(s)
     \/ CloseDialog \/ ConfirmDelete \/ AskRelated \/ SaveFrame
  /\ UNCHANGED <<windows, server>>

ReviewAnswer ==
  /\ \/ OnVideoListFinished \/ OnImageListFinished \/ OnInsertImageFinished
     \/ OnRelatedVideoFinished \/ OnDeleteImagesFinished
  /\ UNCHANGED <<windows, server>>

Answers == ReviewAnswer \/ OnLoginFinished \/ OnLogListFinished
           \/ OnUploadFinished

UserStep ==
  \/ OpenLogin \/ Login
  \/ \E t \in PlainTabs : SwitchTo(t)
  \/ \E s \in Scopes : SwitchToReview(s)
  \/ SwitchToLog \/ ClickLog
  \/ ReviewStep

Next == LinkUp \/ LinkLost \/ UserStep \/ RecordingFinished \/ Answers \/ Server

Spec == Init /\ [][Next]_vars
-----------------------------------------------------------------------------
Messages == Range(wire) \cup Range(inbound)

\* What waits, and for which number.
Waiters ==
  {w \in {[kind |-> k, of |-> s, id |-> page[s].wait[k]] :
             s \in Scopes, k \in Kinds}
         \cup {[kind |-> "login", of |-> "login", id |-> login.wait],
               [kind |-> "log", of |-> "log", id |-> log.wait]} :
     w.id # 0}

TypeOf(kind) ==
  CASE kind = "videos" -> "VIDEO_LIST" [] kind = "images" -> "IMAGE_LIST"
    [] kind = "related" -> "RELATED" [] kind = "insert" -> "INSERT_IMAGE"
    [] kind = "delete" -> "DELETE" [] kind = "login" -> "LOGIN"
    [] kind = "log" -> "LOG_LIST"

TypeOK ==
  /\ link \in {"connecting", "up", "down"}
  /\ nextRequestId \in Nat \ {0}
  /\ \A m \in Messages : m.id < nextRequestId
  /\ tab \in {"monitor", "setting", "log"} \cup Scopes
  /\ modal.kind \in {"", "login", "delete", "preview", "save"}
  /\ user \in Users \cup {NoUser}
  /\ \A s \in Scopes :
       /\ page[s].mode \in {"video", "image"}
       /\ page[s].date \in Dates
       /\ page[s].channel \in Channels \cup {AllChannels}
       /\ page[s].curPage \in 1..(MaxClicks + 1)

\* The pages of a list, as many as the page label counts, hold every row once
\* (the offset of the server and the page count of the client; lists of up to
\* two pages).
PagesPartition ==
  \A n \in 0..(PageSize + 1) :
    LET pages == [p \in 1..PageCount(n) |->
                    Page([i \in 1..n |-> i], p, PageSize)]
    IN \A i \in 1..n : \E p \in DOMAIN pages :
         \A q \in DOMAIN pages : i \in Range(pages[q]) <=> q = p

\* A list is the answer to what the controls of its page say, whatever was
\* asked before, by either page and in either mode.
ListMatchesControls ==
  \A s \in Scopes :
    link = "up" /\ page[s].shown # NoList =>
      page[s].shown.query =
        [scope |-> s, date |-> page[s].date, channel |-> page[s].channel,
         page |-> page[s].curPage]

\* No two wait for the same number.
OneTaker == \A v, w \in Waiters : v.id = w.id => v = w

\* An answer is for one page and one purpose at most (reviewwidget.h:79), and
\* while the connection holds what a page waits for is on its way, whatever
\* was asked again in between.  (Not so for the log page, whose answers come
\* without a number.)  The page buttons of a list are disabled exactly as long
\* as it is awaited.
AnswersFindTheirPage ==
  /\ OneTaker
  /\ link = "up" =>
       /\ \A w \in Waiters : w.kind # "log" =>
            \E m \in Messages : m.id = w.id /\ m.type = TypeOf(w.kind)
       /\ \A s \in Scopes :
            page[s].loading <=> page[s].wait[ListKind(page[s].mode)] # 0

\* A record never outlives its file: a recording never, and an image never but
\* when a snapshot was saved over it or under its name.  (Then two rows can
\* have one file, which goes with the first of them that is deleted.)
FilesFollowRows ==
  /\ Paths(videos) \subseteq files
  /\ Paths(images) \subseteq files \cup again

\* The video opened for an image is one that was recording when the image was
\* taken, whatever image was asked about last; and the frame a snapshot would
\* take is of the channel it would be recorded under, unless it is a late one
\* of the file before (stop does not take back what the player has handed out).
PlaysTheRecording ==
  \A s \in Scopes :
    /\ page[s].opened # NotOpened =>
         \E v \in videos :
           /\ v.id = page[s].opened.video
           /\ v.at <= page[s].opened.at /\ page[s].opened.at <= v.until
    /\ page[s].frame \notin {NoPath, page[s].late} =>
         \E v \in videos : /\ v.path = page[s].frame
                           /\ v.channel = page[s].channelid

\* Who has logged in is served (the answer of the server to those it refuses
\* is "unauthorized, please login first").
LoggedInIsAuthorized ==
  user # NoUser => \A r \in Range(wire) : Authorized(r)
=============================================================================
