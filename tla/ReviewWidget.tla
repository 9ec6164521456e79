---------------------------- MODULE ReviewWidget -----------------------------
(***************************************************************************)
(* ReviewWidget with its DetailWidget (src/src/view), of which the client  *)
(* has two: one for normal and one for anomaly records.  Both are          *)
(* connected to the same signals of ClientApi and tell their answers by    *)
(* the request number.  A number of 0 stands for a waiting flag that is    *)
(* not set, as flag and number are always set together.                    *)
(*                                                                         *)
(* A handler runs to its end before the next event, except for the three   *)
(* dialogs that run an event loop of their own (the confirmation of a      *)
(* deletion, the image preview, the file dialog of a snapshot): modal says *)
(* which is open.  It blocks the user's other clicks, but not the answers. *)
(* Message boxes are shown after the state has changed and are left out,   *)
(* as are export, zoom, player position and layout.                        *)
(***************************************************************************)
EXTENDS ClientApi, Records

CONSTANTS
  Today,     \* QDate::currentDate()
  Dates,     \* days that can be chosen
  Channels,  \* channels that can be chosen, AllChannels excepted
  SaveNames  \* what the user may call a snapshot, files there are included

ASSUME ReviewAssumption ==
  /\ Today \in Dates
  /\ Dates \subseteq Nat
  /\ Channels \subseteq Nat \ {AllChannels}
  /\ \A name \in SaveNames : name[1] # "avi"  \* ".jpg" is appended

VARIABLES
  page,    \* the two widgets
  modal,   \* the dialog that is open
  tab,     \* MainWidget: the widget the user sees
  files,   \* paths of the files on the client's disk
  named,   \* history: paths that images have, had or will have
  again,   \* history: those of them a snapshot was saved under after that
  budget   \* bound: clicks left that lead to a request

disk == <<files, named, again>>
review == <<page, modal, tab, disk>>

\* A path is its suffix and a number.
NoPath == <<"", 0>>
NoList == [query |-> <<>>, rows |-> <<>>]
NoModal == [kind |-> "", scope |-> "", images |-> {}]
NotOpened == [video |-> 0, at |-> 0]

Kinds == {"videos", "images", "related", "insert", "delete"}

FreshPage ==
  [mode |-> "video", date |-> Today, channel |-> AllChannels,
   curPage |-> 1, totalPage |-> 1,
   loading |-> FALSE,       \* "loading" on the label, both buttons disabled
   shown |-> NoList,        \* m_list_record, and the query it answers
   detail |-> {},           \* the images of m_detail_widget
   wait |-> [k \in Kinds |-> 0],
   pendingDelete |-> {},    \* m_pendingDeleteImages
   pendingTime |-> 0,       \* m_pendingRelatedCaptureTime
   path |-> NoPath,         \* currentPath
   channelid |-> 0,
   loaded |-> NoPath,       \* m_loadedPath
   frame |-> NoPath,        \* the file m_lastVideoFrame is of
   late |-> NoPath,         \* the file the player had when it was stopped
   opened |-> NotOpened]    \* the last openVideoAtTimestamp

Larger(a, b) == IF a >= b THEN a ELSE b

\* Bug: the last, partly filled page is not counted.
PageCountDown(total) == Larger(1, total \div PageSize)

PageCount(total) == Larger(1, (total + PageSize - 1) \div PageSize)
-----------------------------------------------------------------------------
(***************************************************************************)
(* Loading a page of records.                                              *)
(***************************************************************************)
ListKind(mode) == IF mode = "video" THEN "videos" ELSE "images"

ListRequest(s, p, n) ==
  [type |-> IF p.mode = "video" THEN "VIDEO_LIST" ELSE "IMAGE_LIST",
   about |-> [scope |-> s, date |-> p.date, channel |-> p.channel,
              page |-> Larger(1, n)]]

\* Bug: the old rows stay until the answer comes.
LoadingKeepRows(p, n, id) ==
  [p EXCEPT !.curPage = Larger(1, n), !.totalPage = Larger(1, n),
            !.loading = TRUE, !.wait[ListKind(p.mode)] = id]

\* loadVideoPageData and loadImagePageData: rows and images go, the page is
\* counted as the last one until the answer says better.
Loading(p, n, id) ==
  [p EXCEPT !.shown = NoList, !.detail = {},
            !.curPage = Larger(1, n), !.totalPage = Larger(1, n),
            !.loading = TRUE, !.wait[ListKind(p.mode)] = id]

\* A frame the player has handed out before it is stopped still comes; not
\* after the next stop, as the queue of the page is in order.
ResetPreview(p) ==
  [p EXCEPT !.path = NoPath, !.late = p.loaded, !.loaded = NoPath,
            !.frame = NoPath, !.detail = {}]

\* Page s becomes p, and loads its page n the given number of times.  Without
\* a connection there is a warning and no loading.
Load(s, p, n, times) ==
  IF IsConnected
  THEN /\ page' = [page EXCEPT ![s] = Loading(p, n, LastId(times))]
       /\ Send([i \in 1..times |-> ListRequest(s, p, n)])
  ELSE /\ page' = [page EXCEPT ![s] = p]
       /\ UNCHANGED <<nextRequestId, wire>>

\* setDate emits dateChanged, and so loads once more, if the date is another.
LoadToday(s, p) ==
  Load(s, [ResetPreview(p) EXCEPT !.date = Today], 1,
       IF p.date = Today THEN 1 ELSE 2)

Spend == budget > 0 /\ budget' = budget - 1
-----------------------------------------------------------------------------
(***************************************************************************)
(* The user.                                                               *)
(***************************************************************************)
\* The user can reach the controls of page s.
At(s) == tab = s /\ modal = NoModal

Click(s) ==
  At(s) /\ Spend /\ UNCHANGED <<modal, tab, disk, link, token, inbound>>

PrevPage(s) ==
  /\ Click(s)
  /\ ~page[s].loading /\ page[s].curPage > 1
  /\ Load(s, page[s], page[s].curPage - 1, 1)

NextPage(s) ==
  /\ Click(s)
  /\ ~page[s].loading /\ page[s].curPage < page[s].totalPage
  /\ Load(s, page[s], page[s].curPage + 1, 1)

ChangeDate(s) ==
  /\ Click(s)
  /\ \E d \in Dates \ {page[s].date} :
       Load(s, [ResetPreview(page[s]) EXCEPT !.date = d], 1, 1)

ChangeChannel(s) ==
  /\ Click(s)
  /\ \E c \in (Channels \cup {AllChannels}) \ {page[s].channel} :
       Load(s, [ResetPreview(page[s]) EXCEPT !.channel = c], 1, 1)

\* Bug: the list is not loaded anew.
SwitchRecordModeOnly(s) ==
  /\ Click(s)
  /\ \E mode \in {"video", "image"} \ {page[s].mode} :
       page' = [page EXCEPT ![s].mode = mode]
  /\ UNCHANGED <<nextRequestId, wire>>

\* switchRecordMode; the mode it is in already only brings its page up.
SwitchRecordMode(s) ==
  /\ Click(s)
  /\ \E mode \in {"video", "image"} \ {page[s].mode} :
       LoadToday(s, [page[s] EXCEPT !.mode = mode])

\* refreshData, called when MainWidget brings the page up.
RefreshData(s) == LoadToday(s, page[s])

\* itemselected stops the player.
SelectItem(s) ==
  /\ At(s)
  /\ \E i \in DOMAIN page[s].shown.rows :
       LET row == page[s].shown.rows[i] IN
       page' = [page EXCEPT
         ![s] = [@ EXCEPT !.path = row.path, !.channelid = row.channel,
                          !.late = page[s].loaded, !.loaded = NoPath,
                          !.frame = NoPath]]
  /\ UNCHANGED <<api, modal, tab, disk, budget>>

\* play: pausing and going on are left out.
Play(s) ==
  /\ At(s)
  /\ page[s].path \in files
  /\ page[s].path[1] = "avi"
  /\ page[s].loaded # page[s].path
  /\ page' = [page EXCEPT ![s].loaded = page[s].path]
  /\ UNCHANGED <<api, modal, tab, disk, budget>>

\* videoFrameChanged: a frame of the file the player has loaded, or a late one
\* of the file before, as long as none of the new file has come.
VideoFrame(s) ==
  /\ \E file \in {page[s].loaded, page[s].late} \ {NoPath, page[s].frame} :
       page' = [page EXCEPT
         ![s] = [@ EXCEPT !.frame = file,
                          !.late = IF file = page[s].loaded THEN NoPath
                                   ELSE page[s].late]]
  /\ UNCHANGED <<api, modal, tab, disk, budget>>
-----------------------------------------------------------------------------
(***************************************************************************)
(* The dialogs.  Each is opened with what the page has then, and is gone   *)
(* on with in whatever state the page is by the end of it.                 *)
(***************************************************************************)
Open(kind, s, images) ==
  /\ At(s)
  /\ modal' = [kind |-> kind, scope |-> s, images |-> images]
  /\ UNCHANGED <<api, page, tab, disk, budget>>

\* The selection of m_detail_widget, and the question of deleteImages.
AskDelete(s) ==
  \E images \in SUBSET page[s].detail \ {{}} : Open("delete", s, images)

\* openPreviewAtIndex: the dialog can show any of the images.
OpenPreview(s) == page[s].detail # {} /\ Open("preview", s, page[s].detail)

\* onsavedClicked, up to its file dialog.
AskSave(s) ==
  /\ page[s].path # NoPath
  /\ page[s].mode = "video"
  /\ page[s].frame # NoPath
  /\ Open("save", s, {})

CloseDialog ==
  /\ modal # NoModal
  /\ modal' = NoModal
  /\ UNCHANGED <<api, page, tab, disk, budget>>

Ids(images) == {image.id : image \in images}

DeleteRequest(images) == [type |-> "DELETE", about |-> [ids |-> Ids(images)]]

\* deleteImages, after Yes.
ConfirmDelete ==
  LET s == modal.scope IN
  /\ modal.kind = "delete"
  /\ IsConnected
  /\ Spend
  /\ page' = [page EXCEPT ![s].pendingDelete = modal.images,
                          ![s].wait["delete"] = LastId(1)]
  /\ Send(<<DeleteRequest(modal.images)>>)
  /\ modal' = NoModal
  /\ UNCHANGED <<tab, disk, link, token, inbound>>

RelatedRequest(s, image) ==
  [type |-> "RELATED",
   about |-> [scope |-> s, channel |-> image.channel, at |-> image.at]]

\* openRelatedVideoForImage; the preview stays open.
AskRelated ==
  LET s == modal.scope IN
  /\ modal.kind = "preview"
  /\ IsConnected
  /\ Spend
  /\ \E image \in modal.images :
       /\ page' = [page EXCEPT ![s].pendingTime = image.at,
                               ![s].wait["related"] = LastId(1)]
       /\ Send(<<RelatedRequest(s, image)>>)
  /\ UNCHANGED <<modal, tab, disk, link, token, inbound>>

InsertRequest(p, path) ==
  [type |-> "INSERT_IMAGE",
   about |-> [channel |-> p.channelid, path |-> path]]

InsertFeatureImageRecord(s, path) ==
  IF IsConnected
  THEN /\ page' = [page EXCEPT ![s].wait["insert"] = LastId(1)]
       /\ Send(<<InsertRequest(page[s], path)>>)
  ELSE UNCHANGED <<page, nextRequestId, wire>>

\* The path was that of an image before.
Named(path) ==
  /\ named' = named \cup {path}
  /\ again' = again \cup ({path} \cap named)

\* onsavedClicked goes on, unless the frame cannot be saved: the frame and the
\* channel are those of now, and a file of that name is replaced (".jpg" comes
\* after the question of the dialog, to which the user may also say yes).
SaveFrame ==
  LET s == modal.scope IN
  /\ modal.kind = "save"
  /\ page[s].frame # NoPath
  /\ Spend
  /\ \E path \in SaveNames :
       /\ files' = files \cup {path}
       /\ Named(path)
       /\ InsertFeatureImageRecord(s, path)
  /\ modal' = NoModal
  /\ UNCHANGED <<tab, link, token, inbound>>
-----------------------------------------------------------------------------
(***************************************************************************)
(* The answers.                                                            *)
(***************************************************************************)
Answer == Head(inbound)

\* Bug: any answer of the type will do.
TakesAny(p, kind) == p.wait[kind] # 0

\* The slot of a page goes on: it waits, and for this number.
Takes(p, kind) == p.wait[kind] # 0 /\ p.wait[kind] = Answer.id

\* What the slots of both pages make of the answer.
BothPages(kind, After(_)) ==
  page' = [s \in Scopes |->
             IF Takes(page[s], kind) THEN After(page[s]) ELSE page[s]]

\* Bug: the list is filled in the other mode too.
ListFinishedAnyMode(p, mode) ==
  [p EXCEPT
     !.wait[ListKind(mode)] = 0,
     !.loading = FALSE,
     !.shown = IF Answer.ok THEN [query |-> Answer.about, rows |-> Answer.rows]
               ELSE NoList,
     !.detail = IF Answer.ok /\ mode = "image" THEN Range(Answer.rows) ELSE {},
     !.totalPage = IF Answer.ok THEN PageCount(Answer.total) ELSE p.curPage]

\* onVideoListFinished and onImageListFinished.
ListFinished(p, mode) ==
  LET heard == [p EXCEPT !.wait[ListKind(mode)] = 0] IN
  IF p.mode # mode THEN heard
  ELSE [heard EXCEPT
     !.loading = FALSE,
     !.shown = IF Answer.ok THEN [query |-> Answer.about, rows |-> Answer.rows]
               ELSE NoList,
     !.detail = IF Answer.ok /\ mode = "image" THEN Range(Answer.rows) ELSE {},
     !.totalPage = IF Answer.ok THEN PageCount(Answer.total) ELSE p.curPage]

OnVideoListFinished ==
  /\ Arrived("VIDEO_LIST")
  /\ Taken
  /\ BothPages("videos", LAMBDA p : ListFinished(p, "video"))
  /\ UNCHANGED <<token, nextRequestId, wire, modal, tab, disk, budget>>

OnImageListFinished ==
  /\ Arrived("IMAGE_LIST")
  /\ Taken
  /\ BothPages("images", LAMBDA p : ListFinished(p, "image"))
  /\ UNCHANGED <<token, nextRequestId, wire, modal, tab, disk, budget>>

OnInsertImageFinished ==
  /\ Arrived("INSERT_IMAGE")
  /\ Taken
  /\ BothPages("insert", LAMBDA p : [p EXCEPT !.wait["insert"] = 0])
  /\ UNCHANGED <<token, nextRequestId, wire, modal, tab, disk, budget>>

\* openVideoAtTimestamp; the player seeks to the time once it has loaded.
OpenedAt(p, video) ==
  IF video.path \notin files THEN p
  ELSE [p EXCEPT !.loaded = video.path,
                 !.opened = [video |-> video.id, at |-> p.pendingTime]]

\* Bug: the channel of the image last selected stays.
ShowingRelatedOldChannel(p, video) ==
  OpenedAt([ResetPreview(p) EXCEPT
              !.wait["related"] = 0, !.mode = "video",
              !.date = Day(p.pendingTime), !.channel = video.channel,
              !.path = video.path], video)

\* The controls are set without signals, and the video opened.
ShowingRelated(p, video) ==
  OpenedAt([ResetPreview(p) EXCEPT
              !.wait["related"] = 0, !.mode = "video",
              !.date = Day(p.pendingTime), !.channel = video.channel,
              !.path = video.path, !.channelid = video.channel], video)

\* Nobody takes the answer, or nothing was found.
Ignored(kind) ==
  /\ \A s \in Scopes : Takes(page[s], kind) => ~Answer.ok
  /\ BothPages(kind, LAMBDA p : [p EXCEPT !.wait[kind] = 0,
                                          !.pendingDelete =
                                            IF kind = "delete" THEN {} ELSE @])
  /\ UNCHANGED <<nextRequestId, wire, disk>>

\* Bug: the list is not loaded anew.
OnRelatedVideoFinishedNoLoad ==
  /\ Arrived("RELATED")
  /\ Taken
  /\ \/ Ignored("related")
     \/ /\ Answer.ok
        /\ BothPages("related",
                     LAMBDA p : ShowingRelated(p, Head(Answer.rows)))
        /\ UNCHANGED <<nextRequestId, wire, disk>>
  /\ UNCHANGED <<token, modal, tab, budget>>

\* onRelatedVideoFinished: page 1 is loaded before the video is opened.
OnRelatedVideoFinished ==
  /\ Arrived("RELATED")
  /\ Taken
  /\ \/ Ignored("related")
     \/ \E s \in Scopes :
          /\ Takes(page[s], "related") /\ Answer.ok
          /\ Load(s, ShowingRelated(page[s], Head(Answer.rows)), 1, 1)
          /\ UNCHANGED disk
  /\ UNCHANGED <<token, modal, tab, budget>>

Paths(images) == {image.path : image \in images}

\* Bug: the files go whatever the server says.
OnDeleteImagesFinishedAnyway ==
  /\ Arrived("DELETE")
  /\ Taken
  /\ \/ /\ \A s \in Scopes : ~Takes(page[s], "delete")
        /\ UNCHANGED <<page, disk, nextRequestId, wire>>
     \/ \E s \in Scopes :
          /\ Takes(page[s], "delete")
          /\ files' = files \ Paths(page[s].pendingDelete)
          /\ UNCHANGED <<named, again>>
          /\ Load(s, [page[s] EXCEPT !.wait["delete"] = 0,
                                     !.pendingDelete = {}, !.path = NoPath],
                  page[s].curPage, 1)
  /\ UNCHANGED <<token, modal, tab, budget>>

\* onDeleteImagesFinished: the files go, if the disk lets them, and the page is
\* loaded anew.
OnDeleteImagesFinished ==
  /\ Arrived("DELETE")
  /\ Taken
  /\ \/ Ignored("delete")
     \/ \E s \in Scopes :
          /\ Takes(page[s], "delete") /\ Answer.ok
          /\ \E gone \in SUBSET Paths(page[s].pendingDelete) :
               files' = files \ gone
          /\ UNCHANGED <<named, again>>
          /\ Load(s, [page[s] EXCEPT !.wait["delete"] = 0,
                                     !.pendingDelete = {}, !.path = NoPath],
                  page[s].curPage, 1)
  /\ UNCHANGED <<token, modal, tab, budget>>
=============================================================================
