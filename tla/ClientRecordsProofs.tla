------------------------ MODULE ClientRecordsProofs -------------------------
(***************************************************************************)
(* Proofs about the records in ClientPages, for any tables and any page    *)
(* size: what a list and a related video come from, and how long.          *)
(***************************************************************************)
EXTENDS ClientPagesProofs, FiniteSetTheorems

(***************************************************************************)
(* Lists and pages of them.                                                *)
(***************************************************************************)
LEMMA MinOfTwo ==
  ASSUME NEW a \in Int, NEW b \in Int
  PROVE  Min({a, b}) = IF a <= b THEN a ELSE b
<1> DEFINE m == IF a <= b THEN a ELSE b
<1>1. m \in {a, b} /\ \A y \in {a, b} : m <= y
  OBVIOUS
<1>2. \A x \in {a, b} : (\A y \in {a, b} : x <= y) => x = m
  OBVIOUS
<1> HIDE DEF m
<1>3. (CHOOSE x \in {a, b} : \A y \in {a, b} : x <= y) = m
  BY <1>1, <1>2
<1> QED
  BY <1>3 DEF Min, m

\* The offset of a page.
Offset(page_, size) == (page_ - 1) * size

\* An offset is a number of rows.
LEMMA OffsetIsNat ==
  ASSUME NEW n \in Nat \ {0}, NEW size \in Nat
  PROVE  Offset(n, size) \in Nat
BY DEF Offset

\* A page of a list are the rows from its offset on, and no more than fit.
Cut(l, list, o, size, S) ==
  /\ l \in Seq(S)
  /\ Range(l) =
       {list[i] : i \in {j \in 1..Len(list) : o < j /\ j <= o + size}}

\* A page of a list is a cut of it.
LEMMA PageIs ==
  ASSUME NEW S, NEW list \in Seq(S), NEW n \in Nat \ {0},
         NEW size \in Nat \ {0}
  PROVE  Cut(Page(list, n, size), list, Offset(n, size), size, S)
<1> DEFINE o == Offset(n, size)
           e == IF o + size <= Len(list) THEN o + size ELSE Len(list)
           l == SubSeq(list, o + 1, e)
<1>1. o \in Nat /\ Len(list) \in Nat
  BY OffsetIsNat, LenProperties
<1>2. Min({o + size, Len(list)}) = e
  BY <1>1, MinOfTwo
<1>3. Page(list, n, size) = l
  BY <1>2, Zenon DEF Page, Limit, Offset
<1>4. \A i \in (o + 1)..e : list[i] \in S
  BY <1>1, ElementOfSeq
<1> HIDE DEF o
<1>5. /\ l \in Seq(S)
      /\ Len(l) = IF o + 1 <= e THEN e - (o + 1) + 1 ELSE 0
      /\ \A i \in 1..(e - (o + 1) + 1) : l[i] = list[(o + 1) + i - 1]
  <2>1. o + 1 \in Int /\ e \in Int
    BY <1>1
  <2> HIDE DEF e
  <2> QED
    BY <1>4, <2>1, SubSeqProperties
<1>6. DOMAIN l = 1..Len(l)
  BY <1>5, LenProperties
<1> HIDE DEF l
<1>7. ASSUME NEW r \in Range(l)
      PROVE  \E i \in 1..Len(list) : o < i /\ i <= o + size /\ r = list[i]
  <2>1. PICK i \in 1..Len(l) : r = l[i]
    BY <1>6, <1>7 DEF Range
  <2>2. r = list[o + i] /\ o + i \in 1..Len(list)
        /\ o < o + i /\ o + i <= o + size
    BY <1>1, <1>5, <2>1
  <2> QED
    BY <2>2
<1>8. ASSUME NEW i \in 1..Len(list), o < i, i <= o + size
      PROVE  list[i] \in Range(l)
  <2>1. i - o \in 1..Len(l) /\ l[i - o] = list[i]
    BY <1>1, <1>5, <1>8
  <2> QED
    BY <1>6, <2>1 DEF Range
<1> QED
  BY <1>3, <1>5, <1>7, <1>8 DEF o, Cut

\* Every row of a table's list is a row of the table.
LEMMA ListedRows ==
  ASSUME NEW S, IsFiniteSet(S), NEW list \in NewestFirst(S)
  PROVE  list \in Seq(S)
<1>1. list \in [1..Cardinality(S) -> S]
  BY DEF NewestFirst, SetToSeqs
<1>2. Cardinality(S) \in Nat
  BY FS_CardinalityType
<1> QED
  BY <1>1, <1>2

\* The quotient is the number of whole pages.
LEMMA DivIs ==
  ASSUME NEW a \in Nat, NEW b \in Nat \ {0}
  PROVE  LET d == a \div b
         IN  d \in Nat /\ d * b <= a /\ a < d * b + b
  OBVIOUS

\* Offsets grow by a page.
LEMMA OffsetsGrow ==
  ASSUME NEW p \in Nat, NEW q \in Nat, NEW b \in Nat \ {0}
  PROVE  /\ p * b \in Nat
         /\ p < q => p * b + b <= q * b
         /\ p * b < q * b + b => p <= q
  OBVIOUS

\* The page label counts pages enough for every row.
LEMMA PagesForAll ==
  ASSUME NEW n \in Nat, NEW i \in 1..n
  PROVE  LET d == (i - 1) \div PageSize
         IN  /\ d \in Nat /\ d * PageSize < i /\ i <= d * PageSize + PageSize
             /\ PageCount(n) \in Nat /\ d + 1 <= PageCount(n)
<1> DEFINE d == (i - 1) \div PageSize
           c == (n + PageSize - 1) \div PageSize
<1>1. PageSize \in Nat \ {0}
  BY RecordsAssumption
<1>2. d \in Nat /\ d * PageSize <= i - 1 /\ i - 1 < d * PageSize + PageSize
  BY <1>1, DivIs
<1>3. /\ c \in Nat
      /\ n + PageSize - 1 < c * PageSize + PageSize
  <2>1. n + PageSize - 1 \in Nat
    BY <1>1
  <2> QED
    BY <1>1, <2>1, DivIs
<1>4. PageCount(n) = IF 1 >= c THEN 1 ELSE c
  BY DEF PageCount, Larger
<1> HIDE DEF d, c
<1>5. d * PageSize \in Nat /\ c * PageSize \in Nat
  BY <1>1, <1>2, <1>3, OffsetsGrow
<1>6. d + 1 <= c
  <2>1. d * PageSize + PageSize <= n + PageSize - 1
    BY <1>1, <1>2, <1>5
  <2>2. d * PageSize < c * PageSize
    BY <1>1, <1>3, <1>5, <2>1
  <2>3. ~(c <= d)
    BY <1>1, <1>2, <1>3, <1>5, <2>2, OffsetsGrow
  <2> QED
    BY <1>2, <1>3, <2>3
<1> QED
  BY <1>1, <1>2, <1>3, <1>4, <1>5, <1>6 DEF d

\* In a list of any length every row is on one page, and on one only.
THEOREM RowsOnPages ==
  ASSUME NEW n \in Nat, NEW i \in 1..n
  PROVE  \E p \in 1..PageCount(n) : \A q \in 1..PageCount(n) :
           i \in Range(Page([j \in 1..n |-> j], q, PageSize)) <=> q = p
<1> DEFINE d == (i - 1) \div PageSize
           list == [j \in 1..n |-> j]
           p == d + 1
<1>0. PageSize \in Nat \ {0}
  BY RecordsAssumption
<1>1. /\ d \in Nat /\ d * PageSize < i /\ i <= d * PageSize + PageSize
      /\ PageCount(n) \in Nat /\ d + 1 <= PageCount(n)
  BY PagesForAll
<1>2. list \in Seq(Nat) /\ Len(list) = n /\ \A j \in 1..n : list[j] = j
  OBVIOUS
<1> HIDE DEF d, list
<1>3. ASSUME NEW q \in 1..PageCount(n)
      PROVE  i \in Range(Page(list, q, PageSize)) <=> q = p
  <2> DEFINE o == Offset(q, PageSize)
             l == Page(list, q, PageSize)
  <2>1. q \in Nat \ {0} /\ q - 1 \in Nat
    BY <1>1
  <2>2. Cut(l, list, o, PageSize, Nat)
    BY <1>0, <1>2, <2>1, PageIs
  <2> HIDE DEF l
  <2>3. o = (q - 1) * PageSize /\ o \in Nat
    BY <1>0, <2>1, OffsetsGrow DEF Offset
  <2> HIDE DEF o
  <2>4. i \in Range(l) <=> o < i /\ i <= o + PageSize
    BY <1>2, <2>2 DEF Cut
  <2>5. o < i /\ i <= o + PageSize => q - 1 = d
    <3> SUFFICES ASSUME o < i, i <= o + PageSize PROVE q - 1 = d
      OBVIOUS
    <3>1. d * PageSize \in Nat
      BY <1>0, <1>1, OffsetsGrow
    <3>2. /\ (q - 1) * PageSize < d * PageSize + PageSize
          /\ d * PageSize < (q - 1) * PageSize + PageSize
      BY <1>0, <1>1, <2>3, <3>1
    <3>3. q - 1 <= d /\ d <= q - 1
      BY <1>0, <1>1, <2>1, <3>2, OffsetsGrow
    <3> QED
      BY <1>1, <2>1, <3>3
  <2>6. q - 1 = d => o < i /\ i <= o + PageSize
    BY <1>1, <2>3
  <2>7. q - 1 = d <=> q = p
    BY <1>1, <2>1
  <2>8. i \in Range(l) <=> q = p
    BY <2>4, <2>5, <2>6, <2>7
  <2> QED
    BY <2>8 DEF l
<1>4. p \in 1..PageCount(n)
  BY <1>1
<1> QED
  BY <1>3, <1>4 DEF list

\* The offset of the server and the page count of the client fit together, for
\* every page size (LIMIT in queryVideoList and queryImageList, totalPage in
\* onVideoListFinished and onImageListFinished): no row is on two pages or on
\* none.
THEOREM PagesFit == PagesPartition
<1> SUFFICES ASSUME NEW n \in 0..(PageSize + 1)
             PROVE  LET pages == [p \in 1..PageCount(n) |->
                                    Page([i \in 1..n |-> i], p, PageSize)]
                    IN \A i \in 1..n : \E p \in DOMAIN pages :
                         \A q \in DOMAIN pages :
                           i \in Range(pages[q]) <=> q = p
  BY DEF PagesPartition
<1>1. n \in Nat
  BY RecordsAssumption
<1> DEFINE pages == [p \in 1..PageCount(n) |->
                       Page([i \in 1..n |-> i], p, PageSize)]
<1>2. ASSUME NEW i \in 1..n
      PROVE  \E p \in DOMAIN pages : \A q \in DOMAIN pages :
               i \in Range(pages[q]) <=> q = p
  <2>1. PICK p \in 1..PageCount(n) : \A q \in 1..PageCount(n) :
          i \in Range(Page([j \in 1..n |-> j], q, PageSize)) <=> q = p
    BY <1>1, RowsOnPages
  <2> QED
    BY <2>1, Zenon
<1> QED
  BY <1>2
-----------------------------------------------------------------------------
(***************************************************************************)
(* The inductive invariant for PlaysTheRecording.                          *)
(***************************************************************************)
\* The rows of a list are recordings, or nothing the player takes.
Playable(rows, V) ==
  \A i \in DOMAIN rows : rows[i] \in V \/ rows[i].path[1] # "avi"

\* A recording of this channel has this path.
Recorded(path, channel, V) ==
  \E v \in V : v.path = path /\ v.channel = channel

\* What a page plays, or would play, is a recording of the channel it has
\* noted, and so is what its frame is of, unless it came late.
Sound(p, V) ==
  /\ p.curPage \in Nat \ {0}
  /\ Playable(p.shown.rows, V)
  /\ p.path[1] = "avi" => Recorded(p.path, p.channelid, V)
  /\ p.loaded # NoPath => Recorded(p.loaded, p.channelid, V)
  /\ p.frame \notin {NoPath, p.late} => Recorded(p.frame, p.channelid, V)
  /\ p.opened # NotOpened =>
       \E v \in V : /\ v.id = p.opened.video
                    /\ v.at <= p.opened.at /\ p.opened.at <= v.until

\* No image is a recording.
Tables ==
  /\ IsFiniteSet(videos) /\ IsFiniteSet(images)
  /\ \A image \in images : image.path[1] # "avi"

\* What requests ask: uploads of recordings, snapshots, pages from 1 on.
RequestOK(m) ==
  /\ m.type \in {"INSERT_VIDEO", "SESSION"} => m.about \in Uploads
  /\ m.type = "INSERT_IMAGE" => m.about.path[1] # "avi"
  /\ m.type \in {"VIDEO_LIST", "IMAGE_LIST"} => m.about.page \in Nat \ {0}

\* Answers list recordings, and a related one was running at the time asked.
AnswerOK(m, V) ==
  /\ m.type \in {"VIDEO_LIST", "IMAGE_LIST"} => Playable(m.rows, V)
  /\ m.type = "RELATED" /\ m.ok =>
       /\ Head(m.rows) \in V
       /\ Head(m.rows).at <= m.about.at /\ m.about.at <= Head(m.rows).until

\* The time of the image that a related video was asked for last.
AskedTime(s) ==
  page[s].wait["related"] # 0 =>
    \A m \in Messages : m.id = page[s].wait["related"] =>
      m.about.at = page[s].pendingTime

\* The inductive invariant.
RInv ==
  /\ Tables
  /\ \A m \in Range(wire) : RequestOK(m)
  /\ \A m \in Range(inbound) : AnswerOK(m, videos)
  /\ \A s \in Scopes : Sound(page[s], videos)
  /\ \A s \in Scopes : AskedTime(s)
-----------------------------------------------------------------------------
(***************************************************************************)
(* What the steps leave of a page.                                         *)
(***************************************************************************)
SamePlay(q, p) ==
  /\ q.path = p.path /\ q.channelid = p.channelid /\ q.loaded = p.loaded
  /\ q.frame = p.frame /\ q.late = p.late /\ q.opened = p.opened

\* Nothing of what Sound is about, and not the time asked for.
Silent(q, p) ==
  /\ SamePlay(q, p) /\ q.shown = p.shown /\ q.curPage = p.curPage
  /\ q.pendingTime = p.pendingTime

\* Nothing but that the player was stopped.
Quieted(q, p) ==
  /\ q.path = NoPath /\ q.loaded = NoPath /\ q.frame = NoPath
  /\ q.channelid = p.channelid /\ q.opened = p.opened
  /\ q.shown = p.shown /\ q.curPage = p.curPage
  /\ q.pendingTime = p.pendingTime

\* Neither makes a page unsound.
LEMMA SilentSound ==
  ASSUME NEW p, NEW q, NEW V, Sound(p, V), Silent(q, p) \/ Quieted(q, p)
  PROVE  Sound(q, V)
<1>1. NoPath[1] # "avi"
  BY DEF NoPath
<1> QED
  BY <1>1 DEF Sound, Silent, SamePlay, Quieted

\* Videos are never taken from the table.
LEMMA MoreVideos ==
  ASSUME NEW V, NEW W, V \subseteq W
  PROVE  /\ \A p : Sound(p, V) => Sound(p, W)
         /\ \A m : AnswerOK(m, V) => AnswerOK(m, W)
<1>1. \A rows : Playable(rows, V) => Playable(rows, W)
  BY DEF Playable
<1>2. \A path, channel :
        Recorded(path, channel, V) => Recorded(path, channel, W)
  BY DEF Recorded
<1>3. ASSUME NEW p, Sound(p, V) PROVE Sound(p, W)
  BY <1>1, <1>2, <1>3 DEF Sound
<1>4. \A m : AnswerOK(m, V) => AnswerOK(m, W)
  BY <1>1 DEF AnswerOK
<1> QED
  BY <1>3, <1>4

\* The changes that touch nothing of it.
LEMMA SilentPage ==
  ASSUME NEW p, IsPage(p), NEW e, NEW k
  PROVE  /\ Silent([p EXCEPT !.date = e], p)
         /\ Silent([p EXCEPT !.channel = e], p)
         /\ Silent([p EXCEPT !.mode = e], p)
         /\ Silent([p EXCEPT !.wait[k] = e], p)
         /\ Silent([p EXCEPT !.pendingDelete = e, !.wait[k] = 0], p)
         /\ \A f : Silent([p EXCEPT !.pendingDelete = e, !.wait[k] = f], p)
         /\ \A f : Silent([p EXCEPT !.wait[k] = e, !.pendingDelete = f], p)
<1>1. \A f \in PageFields : f \in DOMAIN p
  BY Fields
<1> QED
  BY <1>1, Zenon DEF Silent, SamePlay, PageFields

\* Stopping the player keeps a page quiet.
LEMMA QuietedPage ==
  ASSUME NEW p, IsPage(p)
  PROVE  Quieted(ResetPreview(p), p)
<1>1. \A f \in PageFields : f \in DOMAIN p
  BY Fields
<1> QED
  BY <1>1, Zenon DEF Quieted, ResetPreview, PageFields

\* A page that loads a list plays what it played.
LEMMA SoundLoading ==
  ASSUME NEW p, IsPage(p), NEW V, Sound(p, V), NEW n \in Int, NEW id
  PROVE  LET q == Loading(p, n, id) IN
         /\ Sound(q, V) /\ q.pendingTime = p.pendingTime
         /\ q.wait["related"] = p.wait["related"]
<1> DEFINE q == Loading(p, n, id)
<1>1. \A f \in PageFields : f \in DOMAIN p
  BY Fields
<1>2. SamePlay(q, p) /\ q.pendingTime = p.pendingTime
  BY <1>1, Zenon DEF SamePlay, Loading, PageFields
<1>3. LoadedFrom(q, p, n, id)
  BY LoadingFrom, Zenon
<1> HIDE DEF q
<1>4. q.curPage \in Nat \ {0}
  BY <1>3 DEF LoadedFrom, Larger
<1>5. q.wait["related"] = p.wait["related"]
  BY <1>3 DEF LoadedFrom, ListKind, Kinds
<1>6. Playable(q.shown.rows, V)
  BY <1>3 DEF LoadedFrom, NoList, Playable
<1>7. Sound(q, V)
  BY <1>2, <1>4, <1>6 DEF Sound, SamePlay
<1> QED
  BY <1>2, <1>5, <1>7 DEF q

\* Showing a related video that was recording at the time asked for.
LEMMA SoundRelated ==
  ASSUME NEW p, IsPage(p), NEW V, Sound(p, V), NEW video \in V,
         video.at <= p.pendingTime, p.pendingTime <= video.until
  PROVE  /\ Sound(ShowingRelated(p, video), V)
<1> DEFINE r == ResetPreview(p)
           q == [r EXCEPT
                  !.wait["related"] = 0, !.mode = "video",
                  !.date = Day(p.pendingTime), !.channel = video.channel,
                  !.path = video.path, !.channelid = video.channel]
           o == OpenedAt(q, video)
<1>1. IsPage(r) /\ Quieted(r, p)
  BY ResetPage, QuietedPage
<1> HIDE DEF r
<1>2. \A f \in PageFields : f \in DOMAIN r
  BY <1>1, Fields
<1>3. /\ DOMAIN q = DOMAIN r
      /\ q.path = video.path /\ q.channelid = video.channel
      /\ q.loaded = r.loaded /\ q.frame = r.frame /\ q.late = r.late
      /\ q.opened = r.opened
      /\ q.shown = r.shown /\ q.curPage = r.curPage
      /\ q.pendingTime = r.pendingTime
  BY <1>2, Zenon DEF PageFields
<1>4. o = ShowingRelated(p, video)
  BY Zenon DEF ShowingRelated, r
<1> HIDE DEF q
<1>5. Recorded(video.path, video.channel, V)
  BY DEF Recorded
<1>6. Sound(q, V)
  BY <1>1, <1>3, <1>5 DEF Quieted, Sound
<1>7. CASE video.path \notin files
  BY <1>4, <1>6, <1>7 DEF OpenedAt
<1>8. CASE video.path \in files
  <2>1. o = [q EXCEPT !.loaded = video.path,
                      !.opened = [video |-> video.id, at |-> q.pendingTime]]
    BY <1>8, Zenon DEF OpenedAt
  <2>2. \A f \in PageFields : f \in DOMAIN q
    BY <1>2, <1>3
  <2>3. /\ o.path = q.path /\ o.channelid = q.channelid
        /\ o.loaded = video.path /\ o.frame = q.frame
        /\ o.opened = [video |-> video.id, at |-> q.pendingTime]
        /\ o.shown = q.shown /\ o.curPage = q.curPage
    BY <2>1, <2>2, Zenon DEF PageFields
  <2> HIDE DEF o
  <2>4. /\ o.opened.video = video.id /\ o.opened.at = p.pendingTime
        /\ o.frame = NoPath
    BY <1>1, <1>3, <2>3 DEF Quieted
  <2>5. Sound(o, V)
    BY <1>3, <1>5, <1>6, <2>3, <2>4 DEF Sound
  <2> QED
    BY <1>4, <2>5
<1> QED
  BY <1>7, <1>8
-----------------------------------------------------------------------------
(***************************************************************************)
(* The steps of the client.                                                *)
(***************************************************************************)
\* The network, for tables that are read and not changed.
NetOK(V) ==
  /\ \A m \in Range(wire) : RequestOK(m)
  /\ \A m \in Range(inbound) : AnswerOK(m, V)

\* A step waits for the related video it did, for none, or for a new one.
KeepsTime(s) ==
  \/ /\ page'[s].wait["related"] = page[s].wait["related"]
     /\ page'[s].pendingTime = page[s].pendingTime
  \/ page'[s].wait["related"] = 0
  \/ \A m \in Messages' : m.id = page'[s].wait["related"] =>
       m.about.at = page'[s].pendingTime

\* The time asked for is that of the request still.
LEMMA TimeKept ==
  ASSUME IInv, Flow, NEW s \in Scopes, AskedTime(s), KeepsTime(s)
  PROVE  AskedTime(s)'
<1>1. page[s].wait["related"] \in 0..(nextRequestId - 1)
      /\ nextRequestId \in Nat \ {0}
  BY SlotForms DEF IInv, Numbered, Kinds
<1>2. ASSUME page'[s].wait["related"] = page[s].wait["related"],
             page'[s].pendingTime = page[s].pendingTime,
             page[s].wait["related"] # 0,
             NEW m \in Messages', m.id = page[s].wait["related"]
      PROVE  m.about.at = page[s].pendingTime
  <2>1. \E o \in Messages : o.id = m.id /\ o.about = m.about
    BY <1>1, <1>2 DEF Flow
  <2> QED
    BY <1>2, <2>1 DEF AskedTime
<1> QED
  BY <1>2 DEF KeepsTime, AskedTime

\* What a step of the client asks, and what it leaves on the network.
NetMove(n, r) ==
  /\ UNCHANGED <<videos, images>>
  /\ wire' = wire \/ (Sent(n, r) /\ RequestOK(r))
  /\ \/ inbound' = inbound \/ inbound' = <<>>
     \/ inbound # <<>> /\ inbound' = Tail(inbound)

\* The pages after a step are sound, and what they wait for is timed as it was.
PagesMove == \A s \in Scopes : Sound(page'[s], videos) /\ KeepsTime(s)

\* Steps of the client that send one kind of request keep the invariant.
LEMMA ClientKeeps ==
  ASSUME IInv, RInv, Goes, NEW n, NEW r, NetMove(n, r), PagesMove
  PROVE  RInv'
<1>1. videos' = videos /\ images' = images
  BY DEF NetMove
<1>2. Tables'
  BY <1>1 DEF RInv, Tables
<1>3. ASSUME NEW m \in Range(wire') PROVE RequestOK(m)
  <2>1. CASE m \in Range(wire)
    BY <2>1 DEF RInv
  <2>2. CASE m \notin Range(wire)
    <3>1. RequestOK(r) /\ \E i \in 1..n : m = Message(i, r)
      BY <1>3, <2>2 DEF NetMove, Sent
    <3>2. m.type = r.type /\ m.about = r.about
      BY <3>1 DEF Message
    <3> QED
      BY <3>1, <3>2 DEF RequestOK
  <2> QED
    BY <2>1, <2>2
<1>4. Range(inbound') \subseteq Range(inbound)
  <2>1. CASE inbound' = <<>>
    BY <2>1 DEF Range
  <2>2. CASE inbound # <<>> /\ inbound' = Tail(inbound)
    BY <2>2, TailRange DEF IInv, Shapes, Wires
  <2> QED
    BY <2>1, <2>2 DEF NetMove
<1>5. \A m \in Range(inbound') : AnswerOK(m, videos')
  BY <1>1, <1>4 DEF RInv
<1>6. \A s \in Scopes : Sound(page'[s], videos')
  BY <1>1 DEF PagesMove
<1>7. \A s \in Scopes : AskedTime(s)'
  BY TimeKept DEF PagesMove, Goes, RInv
<1> QED
  BY <1>2, <1>3, <1>5, <1>6, <1>7 DEF RInv

\* The page that a list is loaded for.
Ready(p, s) ==
  /\ IsPage(p) /\ Sound(p, videos)
  /\ \/ p.wait["related"] = 0
     \/ /\ p.wait["related"] = page[s].wait["related"]
        /\ p.pendingTime = page[s].pendingTime

\* A step that asks nothing, and leaves the tables.
Quiet ==
  /\ UNCHANGED <<videos, images>>
  /\ \/ inbound' = inbound \/ inbound' = <<>>
     \/ inbound # <<>> /\ inbound' = Tail(inbound)

\* A handler that ends in a load keeps the invariant.
LEMMA LoadKeeps ==
  ASSUME IInv, RInv, Goes, Quiet, NEW s \in Scopes, NEW p, Ready(p, s),
         NEW i \in Int, NEW n \in Nat \ {0}, Load(s, p, i, n)
  PROVE  RInv'
<1>1. DOMAIN page = Scopes /\ Wires
  BY DEF IInv, Shapes
<1>2. \A o \in Scopes : page'[o] = page[o] =>
        Sound(page'[o], videos) /\ KeepsTime(o)
  BY DEF RInv, KeepsTime
<1>3. CASE link = "up"
  <2> DEFINE q == Loading(p, i, LastId(n))
             r == ListRequest(s, p, i)
  <2>1. page' = [page EXCEPT ![s] = q] /\ Send([j \in 1..n |-> r])
    BY <1>3 DEF Load, IsConnected
  <2>2. Sent(n, r)
    BY <1>1, <2>1, SendCopies
  <2>3. Larger(1, i) \in Nat \ {0}
    BY DEF Larger
  <2>4. RequestOK(r)
    BY <2>3 DEF RequestOK, ListRequest
  <2>5. /\ Sound(q, videos) /\ q.pendingTime = p.pendingTime
        /\ q.wait["related"] = p.wait["related"]
    BY SoundLoading DEF Ready
  <2> HIDE DEF q, r
  <2>6. page'[s] = q /\ \A o \in Scopes \ {s} : page'[o] = page[o]
    BY <1>1, <2>1
  <2>7. PagesMove
    BY <1>2, <2>5, <2>6 DEF PagesMove, KeepsTime, Ready
  <2>8. NetMove(n, r)
    BY <2>2, <2>4 DEF NetMove, Quiet
  <2> QED
    BY <2>7, <2>8, ClientKeeps
<1>4. CASE link # "up"
  <2>1. page' = [page EXCEPT ![s] = p] /\ wire' = wire
    BY <1>4 DEF Load, IsConnected
  <2>2. page'[s] = p /\ \A o \in Scopes \ {s} : page'[o] = page[o]
    BY <1>1, <2>1
  <2>3. PagesMove
    BY <1>2, <2>2 DEF PagesMove, KeepsTime, Ready
  <2>4. NetMove(n, [type |-> "", about |-> <<>>])
    BY <2>1 DEF NetMove, Quiet
  <2> QED
    BY <2>3, <2>4, ClientKeeps
<1> QED
  BY <1>3, <1>4

\* A page whose controls were set, or whose player was stopped.
LEMMA ResetReady ==
  ASSUME RInv, NEW s \in Scopes, NEW q, Reset(q, page[s]),
         Silent(q, page[s]) \/ Quieted(q, page[s])
  PROVE  Ready(q, s)
<1>1. Sound(q, videos)
  BY SilentSound DEF RInv
<1>2. q.wait = page[s].wait /\ IsPage(q)
  BY DEF Reset
<1>3. q.pendingTime = page[s].pendingTime
  BY DEF Silent, Quieted
<1> QED
  BY <1>1, <1>2, <1>3 DEF Ready

\* What the page buttons and the choices of a day or a channel load.
LEMMA ControlReady ==
  ASSUME IInv, RInv, NEW s \in Scopes, NEW e
  PROVE  /\ Ready(page[s], s)
         /\ Ready([ResetPreview(page[s]) EXCEPT !.date = e], s)
         /\ Ready([ResetPreview(page[s]) EXCEPT !.channel = e], s)
<1> DEFINE p == page[s]
           r == ResetPreview(p)
           d == [r EXCEPT !.date = e]
           c == [r EXCEPT !.channel = e]
<1>1. IsPage(p)
  BY DEF IInv, Shapes
<1>2. IsPage(r) /\ Quieted(r, p)
  BY <1>1, ResetPage, QuietedPage
<1>3. Reset(d, p) /\ Reset(c, p)
  BY <1>1, ControlledPage, Zenon
<1>4. Silent(d, r) /\ Silent(c, r)
  BY <1>2, SilentPage, Zenon
<1> HIDE DEF d, c, r
<1>5. Quieted(d, p) /\ Quieted(c, p)
  BY <1>2, <1>4 DEF Quieted, Silent, SamePlay
<1>6. Reset(p, p) /\ Silent(p, p)
  BY <1>1 DEF Reset, SameRows, Silent, SamePlay
<1> HIDE DEF p
<1>7. Ready(p, s) /\ Ready(d, s) /\ Ready(c, s)
  BY <1>3, <1>5, <1>6, ResetReady DEF p
<1> QED
  BY <1>7 DEF p, d, c, r

\* What the tabs and the mode buttons load.
LEMMA TodayKeeps ==
  ASSUME IInv, RInv, Goes, Quiet, NEW s \in Scopes, NEW p,
         Reset(p, page[s]), Silent(p, page[s]), LoadToday(s, p)
  PROVE  RInv'
<1> DEFINE r == ResetPreview(p)
           t == [r EXCEPT !.date = Today]
           n == IF p.date = Today THEN 1 ELSE 2
<1>1. Load(s, t, 1, n)
  BY DEF LoadToday
<1>2. Reset(t, page[s])
  BY TodayPage
<1>3. IsPage(r) /\ Quieted(r, p)
  BY ResetPage, QuietedPage DEF Reset
<1>4. Silent(t, r)
  BY <1>3, SilentPage, Zenon
<1>5. n \in Nat \ {0} /\ 1 \in Int
  OBVIOUS
<1> HIDE DEF t, r, n
<1>6. Quieted(t, page[s])
  BY <1>3, <1>4 DEF Quieted, Silent, SamePlay
<1>7. Ready(t, s)
  BY <1>2, <1>6, ResetReady
<1> QED
  BY <1>1, <1>5, <1>7, LoadKeeps

\* The clicks that end in a load.
LEMMA LoadClicksKeep ==
  ASSUME IInv, RInv, Goes, NEW s \in Scopes, UNCHANGED server,
         \/ PrevPage(s) \/ NextPage(s) \/ ChangeDate(s) \/ ChangeChannel(s)
         \/ SwitchRecordMode(s)
  PROVE  RInv'
<1>1. Quiet
  BY DEF Quiet, server, PrevPage, NextPage, ChangeDate, ChangeChannel,
         SwitchRecordMode, Click
<1>2. IsPage(page[s]) /\ page[s].curPage \in Int
  BY DEF IInv, Shapes, RInv, Sound
<1>3. 1 \in Nat \ {0} /\ 1 \in Int
      /\ page[s].curPage - 1 \in Int /\ page[s].curPage + 1 \in Int
  BY <1>2
<1>4. CASE PrevPage(s)
  <2>1. Load(s, page[s], page[s].curPage - 1, 1)
    BY <1>4 DEF PrevPage
  <2> QED
    BY <1>1, <1>3, <2>1, ControlReady, LoadKeeps
<1>5. CASE NextPage(s)
  <2>1. Load(s, page[s], page[s].curPage + 1, 1)
    BY <1>5 DEF NextPage
  <2> QED
    BY <1>1, <1>3, <2>1, ControlReady, LoadKeeps
<1>6. CASE ChangeDate(s)
  <2>1. PICK d : Load(s, [ResetPreview(page[s]) EXCEPT !.date = d], 1, 1)
    BY <1>6, Zenon DEF ChangeDate
  <2> DEFINE p == [ResetPreview(page[s]) EXCEPT !.date = d]
  <2>2. Ready(p, s)
    BY ControlReady, Zenon
  <2>3. Load(s, p, 1, 1)
    BY <2>1
  <2> HIDE DEF p
  <2> QED
    BY <1>1, <1>3, <2>2, <2>3, LoadKeeps
<1>7. CASE ChangeChannel(s)
  <2>1. PICK c : Load(s, [ResetPreview(page[s]) EXCEPT !.channel = c], 1, 1)
    BY <1>7, Zenon DEF ChangeChannel
  <2> DEFINE p == [ResetPreview(page[s]) EXCEPT !.channel = c]
  <2>2. Ready(p, s)
    BY ControlReady, Zenon
  <2>3. Load(s, p, 1, 1)
    BY <2>1
  <2> HIDE DEF p
  <2> QED
    BY <1>1, <1>3, <2>2, <2>3, LoadKeeps
<1>8. CASE SwitchRecordMode(s)
  <2>1. PICK mode \in {"video", "image"} :
          LoadToday(s, [page[s] EXCEPT !.mode = mode])
    BY <1>8, Zenon DEF SwitchRecordMode
  <2> DEFINE p == [page[s] EXCEPT !.mode = mode]
  <2>2. Reset(p, page[s])
    BY <1>2, ControlledPage, Zenon
  <2>3. Silent(p, page[s])
    BY <1>2, SilentPage, Zenon
  <2>4. LoadToday(s, p)
    BY <2>1
  <2> HIDE DEF p
  <2> QED
    BY <1>1, <2>2, <2>3, <2>4, TodayKeeps
<1> QED
  BY <1>4, <1>5, <1>6, <1>7, <1>8

\* A step that changes one page.
LEMMA OnePage ==
  ASSUME IInv, RInv, Goes, NEW s \in Scopes, NEW q,
         page' = [page EXCEPT ![s] = q], Sound(q, videos), KeepsTime(s),
         NEW n, NEW r, NetMove(n, r)
  PROVE  RInv'
<1>1. DOMAIN page = Scopes
  BY DEF IInv, Shapes
<1>2. page'[s] = q /\ \A o \in Scopes \ {s} : page'[o] = page[o]
  BY <1>1
<1>3. PagesMove
  BY <1>2 DEF PagesMove, KeepsTime, RInv
<1> QED
  BY <1>3, ClientKeeps

\* A step that changes no page.
LEMMA NoPage ==
  ASSUME IInv, RInv, Goes, page' = page, NEW n, NEW r, NetMove(n, r)
  PROVE  RInv'
<1>1. PagesMove
  BY DEF PagesMove, KeepsTime, RInv
<1> QED
  BY <1>1, ClientKeeps

\* The row selected, the file loaded and its frame.
LEMMA PlayerKeeps ==
  ASSUME IInv, RInv, Goes, NEW s \in Scopes, UNCHANGED server,
         SelectItem(s) \/ Play(s) \/ VideoFrame(s)
  PROVE  RInv'
<1> DEFINE p == page[s]
<1>1. IsPage(p) /\ DOMAIN page = Scopes /\ Sound(p, videos)
  BY DEF IInv, Shapes, RInv
<1>2. \A f \in PageFields : f \in DOMAIN p
  BY <1>1, Fields
<1>3. \A n, r : NetMove(n, r)
  BY DEF NetMove, server, SelectItem, Play, VideoFrame, api
<1>4. ASSUME NEW q, page' = [page EXCEPT ![s] = q], Sound(q, videos),
             q.wait = p.wait, q.pendingTime = p.pendingTime
      PROVE  RInv'
  <2>1. page'[s] = q
    BY <1>1, <1>4
  <2>2. KeepsTime(s)
    BY <1>4, <2>1 DEF KeepsTime
  <2> QED
    BY <1>3, <1>4, <2>2, OnePage
<1> HIDE DEF p
<1>5. CASE SelectItem(s)
  <2>1. PICK i \in DOMAIN p.shown.rows :
          page' = [page EXCEPT
            ![s] = [p EXCEPT !.path = p.shown.rows[i].path,
                             !.channelid = p.shown.rows[i].channel,
                             !.late = p.loaded, !.loaded = NoPath,
                             !.frame = NoPath]]
    BY <1>5, Zenon DEF SelectItem, p
  <2> DEFINE row == p.shown.rows[i]
             q == [p EXCEPT !.path = row.path, !.channelid = row.channel,
                            !.late = p.loaded, !.loaded = NoPath,
                            !.frame = NoPath]
  <2>2. /\ q.path = row.path /\ q.channelid = row.channel
        /\ q.loaded = NoPath /\ q.frame = NoPath
        /\ q.opened = p.opened /\ q.shown = p.shown
        /\ q.curPage = p.curPage /\ q.wait = p.wait
        /\ q.pendingTime = p.pendingTime
    BY <1>2, Zenon DEF PageFields
  <2>3. page' = [page EXCEPT ![s] = q]
    BY <2>1
  <2>4. row \in videos \/ row.path[1] # "avi"
    BY <1>1 DEF Sound, Playable
  <2> HIDE DEF q, row
  <2>5. Sound(q, videos)
    BY <1>1, <2>2, <2>4 DEF Sound, Recorded
  <2> QED
    BY <1>4, <2>2, <2>3, <2>5
<1>6. CASE Play(s)
  <2> DEFINE q == [p EXCEPT !.loaded = p.path]
  <2>1. page' = [page EXCEPT ![s] = q] /\ p.path[1] = "avi"
    BY <1>6, Zenon DEF Play, p
  <2>2. /\ q.path = p.path /\ q.channelid = p.channelid
        /\ q.loaded = p.path /\ q.frame = p.frame /\ q.late = p.late
        /\ q.opened = p.opened /\ q.shown = p.shown
        /\ q.curPage = p.curPage /\ q.wait = p.wait
        /\ q.pendingTime = p.pendingTime
    BY <1>2, Zenon DEF PageFields
  <2> HIDE DEF q
  <2>3. p.path # NoPath
    <3>1. NoPath[1] # "avi"
      BY DEF NoPath
    <3> QED
      BY <2>1, <3>1
  <2>4. Sound(q, videos)
    BY <1>1, <2>1, <2>2, <2>3 DEF Sound
  <2> QED
    BY <1>4, <2>1, <2>2, <2>4
<1>7. CASE VideoFrame(s)
  <2>1. PICK file \in {p.loaded, p.late} \ {NoPath, p.frame} :
          page' = [page EXCEPT
            ![s] = [p EXCEPT !.frame = file,
                             !.late = IF file = p.loaded THEN NoPath
                                      ELSE p.late]]
    BY <1>7, Zenon DEF VideoFrame, p
  <2> DEFINE late == IF file = p.loaded THEN NoPath ELSE p.late
             q == [p EXCEPT !.frame = file, !.late = late]
  <2>0. page' = [page EXCEPT ![s] = q]
    BY <2>1
  <2>2. /\ q.path = p.path /\ q.channelid = p.channelid
        /\ q.loaded = p.loaded
        /\ q.opened = p.opened /\ q.shown = p.shown
        /\ q.curPage = p.curPage /\ q.wait = p.wait
        /\ q.pendingTime = p.pendingTime
    BY <1>2, Zenon DEF PageFields
  <2>3. q.frame = file /\ q.late = late
    BY <1>2, Zenon DEF PageFields
  <2> HIDE DEF q
  <2>4. q.frame # q.late => p.loaded # NoPath /\ file = p.loaded
    BY <2>1, <2>3
  <2>5. Sound(q, videos)
    BY <1>1, <2>2, <2>3, <2>4 DEF Sound
  <2> QED
    BY <1>4, <2>0, <2>2, <2>5
<1> QED
  BY <1>5, <1>6, <1>7

\* The dialogs, the tabs and the answers to other windows.
LEMMA WindowsKeep ==
  ASSUME IInv, RInv, Goes, UNCHANGED server,
         \/ UNCHANGED <<api, page>>
         \/ LinkUp \/ LinkLost \/ OnLoginFinished \/ OnLogListFinished
         \/ OnUploadFinished
  PROVE  RInv'
<1>1. page' = page /\ wire' = wire
  BY DEF api, LinkUp, LinkLost, Disconnected, OnLoginFinished,
         OnLogListFinished, OnUploadFinished, review
<1>2. \/ inbound' = inbound \/ inbound' = <<>>
      \/ inbound # <<>> /\ inbound' = Tail(inbound)
  BY DEF api, LinkUp, LinkLost, Disconnected, OnLoginFinished, Taken, Arrived,
         OnLogListFinished, OnUploadFinished, review
<1>3. \A n, r : NetMove(n, r)
  BY <1>1, <1>2 DEF NetMove, server
<1> QED
  BY <1>1, <1>3, NoPage

\* The requests made at the end of a dialog.
LEMMA DialogAsksKeep ==
  ASSUME IInv, RInv, Goes, UNCHANGED server, DialogOfPage,
         ConfirmDelete \/ AskRelated \/ SaveFrame
  PROVE  RInv'
<1> DEFINE s == modal.scope
           p == page[s]
<1>1. inbound' = inbound /\ videos' = videos /\ images' = images
  BY DEF server, ConfirmDelete, AskRelated, SaveFrame
<1>2. s \in Scopes
  BY DEF ConfirmDelete, AskRelated, SaveFrame, DialogOfPage
<1>3. DOMAIN page = Scopes /\ IsPage(p) /\ Wires /\ Sound(p, videos)
  BY <1>2 DEF IInv, Shapes, RInv
<1> HIDE DEF s, p
<1>4. \A f \in PageFields : f \in DOMAIN p
  BY <1>3, Fields
<1>5. ASSUME NEW q, page' = [page EXCEPT ![s] = q], SamePlay(q, p),
             q.shown = p.shown, q.curPage = p.curPage,
             NEW r, Send(<<r>>), RequestOK(r),
             \/ /\ q.wait["related"] = p.wait["related"]
                /\ q.pendingTime = p.pendingTime
             \/ q.wait["related"] = LastId(1) /\ r.about.at = q.pendingTime
      PROVE  RInv'
  <2>1. page'[s] = q
    BY <1>2, <1>3, <1>5
  <2>2. Sent(1, r)
    BY <1>3, <1>5, SendOne
  <2>3. NetMove(1, r)
    BY <1>1, <1>5, <2>2 DEF NetMove
  <2>4. \A m \in Messages' : m.id = LastId(1) => m.about = r.about
    BY <1>1, <2>2, ClientFlow
  <2>5. KeepsTime(s)
    BY <1>5, <2>1, <2>4 DEF KeepsTime, p
  <2>6. Sound(q, videos)
    BY <1>3, <1>5 DEF Sound, SamePlay
  <2> QED
    BY <1>2, <1>5, <2>3, <2>5, <2>6, OnePage
<1>6. \A k \in Kinds \ {"related"} :
        \A w : [p.wait EXCEPT ![k] = w]["related"] = p.wait["related"]
  BY <1>3 DEF IsPage, Kinds
<1>7. CASE ConfirmDelete
  <2> DEFINE q == [p EXCEPT !.pendingDelete = modal.images,
                            !.wait["delete"] = LastId(1)]
             r == DeleteRequest(modal.images)
  <2>1. page' = [page EXCEPT ![s] = q] /\ Send(<<r>>)
    BY <1>7, Zenon DEF ConfirmDelete, s, p
  <2>2. Silent(q, p)
    BY <1>3, SilentPage, Zenon
  <2>3. q.wait = [p.wait EXCEPT !["delete"] = LastId(1)]
    BY <1>4, Zenon DEF PageFields
  <2>4. RequestOK(r)
    BY DEF RequestOK, DeleteRequest
  <2> HIDE DEF q, r
  <2>5. q.wait["related"] = p.wait["related"]
    BY <1>6, <2>3 DEF Kinds
  <2> QED
    BY <1>5, <2>1, <2>2, <2>4, <2>5 DEF Silent
<1>8. CASE AskRelated
  <2>1. PICK image :
          /\ page' = [page EXCEPT
               ![s] = [p EXCEPT !.pendingTime = image.at,
                                !.wait["related"] = LastId(1)]]
          /\ Send(<<RelatedRequest(s, image)>>)
    BY <1>8, Zenon DEF AskRelated, s, p
  <2> DEFINE q == [p EXCEPT !.pendingTime = image.at,
                            !.wait["related"] = LastId(1)]
             r == RelatedRequest(s, image)
  <2>2. page' = [page EXCEPT ![s] = q] /\ Send(<<r>>)
    BY <2>1
  <2>3. /\ SamePlay(q, p) /\ q.shown = p.shown /\ q.curPage = p.curPage
        /\ q.pendingTime = image.at
        /\ q.wait = [p.wait EXCEPT !["related"] = LastId(1)]
    BY <1>4, Zenon DEF SamePlay, PageFields
  <2>4. RequestOK(r) /\ r.about.at = image.at
    BY DEF RequestOK, RelatedRequest
  <2> HIDE DEF q, r
  <2>5. q.wait["related"] = LastId(1)
    BY <1>3, <2>3 DEF IsPage, Kinds
  <2> QED
    BY <1>5, <2>2, <2>3, <2>4, <2>5
<1>9. CASE SaveFrame /\ link = "up"
  <2>0. PICK path \in SaveNames :
          /\ page' = [page EXCEPT
               ![s] = [p EXCEPT !.wait["insert"] = LastId(1)]]
          /\ Send(<<InsertRequest(p, path)>>)
    BY <1>9, Zenon DEF SaveFrame, InsertFeatureImageRecord, IsConnected, s, p
  <2> DEFINE q == [p EXCEPT !.wait["insert"] = LastId(1)]
             r == InsertRequest(p, path)
  <2>1. page' = [page EXCEPT ![s] = q] /\ Send(<<r>>)
    BY <2>0
  <2>2. Silent(q, p)
    BY <1>3, SilentPage, Zenon
  <2>3. q.wait = [p.wait EXCEPT !["insert"] = LastId(1)]
    BY <1>4, Zenon DEF PageFields
  <2>4. path[1] # "avi"
    BY ReviewAssumption
  <2>5. RequestOK(r)
    BY <2>4 DEF RequestOK, InsertRequest
  <2> HIDE DEF q, r
  <2>6. q.wait["related"] = p.wait["related"]
    BY <1>6, <2>3 DEF Kinds
  <2> QED
    BY <1>5, <2>1, <2>2, <2>5, <2>6 DEF Silent
<1>10. CASE SaveFrame /\ link # "up"
  <2>1. UNCHANGED <<wire, page>>
    BY <1>10 DEF SaveFrame, InsertFeatureImageRecord, IsConnected
  <2>2. \A n, r : NetMove(n, r)
    BY <1>1, <2>1 DEF NetMove
  <2> QED
    BY <2>1, <2>2, NoPage
<1> QED
  BY <1>7, <1>8, <1>9, <1>10

\* The other tabs, the login, the log page and the recordings.
LEMMA WindowClicksKeep ==
  ASSUME IInv, RInv, Goes,
         \/ \E s \in Scopes : SwitchToReview(s)
         \/ SwitchToLog \/ ClickLog \/ RecordingFinished \/ Login
  PROVE  RInv'
<1>1. ASSUME page' = page, inbound' = inbound,
             UNCHANGED <<videos, images>>,
             NEW r, Send(<<r>>) \/ wire' = wire, RequestOK(r)
      PROVE  RInv'
  <2>1. Send(<<r>>) => Sent(1, r)
    BY SendOne DEF IInv, Shapes
  <2>2. NetMove(1, r)
    BY <1>1, <2>1 DEF NetMove
  <2> QED
    BY <1>1, <2>2, NoPage
<1>2. ASSUME NEW s \in Scopes, SwitchToReview(s) PROVE RInv'
  <2>1. LoadToday(s, page[s]) /\ Quiet
    BY <1>2 DEF SwitchToReview, RefreshData, Quiet, server
  <2>2. Reset(page[s], page[s]) /\ Silent(page[s], page[s])
    BY DEF Reset, SameRows, Silent, SamePlay, IInv, Shapes
  <2> QED
    BY <2>1, <2>2, TodayKeeps
<1>3. CASE SwitchToLog \/ ClickLog
  <2>1. PICK mode, n : LoadLog(mode, n)
    <3>1. CASE SwitchToLog
      BY <3>1 DEF SwitchToLog
    <3>2. CASE ClickLog
      <4>1. PICK b : LoadLog(b[1], b[2])
        BY <3>2 DEF ClickLog
      <4> QED
        BY <4>1
    <3> QED
      BY <1>3, <3>1, <3>2
  <2> DEFINE r == LogRequest(mode, n)
  <2>2. Send(<<r>>) \/ wire' = wire
    BY <2>1 DEF LoadLog
  <2>3. RequestOK(r)
    BY DEF RequestOK, LogRequest
  <2> HIDE DEF r
  <2>4. page' = page /\ inbound' = inbound /\ UNCHANGED <<videos, images>>
    BY <1>3 DEF SwitchToLog, ClickLog, review, server
  <2> QED
    BY <1>1, <2>2, <2>3, <2>4
<1>4. CASE RecordingFinished
  <2>1. PICK u \in Uploads : Upload(u)
    BY <1>4 DEF RecordingFinished
  <2> DEFINE r == UploadRequest(u)
  <2>2. Send(<<r>>) \/ wire' = wire
    BY <2>1 DEF Upload
  <2>3. RequestOK(r)
    BY <2>1 DEF RequestOK, UploadRequest
  <2> HIDE DEF r
  <2>4. page' = page /\ inbound' = inbound /\ UNCHANGED <<videos, images>>
    BY <1>4 DEF RecordingFinished, server
  <2> QED
    BY <1>1, <2>2, <2>3, <2>4
<1>5. CASE Login
  <2>1. PICK u : Send(<<LoginRequest(u)>>)
    BY <1>5 DEF Login
  <2> DEFINE r == LoginRequest(u)
  <2>2. Send(<<r>>) /\ RequestOK(r)
    BY <2>1 DEF RequestOK, LoginRequest
  <2> HIDE DEF r
  <2>3. page' = page /\ inbound' = inbound /\ UNCHANGED <<videos, images>>
    BY <1>5 DEF Login, review, server
  <2> QED
    BY <1>1, <2>2, <2>3
<1> QED
  BY <1>2, <1>3, <1>4, <1>5
-----------------------------------------------------------------------------
(***************************************************************************)
(* The answers.                                                            *)
(***************************************************************************)
\* A list is heard: its rows come from the tables.
LEMMA HeardSound ==
  ASSUME NEW p, IsPage(p), NEW V, Sound(p, V), NEW mode \in {"video", "image"},
         Playable(Answer.rows, V)
  PROVE  LET q == ListFinished(p, mode) IN
         /\ Sound(q, V) /\ q.pendingTime = p.pendingTime
         /\ q.wait["related"] = p.wait["related"]
<1> DEFINE kind == ListKind(mode)
           heard == [p EXCEPT !.wait[kind] = 0]
           q == ListFinished(p, mode)
<1>0. kind \in Kinds \ {"related"}
  BY DEF ListKind, Kinds
<1>1. Waits(heard, p, kind, 0) /\ Silent(heard, p)
  BY <1>0, WaitingPage, SilentPage, Zenon
<1> HIDE DEF kind
<1>2. /\ IsPage(heard) /\ Sound(heard, V)
      /\ heard.pendingTime = p.pendingTime
      /\ heard.wait["related"] = p.wait["related"]
  BY <1>0, <1>1, SilentSound DEF Waits, Silent, Kinds
<1>3. CASE p.mode # mode
  <2>1. q = heard
    BY <1>3, Zenon DEF ListFinished, kind
  <2> HIDE DEF heard, q
  <2> QED
    BY <1>2, <2>1 DEF q
<1>4. CASE p.mode = mode
  <2> DEFINE shown == IF Answer.ok
                      THEN [query |-> Answer.about, rows |-> Answer.rows]
                      ELSE NoList
  <2>1. q = [heard EXCEPT
               !.loading = FALSE, !.shown = shown,
               !.detail = IF Answer.ok /\ mode = "image"
                          THEN Range(Answer.rows) ELSE {},
               !.totalPage = IF Answer.ok THEN PageCount(Answer.total)
                             ELSE p.curPage]
    BY <1>4, Zenon DEF ListFinished, kind
  <2> HIDE DEF heard, q, shown
  <2>2. \A f \in PageFields : f \in DOMAIN heard
    BY <1>2, Fields
  <2>3. /\ SamePlay(q, heard) /\ q.curPage = heard.curPage /\ q.shown = shown
        /\ q.wait = heard.wait /\ q.pendingTime = heard.pendingTime
    BY <2>1, <2>2, Zenon DEF SamePlay, PageFields
  <2>4. Playable(shown.rows, V)
    BY DEF shown, NoList, Playable
  <2>5. Sound(q, V)
    BY <1>2, <2>3, <2>4 DEF Sound, SamePlay
  <2> QED
    BY <1>2, <2>3, <2>5 DEF q
<1> QED
  BY <1>3, <1>4

\* Both pages look at an answer, and what becomes of one that takes it.
LEMMA BothKeep ==
  ASSUME IInv, RInv, Goes, UNCHANGED <<videos, images, wire>>,
         inbound # <<>>, inbound' = Tail(inbound), NEW kind,
         \A s \in Scopes :
           IF Takes(page[s], kind)
           THEN /\ Sound(page'[s], videos)
                /\ page'[s].pendingTime = page[s].pendingTime
                /\ page'[s].wait["related"] \in {page[s].wait["related"], 0}
           ELSE page'[s] = page[s]
  PROVE  RInv'
<1>1. PagesMove
  BY DEF PagesMove, KeepsTime, RInv
<1>2. \A n, r : NetMove(n, r)
  BY DEF NetMove
<1> QED
  BY <1>1, <1>2, ClientKeeps

\* The answers that are lists.
LEMMA ListsKeep ==
  ASSUME IInv, RInv, Goes, UNCHANGED server,
         OnVideoListFinished \/ OnImageListFinished
  PROVE  RInv'
<1>1. /\ UNCHANGED <<videos, images, wire>>
      /\ inbound # <<>> /\ inbound' = Tail(inbound)
      /\ Answer.type \in {"VIDEO_LIST", "IMAGE_LIST"}
  BY DEF OnVideoListFinished, OnImageListFinished, server, Taken, Arrived,
         Answer
<1>2. Answer \in Range(inbound)
  BY <1>1, TailRange DEF IInv, Shapes, Wires, Answer
<1>3. Playable(Answer.rows, videos)
  BY <1>1, <1>2 DEF RInv, AnswerOK
<1>4. PICK mode \in {"video", "image"} :
        page' = [s \in Scopes |->
                   IF Takes(page[s], ListKind(mode))
                   THEN ListFinished(page[s], mode) ELSE page[s]]
  <2>1. ListKind("video") = "videos" /\ ListKind("image") = "images"
    BY DEF ListKind
  <2> QED
    BY <2>1, Zenon DEF OnVideoListFinished, OnImageListFinished, BothPages
<1>5. ASSUME NEW s \in Scopes
      PROVE  IF Takes(page[s], ListKind(mode))
             THEN /\ Sound(page'[s], videos)
                  /\ page'[s].pendingTime = page[s].pendingTime
                  /\ page'[s].wait["related"] \in {page[s].wait["related"], 0}
             ELSE page'[s] = page[s]
  <2> DEFINE q == ListFinished(page[s], mode)
  <2>1. page'[s] = IF Takes(page[s], ListKind(mode)) THEN q ELSE page[s]
    BY <1>4, Zenon
  <2>2. /\ Sound(q, videos) /\ q.pendingTime = page[s].pendingTime
        /\ q.wait["related"] = page[s].wait["related"]
    <3>1. IsPage(page[s]) /\ Sound(page[s], videos)
      BY DEF IInv, Shapes, RInv
    <3> QED
      BY <1>3, <3>1, HeardSound, Zenon
  <2> HIDE DEF q
  <2> QED
    BY <2>1, <2>2
<1> QED
  BY <1>1, <1>5, BothKeep

\* Answers that only end the waiting.
LEMMA InsertKeeps ==
  ASSUME IInv, RInv, Goes, UNCHANGED server, OnInsertImageFinished
  PROVE  RInv'
<1>1. /\ UNCHANGED <<videos, images, wire>>
      /\ inbound # <<>> /\ inbound' = Tail(inbound)
  BY DEF OnInsertImageFinished, server, Taken, Arrived
<1>2. page' = [s \in Scopes |->
                 IF Takes(page[s], "insert")
                 THEN [page[s] EXCEPT !.wait["insert"] = 0] ELSE page[s]]
  BY Zenon DEF OnInsertImageFinished, BothPages
<1>3. ASSUME NEW s \in Scopes
      PROVE  IF Takes(page[s], "insert")
             THEN /\ Sound(page'[s], videos)
                  /\ page'[s].pendingTime = page[s].pendingTime
                  /\ page'[s].wait["related"] \in {page[s].wait["related"], 0}
             ELSE page'[s] = page[s]
  <2> DEFINE q == [page[s] EXCEPT !.wait["insert"] = 0]
  <2>1. page'[s] = IF Takes(page[s], "insert") THEN q ELSE page[s]
    BY <1>2, Zenon
  <2>2. IsPage(page[s]) /\ Sound(page[s], videos) /\ "insert" \in Kinds
        /\ "related" \in Kinds
    BY DEF IInv, Shapes, RInv, Kinds
  <2>3. Waits(q, page[s], "insert", 0) /\ Silent(q, page[s])
    BY <2>2, WaitingPage, SilentPage, Zenon
  <2> HIDE DEF q
  <2>4. Sound(q, videos)
    BY <2>2, <2>3, SilentSound
  <2> QED
    BY <2>1, <2>2, <2>3, <2>4 DEF Waits, Silent
<1> QED
  BY <1>1, <1>3, BothKeep

\* A related video that is not opened.
LEMMA IgnoredKeeps ==
  ASSUME IInv, RInv, Goes, UNCHANGED server, Taken, inbound # <<>>,
         NEW kind \in {"related", "delete"}, Ignored(kind)
  PROVE  RInv'
<1>1. /\ UNCHANGED <<videos, images, wire>>
      /\ inbound # <<>> /\ inbound' = Tail(inbound)
  BY DEF Ignored, server, Taken
<1>2. page' = [s \in Scopes |->
                 IF Takes(page[s], kind)
                 THEN [page[s] EXCEPT !.wait[kind] = 0,
                                      !.pendingDelete =
                                        IF kind = "delete" THEN {} ELSE @]
                 ELSE page[s]]
  BY Zenon DEF Ignored, BothPages
<1>3. ASSUME NEW s \in Scopes
      PROVE  IF Takes(page[s], kind)
             THEN /\ Sound(page'[s], videos)
                  /\ page'[s].pendingTime = page[s].pendingTime
                  /\ page'[s].wait["related"] \in {page[s].wait["related"], 0}
             ELSE page'[s] = page[s]
  <2> DEFINE a == IF kind = "delete" THEN {} ELSE page[s].pendingDelete
             q == [page[s] EXCEPT !.wait[kind] = 0, !.pendingDelete = a]
  <2>1. page'[s] = IF Takes(page[s], kind) THEN q ELSE page[s]
    BY <1>2, Zenon
  <2> HIDE DEF a
  <2>2. IsPage(page[s]) /\ Sound(page[s], videos) /\ kind \in Kinds
        /\ "related" \in Kinds
    BY DEF IInv, Shapes, RInv, Kinds
  <2>3. Waits(q, page[s], kind, 0) /\ Silent(q, page[s])
    BY <2>2, WaitingPage, SilentPage, Zenon
  <2> HIDE DEF q
  <2>4. Sound(q, videos)
    BY <2>2, <2>3, SilentSound
  <2>5. q.wait["related"] \in {page[s].wait["related"], 0}
    BY <2>2, <2>3 DEF Waits
  <2> QED
    BY <2>1, <2>3, <2>4, <2>5 DEF Silent
<1> QED
  BY <1>1, <1>3, BothKeep

\* The related video is shown, or the images are gone, and the page loads.
LEMMA LoadingAnswersKeep ==
  ASSUME IInv, RInv, Goes, UNCHANGED server,
         OnRelatedVideoFinished \/ OnDeleteImagesFinished
  PROVE  RInv'
<1>1. Quiet /\ Taken /\ inbound # <<>>
  BY DEF Quiet, server, OnRelatedVideoFinished, OnDeleteImagesFinished, Taken,
         Arrived
<1>2. /\ 1 \in Int /\ 1 \in Nat \ {0} /\ "related" \in Kinds
      /\ \A s \in Scopes : IsPage(page[s]) /\ Sound(page[s], videos)
  BY DEF IInv, Shapes, RInv, Kinds
<1>3. CASE OnRelatedVideoFinished
  <2>1. CASE Ignored("related")
    BY <1>1, <2>1, IgnoredKeeps
  <2>2. CASE \E s \in Scopes :
               /\ Takes(page[s], "related") /\ Answer.ok
               /\ Load(s, ShowingRelated(page[s], Head(Answer.rows)), 1, 1)
    <3>1. PICK s \in Scopes :
            /\ Takes(page[s], "related") /\ Answer.ok
            /\ Load(s, ShowingRelated(page[s], Head(Answer.rows)), 1, 1)
      BY <2>2, Zenon
    <3> DEFINE video == Head(Answer.rows)
               p == ShowingRelated(page[s], video)
    <3>2. Load(s, p, 1, 1)
      BY <3>1
    <3>3. Answered(p, page[s], "related")
      BY <1>2, RelatedPage, Zenon
    <3>4. Answer \in Range(inbound) /\ Answer.type = "RELATED"
      BY <1>1, <1>3, TailRange
         DEF IInv, Shapes, Wires, Answer, OnRelatedVideoFinished, Arrived
    <3>5. /\ video \in videos
          /\ video.at <= Answer.about.at /\ Answer.about.at <= video.until
      BY <3>1, <3>4 DEF RInv, AnswerOK
    <3>6. Answer.about.at = page[s].pendingTime
      BY <3>1, <3>4 DEF RInv, AskedTime, Takes, Messages
    <3> HIDE DEF p, video
    <3>7. Sound(p, videos)
      BY <1>2, <3>5, <3>6, SoundRelated DEF p
    <3>8. IsPage(p) /\ p.wait["related"] = 0
      BY <1>2, <3>3 DEF Answered, IsPage
    <3>9. Ready(p, s)
      BY <3>7, <3>8 DEF Ready
    <3> QED
      BY <1>1, <1>2, <3>2, <3>9, LoadKeeps
  <2> QED
    BY <1>3, <2>1, <2>2 DEF OnRelatedVideoFinished
<1>4. CASE OnDeleteImagesFinished
  <2>1. CASE Ignored("delete")
    BY <1>1, <2>1, IgnoredKeeps
  <2>2. ASSUME NEW s \in Scopes,
               Load(s, [page[s] EXCEPT !.wait["delete"] = 0,
                                       !.pendingDelete = {}, !.path = NoPath],
                    page[s].curPage, 1)
        PROVE  RInv'
    <3> DEFINE p == [page[s] EXCEPT !.wait["delete"] = 0,
                                    !.pendingDelete = {}, !.path = NoPath]
    <3>1. Answered(p, page[s], "delete")
      BY <1>2, DeletedPage, Zenon
    <3>2. Load(s, p, page[s].curPage, 1)
      BY <2>2
    <3>3. \A f \in PageFields : f \in DOMAIN page[s]
      BY <1>2, Fields
    <3>4. /\ p.path = NoPath /\ p.channelid = page[s].channelid
          /\ p.loaded = page[s].loaded
          /\ p.frame = page[s].frame /\ p.late = page[s].late
          /\ p.opened = page[s].opened /\ p.shown = page[s].shown
          /\ p.curPage = page[s].curPage
          /\ p.pendingTime = page[s].pendingTime
      BY <3>3, Zenon DEF PageFields
    <3> HIDE DEF p
    <3>5. IsPage(p) /\ p.wait["related"] = page[s].wait["related"]
      BY <1>2, <3>1 DEF Answered, IsPage
    <3>6. NoPath[1] # "avi"
      BY DEF NoPath
    <3>7. Sound(p, videos)
      BY <1>2, <3>4, <3>6 DEF Sound
    <3>8. Ready(p, s)
      BY <3>4, <3>5, <3>7 DEF Ready
    <3>9. page[s].curPage \in Int
      BY <1>2 DEF Sound
    <3> QED
      BY <1>1, <1>2, <3>2, <3>8, <3>9, LoadKeeps
  <2> QED
    BY <1>4, <2>1, <2>2, Zenon DEF OnDeleteImagesFinished
<1> QED
  BY <1>3, <1>4
-----------------------------------------------------------------------------
(***************************************************************************)
(* The server.                                                             *)
(***************************************************************************)
\* The rows of an answer are what the tables say.
Truthful(r, a, V) ==
  /\ r.type \in {"VIDEO_LIST", "IMAGE_LIST"} => Playable(a.rows, V)
  /\ r.type = "RELATED" /\ a.ok =>
       /\ Head(a.rows) \in V
       /\ Head(a.rows).at <= r.about.at /\ r.about.at <= Head(a.rows).until

\* The rows of a page are of the table.
LEMMA PageRows ==
  ASSUME NEW S, IsFiniteSet(S), NEW n \in Nat \ {0}, NEW a,
         a \in PageAnswers(S, n, PageSize)
  PROVE  \A i \in DOMAIN a.rows : a.rows[i] \in S
<1>1. CASE a = Refused
  BY <1>1 DEF Refused
<1>2. CASE a # Refused
  <2>1. PICK list \in NewestFirst(S) : a.rows = Page(list, n, PageSize)
    BY <1>2 DEF PageAnswers
  <2>2. list \in Seq(S)
    BY ListedRows
  <2>3. a.rows \in Seq(S)
    BY <2>1, <2>2, PageIs, RecordsAssumption DEF Cut
  <2> QED
    BY <2>3, ElementOfSeq, LenProperties
<1> QED
  BY <1>1, <1>2

\* The answers of the server to the queries of the pages.
LEMMA FoundIsTruthful ==
  ASSUME Tables, NEW r, RequestOK(r),
         r.type \in {"VIDEO_LIST", "IMAGE_LIST", "RELATED"},
         NEW a \in Served(Found(r), Refused)
  PROVE  Truthful(r, a, videos)
<1>1. Refused.ok = FALSE /\ Refused.rows = <<>>
  BY DEF Refused
<1>2. CASE a = Refused
  BY <1>1, <1>2 DEF Truthful, Playable
<1>3. CASE a # Refused /\ r.type = "VIDEO_LIST"
  <2> DEFINE S == Filtered(videos, r.about)
  <2>1. a \in PageAnswers(S, r.about.page, PageSize)
    BY <1>3 DEF Served, Found, QueryVideoList
  <2>2. S \subseteq videos /\ IsFiniteSet(S)
    BY FS_Subset DEF Filtered, Tables
  <2>3. r.about.page \in Nat \ {0}
    BY <1>3 DEF RequestOK
  <2> HIDE DEF S
  <2>4. \A i \in DOMAIN a.rows : a.rows[i] \in S
    BY <2>1, <2>2, <2>3, PageRows
  <2> QED
    BY <1>3, <2>2, <2>4 DEF Truthful, Playable
<1>4. CASE a # Refused /\ r.type = "IMAGE_LIST"
  <2> DEFINE S == Filtered(images, r.about)
  <2>1. a \in PageAnswers(S, r.about.page, PageSize)
    BY <1>4 DEF Served, Found, QueryImageList
  <2>2. S \subseteq images /\ IsFiniteSet(S)
    BY FS_Subset DEF Filtered, Tables
  <2>3. r.about.page \in Nat \ {0}
    BY <1>4 DEF RequestOK
  <2> HIDE DEF S
  <2>4. \A i \in DOMAIN a.rows : a.rows[i] \in S
    BY <2>1, <2>2, <2>3, PageRows
  <2> QED
    BY <1>4, <2>2, <2>4 DEF Truthful, Playable, Tables
<1>5. CASE a # Refused /\ r.type = "RELATED"
  <2> DEFINE S == {v \in videos :
                     /\ Covers(v, r.about.channel, r.about.at)
                     /\ v.anomaly = (r.about.scope = "anomaly")}
  <2>1. PICK list \in NewestFirst(S) \ {<<>>} : a.rows = <<Head(list)>>
    BY <1>5 DEF Served, Found, FindRelatedVideo
  <2>2. IsFiniteSet(S) /\ \A v \in S : v \in videos /\ v.at <= r.about.at
                                       /\ r.about.at <= v.until
    BY FS_Subset DEF Tables, Covers
  <2> HIDE DEF S
  <2>3. list \in Seq(S)
    BY <2>1, <2>2, ListedRows
  <2>4. Head(list) \in S
    BY <2>1, <2>3, HeadTailProperties
  <2>5. Head(a.rows) = Head(list)
    BY <2>1
  <2> QED
    BY <1>5, <2>2, <2>4, <2>5 DEF Truthful
<1> QED
  BY <1>2, <1>3, <1>4, <1>5

\* An answer is given, for tables that hold every video they held.
LEMMA ReplyKeeps ==
  ASSUME IInv, RInv, Goes, wire # <<>>,
         NEW id, NEW a, NEW total, Reply(id, a.ok, a.rows, total),
         videos \subseteq videos', Tables', Truthful(Request, a, videos')
  PROVE  RInv'
<1> DEFINE answer == [id |-> id, type |-> Request.type, ok |-> a.ok,
                      rows |-> a.rows, total |-> total,
                      about |-> Request.about]
<1>1. /\ page' = page /\ wire' = Tail(wire)
      /\ inbound' = IF link # "up" THEN inbound ELSE Append(inbound, answer)
  BY DEF Reply, review
<1>2. AnswerOK(answer, videos')
  BY DEF AnswerOK, Truthful
<1> HIDE DEF answer
<1>3. Range(wire') \subseteq Range(wire)
  BY <1>1, TailRange DEF IInv, Shapes, Wires
<1>4. \A m \in Range(inbound') : m \in Range(inbound) \/ m = answer
  BY <1>1, AppendRange DEF IInv, Shapes, Wires
<1>5. \A m \in Range(wire') : RequestOK(m)
  BY <1>3 DEF RInv
<1>6. /\ \A m \in Range(inbound) : AnswerOK(m, videos')
      /\ \A s \in Scopes : Sound(page[s], videos')
  BY MoreVideos DEF RInv
<1>7. \A s \in Scopes : Sound(page'[s], videos') /\ KeepsTime(s)
  BY <1>1, <1>6 DEF KeepsTime
<1>8. \A s \in Scopes : AskedTime(s)'
  BY <1>7, TimeKept DEF Goes, RInv
<1> QED
  BY <1>2, <1>4, <1>5, <1>6, <1>7, <1>8 DEF RInv

\* What an edit leaves: the table before or the one after.
LEMMA EditLeaves ==
  ASSUME NEW before, NEW after, NEW e,
         \/ e \in Served(Edits(before, after), [ok |-> FALSE, table |-> before])
         \/ e \in Edits(before, after)
         \/ e = [ok |-> FALSE, table |-> before]
  PROVE  e.table = before \/ e.table = after
BY DEF Served, Edits

\* A recording stored, with its session or without.
LEMMA UploadKeeps == ASSUME IInv, RInv, Goes, HandleUpload PROVE RInv'
<1> DEFINE before == <<videos, images>>
           after == <<videos \cup {Request.about.video},
                      images \cup Request.about.images>>
           same == [ok |-> FALSE, table |-> before]
<1>1. PICK e \in Served(Edits(before, after), same) :
        /\ videos' = e.table[1] /\ images' = e.table[2]
        /\ Reply(Request.id, e.ok, <<>>, 0)
  BY DEF HandleUpload
<1>2. e.table = before \/ e.table = after
  BY <1>1, EditLeaves
<1>3. \/ videos' = videos /\ images' = images
      \/ /\ videos' = videos \cup {Request.about.video}
         /\ images' = images \cup Request.about.images
  BY <1>1, <1>2
<1> HIDE DEF before, after
<1>4. wire # <<>> /\ Request.type \in {"INSERT_VIDEO", "SESSION"}
  BY DEF HandleUpload, Received
<1>5. Request \in Range(wire)
  BY <1>4, TailRange DEF IInv, Shapes, Wires, Request
<1>6. Request.about \in Uploads
  BY <1>4, <1>5 DEF RInv, RequestOK
<1>7. /\ IsFiniteSet(Request.about.images)
      /\ \A image \in Request.about.images : image.path[1] # "avi"
  BY <1>6, TablesAssumption DEF AllImages
<1>8. Tables'
  <2>1. /\ IsFiniteSet(videos \cup {Request.about.video})
        /\ IsFiniteSet(images \cup Request.about.images)
    BY <1>7, FS_Union, FS_AddElement DEF RInv, Tables
  <2>2. IsFiniteSet(videos') /\ IsFiniteSet(images')
    BY <1>3, <2>1 DEF RInv, Tables
  <2>3. \A image \in images' : image.path[1] # "avi"
    BY <1>3, <1>7 DEF RInv, Tables
  <2> QED
    BY <2>2, <2>3 DEF Tables
<1> DEFINE a == [ok |-> e.ok, rows |-> <<>>]
<1>9. /\ Reply(Request.id, a.ok, a.rows, 0)
      /\ Truthful(Request, a, videos')
  BY <1>1, <1>4 DEF Truthful
<1> HIDE DEF a
<1> QED
  BY <1>3, <1>4, <1>8, <1>9, ReplyKeeps

\* Images come and go; the videos stay as they are.
LEMMA ImagesKeep ==
  ASSUME IInv, RInv, Goes, HandleInsertImage \/ HandleDeleteImages
  PROVE  RInv'
<1>1. /\ wire # <<>> /\ videos' = videos
      /\ Request.type \in {"INSERT_IMAGE", "DELETE"}
  BY DEF HandleInsertImage, HandleDeleteImages, Received
<1>2. RequestOK(Request)
  BY <1>1, TailRange DEF IInv, Shapes, Wires, Request, RInv
<1>3. ASSUME NEW e, Reply(Request.id, e.ok, <<>>, 0), Tables'
      PROVE  RInv'
  <2> DEFINE a == [ok |-> e.ok, rows |-> <<>>]
  <2>1. /\ Reply(Request.id, a.ok, a.rows, 0)
        /\ Truthful(Request, a, videos')
    BY <1>1, <1>3 DEF Truthful
  <2> HIDE DEF a
  <2> QED
    BY <1>1, <1>3, <2>1, ReplyKeeps
<1>4. CASE HandleInsertImage
  <2> DEFINE row == SnapshotRow(Request.about)
             same == [ok |-> FALSE, table |-> images]
  <2>1. PICK e \in Served(InsertImage(images, row), same) :
          images' = e.table /\ Reply(Request.id, e.ok, <<>>, 0)
    BY <1>4 DEF HandleInsertImage
  <2>2. e = same \/ e \in Edits(images, images \cup {row})
    BY <2>1 DEF Served, InsertImage
  <2>3. images' = images \/ images' = images \cup {row}
    BY <2>1, <2>2, EditLeaves
  <2>4. Request.type = "INSERT_IMAGE" /\ row.path = Request.about.path
    BY <1>4 DEF HandleInsertImage, Received, SnapshotRow
  <2> HIDE DEF row
  <2>5. Tables'
    BY <1>1, <1>2, <2>3, <2>4, FS_AddElement DEF RInv, Tables, RequestOK
  <2> QED
    BY <1>3, <2>1, <2>5
<1>5. CASE HandleDeleteImages
  <2> DEFINE rest == {row \in images : row.id \notin Request.about.ids}
             same == [ok |-> FALSE, table |-> images]
  <2>1. PICK e \in Served(DeleteImages(images, Request.about.ids), same) :
          images' = e.table /\ Reply(Request.id, e.ok, <<>>, 0)
    BY <1>5 DEF HandleDeleteImages
  <2>2. images' = images \/ images' = rest
    BY <2>1, EditLeaves DEF DeleteImages, Served
  <2>3. images' \subseteq images
    BY <2>2
  <2>4. Tables'
    BY <1>1, <2>3, FS_Subset DEF RInv, Tables
  <2> QED
    BY <1>3, <2>1, <2>4
<1> QED
  BY <1>4, <1>5

\* Whatever the server does with the request it takes.
LEMMA ServerKeeps == ASSUME IInv, RInv, Goes, Server PROVE RInv'
<1>1. wire # <<>>
  BY DEF Server, HandleLogin, HandleQuery, HandleQueryLogList, HandleUpload,
         HandleInsertImage, HandleDeleteImages, Received
<1>2. RequestOK(Request)
  BY <1>1, TailRange DEF IInv, Shapes, Wires, Request, RInv
<1>3. ASSUME UNCHANGED server PROVE Tables' /\ videos' = videos
  BY <1>3 DEF server, RInv, Tables
<1>4. ASSUME UNCHANGED server, Request.type \in {"LOGIN", "LOG_LIST"},
             NEW id, NEW ok, Reply(id, ok, <<>>, 0)
      PROVE  RInv'
  <2> DEFINE a == [ok |-> ok, rows |-> <<>>]
  <2>1. Reply(id, a.ok, a.rows, 0) /\ Truthful(Request, a, videos')
    BY <1>4 DEF Truthful
  <2> HIDE DEF a
  <2> QED
    BY <1>1, <1>3, <1>4, <2>1, ReplyKeeps
<1>5. CASE HandleLogin
  BY <1>4, <1>5 DEF HandleLogin, Received
<1>6. CASE HandleQueryLogList
  <2>1. PICK answer : Reply(answer[1], answer[2], <<>>, 0)
    BY <1>6, Zenon DEF HandleQueryLogList
  <2> QED
    BY <1>4, <1>6, <2>1 DEF HandleQueryLogList, Received
<1>7. CASE HandleQuery
  <2>1. PICK a \in Served(Found(Request), Refused) :
          Reply(Request.id, a.ok, a.rows, a.total)
    BY <1>7 DEF HandleQuery
  <2>2. UNCHANGED server
        /\ Request.type \in {"VIDEO_LIST", "IMAGE_LIST", "RELATED"}
    BY <1>7 DEF HandleQuery, Received
  <2>3. Truthful(Request, a, videos)
    BY <1>2, <2>1, <2>2, FoundIsTruthful DEF RInv
  <2> QED
    BY <1>1, <1>3, <2>1, <2>2, <2>3, ReplyKeeps
<1> QED
  BY <1>5, <1>6, <1>7, UploadKeeps, ImagesKeep DEF Server
-----------------------------------------------------------------------------
(***************************************************************************)
(* The theorem.                                                            *)
(***************************************************************************)
\* The invariant holds at the beginning, ...
LEMMA InitRInv == Init => RInv
<1> SUFFICES ASSUME Init PROVE RInv
  OBVIOUS
<1>1. Tables
  BY TablesAssumption DEF Init, Tables, AllImages
<1>2. Range(wire) = {} /\ Range(inbound) = {}
  <2>1. wire = <<>> /\ inbound = <<>>
    BY DEF Init, ApiInit
  <2> QED
    BY <2>1 DEF Range
<1>3. \A s \in Scopes : page[s] = FreshPage
  BY DEF Init
<1>4. /\ FreshPage.curPage = 1 /\ FreshPage.shown.rows = <<>>
      /\ FreshPage.path = NoPath /\ FreshPage.loaded = NoPath
      /\ FreshPage.frame = NoPath /\ FreshPage.opened = NotOpened
      /\ FreshPage.wait["related"] = 0 /\ NoPath[1] # "avi"
  BY DEF FreshPage, NoList, NoPath, Kinds
<1>5. Sound(FreshPage, videos)
  <2> DEFINE p == FreshPage
  <2>1. /\ p.curPage = 1 /\ p.shown.rows = <<>>
        /\ p.path = NoPath /\ p.loaded = NoPath
        /\ p.frame = NoPath /\ p.opened = NotOpened /\ NoPath[1] # "avi"
    BY <1>4
  <2> HIDE DEF p
  <2>2. Playable(p.shown.rows, videos)
    BY <2>1 DEF Playable
  <2>4. p.path[1] # "avi" /\ p.curPage \in Nat \ {0}
    BY <2>1
  <2>5. Sound(p, videos)
    BY <2>1, <2>2, <2>4 DEF Sound
  <2> QED
    BY <2>5 DEF p
<1>6. \A s \in Scopes : AskedTime(s)
  BY <1>3, <1>4 DEF AskedTime
<1> QED
  BY <1>1, <1>2, <1>3, <1>5, <1>6 DEF RInv

\* ... is kept by every step, ...
LEMMA RInvStep == ASSUME IInv, RInv, DialogOfPage, [Next]_vars PROVE RInv'
<1>0. Goes
  BY IInvStep
<1>1. CASE LinkUp \/ LinkLost \/ OnLoginFinished \/ OnLogListFinished
           \/ OnUploadFinished
  <2>1. UNCHANGED server
    BY <1>1 DEF LinkUp, LinkLost, OnLoginFinished, OnLogListFinished,
                OnUploadFinished
  <2> QED
    BY <1>0, <1>1, <2>1, WindowsKeep
<1>2. CASE Server
  BY <1>0, <1>2, ServerKeeps
<1>3. CASE RecordingFinished \/ SwitchToLog \/ ClickLog \/ Login
           \/ \E s \in Scopes : SwitchToReview(s)
  BY <1>0, <1>3, WindowClicksKeep
<1>4. CASE ReviewAnswer
  BY <1>0, <1>4, ListsKeep, InsertKeeps, LoadingAnswersKeep DEF ReviewAnswer
<1>5. CASE ReviewStep
  <2>1. UNCHANGED server
    BY <1>5 DEF ReviewStep
  <2>2. ASSUME NEW s \in Scopes, ReviewClick(s) PROVE RInv'
    <3>1. CASE AskDelete(s) \/ OpenPreview(s) \/ AskSave(s)
      <4>1. UNCHANGED <<api, page>>
        BY <3>1 DEF AskDelete, OpenPreview, AskSave, Open
      <4> QED
        BY <1>0, <2>1, <4>1, WindowsKeep
    <3> QED
      BY <1>0, <2>1, <2>2, <3>1, LoadClicksKeep, PlayerKeeps DEF ReviewClick
  <2>3. CASE CloseDialog
    BY <1>0, <2>1, <2>3, WindowsKeep DEF CloseDialog
  <2>4. CASE ConfirmDelete \/ AskRelated \/ SaveFrame
    BY <1>0, <2>1, <2>4, DialogAsksKeep
  <2> QED
    BY <1>5, <2>2, <2>3, <2>4 DEF ReviewStep
<1>6. CASE OpenLogin \/ (\E t \in PlainTabs : SwitchTo(t)) \/ UNCHANGED vars
  <2>1. UNCHANGED <<api, page>> /\ UNCHANGED server
    BY <1>6 DEF OpenLogin, SwitchTo, vars, review
  <2> QED
    BY <1>0, <2>1, WindowsKeep
<1> QED
  BY <1>1, <1>2, <1>3, <1>4, <1>5, <1>6 DEF Next, UserStep, Answers

\* ... and so holds always.
LEMMA RInvHolds == Spec => []RInv
<1>1. (IInv /\ DialogOfPage) /\ RInv /\ [Next]_vars => RInv'
  BY RInvStep
<1> QED
  BY <1>1, InitRInv, IInvHolds, PTL DEF Spec

\* The video opened for an image was recording when the image was taken,
\* whatever images were asked about before and whatever the pages and the
\* tables have become since.  And a snapshot is of the channel it is recorded
\* under, unless its frame is a late one: one that the player had handed out
\* before it was stopped for another row, and that came after itemselected had
\* taken m_lastVideoFrame back (onRelatedVideoFinished, openVideoAtTimestamp,
\* itemselected, videoFrameChanged and onsavedClicked).
THEOREM PlaysWhatWasRecorded == Spec => []PlaysTheRecording
<1>1. RInv => PlaysTheRecording
  <2> SUFFICES ASSUME RInv, NEW s \in Scopes
               PROVE  /\ page[s].opened # NotOpened =>
                           \E v \in videos :
                             /\ v.id = page[s].opened.video
                             /\ v.at <= page[s].opened.at
                             /\ page[s].opened.at <= v.until
                      /\ page[s].frame \notin {NoPath, page[s].late} =>
                           \E v \in videos : /\ v.path = page[s].frame
                                             /\ v.channel = page[s].channelid
    BY DEF PlaysTheRecording
  <2> QED
    BY DEF RInv, Sound, Recorded
<1> QED
  BY <1>1, RInvHolds, PTL
-----------------------------------------------------------------------------
(***************************************************************************)
(* The inductive invariant for FilesFollowRows.                            *)
(***************************************************************************)
UploadTypes == {"INSERT_VIDEO", "SESSION"}

\* Requests are served in the order of their numbers, so none is met twice.
Orderly == \A i, j \in 1..Len(wire) : i < j => wire[i].id < wire[j].id

\* The upload is under way.
UploadOnWire(u) ==
  \E m \in Range(wire) : m.type \in UploadTypes /\ m.about = u

\* Images of this path may still come into the table.
Ahead(path) ==
  \/ path \notin named
  \/ \E m \in Range(wire) : m.type = "INSERT_IMAGE" /\ m.about.path = path
  \/ \E u \in Uploads : /\ path \in Paths(u.images)
                        /\ u \notin finished \/ UploadOnWire(u)

\* An image that is stored, or was: no other will have its path, unless a
\* snapshot is saved under it again.
Past(a) ==
  /\ a.path[1] # "avi"
  /\ \/ a.path \in again
     \/ /\ ~Ahead(a.path)
        /\ \A b \in images : b.path = a.path => b.id = a.id

\* What is asked to be stored has its files.
Backed(m) ==
  /\ m.type = "INSERT_IMAGE" =>
       /\ m.about.path \in named /\ m.about.path[1] # "avi"
       /\ \/ m.about.path \in again
          \/ m.about.path \in files \ Paths(AllImages)
  /\ m.type \in UploadTypes =>
       /\ m.about \in Uploads /\ m.about \in finished
       /\ m.about.video.path \in files
       /\ Paths(m.about.images) \subseteq files \cup again

\* Nothing is uploaded twice.
OneUpload ==
  \A m, o \in Range(wire) :
    /\ m.type \in UploadTypes /\ o.type \in UploadTypes
    /\ m.about = o.about
    => m.id = o.id

\* No two snapshots of one name are on their way, unless the second was saved
\* over the first.
OneInsert ==
  \A m, o \in Range(wire) :
    /\ m.type = "INSERT_IMAGE" /\ o.type = "INSERT_IMAGE"
    /\ m.about.path = o.about.path
    => m.id = o.id \/ m.about.path \in again

\* The images the client knows of.
Known ==
  (UNION {page[s].detail \cup page[s].pendingDelete : s \in Scopes})
  \cup modal.images
  \cup (UNION {Range(m.rows) : m \in {o \in Range(inbound) :
                                        o.type = "IMAGE_LIST"}})

\* Where an image that is known is known.
KnownSomewhere ==
  \A a \in Known :
    \/ \E s \in Scopes :
         a \in page[s].detail \/ a \in page[s].pendingDelete
    \/ a \in modal.images
    \/ \E m \in Range(inbound) : m.type = "IMAGE_LIST" /\ a \in Range(m.rows)

\* What a page waits to see deleted is what was asked, and once it has been
\* deleted none of the paths is stored, unless a snapshot was saved there.
Deleting(s) ==
  page[s].wait["delete"] # 0 =>
    /\ \A m \in Range(wire) :
         m.type = "DELETE" /\ m.id = page[s].wait["delete"] =>
           m.about.ids = Ids(page[s].pendingDelete)
    /\ \A m \in Range(inbound) :
         m.type = "DELETE" /\ m.ok = TRUE /\ m.id = page[s].wait["delete"] =>
           Paths(page[s].pendingDelete) \cap Paths(images) \subseteq again

\* The inductive invariant.
FInv ==
  /\ Orderly
  /\ \A m \in Range(wire) : Backed(m)
  /\ OneUpload /\ OneInsert
  /\ FilesFollowRows
  /\ Paths(AllImages) \subseteq named
  /\ \A v \in videos : v.path[1] = "avi"
  /\ \A a \in images : Past(a)
  /\ \A a \in Known : Past(a)
  /\ \A s \in Scopes : Deleting(s)
-----------------------------------------------------------------------------
(***************************************************************************)
(* The order of the requests.                                              *)
(***************************************************************************)
Increasing(w) == \A i, j \in 1..Len(w) : i < j => w[i].id < w[j].id

\* The first request is not among the others.
LEMMA FirstGoes ==
  ASSUME Wires, Orderly, wire # <<>>
  PROVE  /\ Increasing(Tail(wire))
         /\ \A m \in Range(Tail(wire)) : Head(wire).id < m.id
<1> DEFINE t == Tail(wire)
<1>1. /\ t \in Seq(Range(wire)) /\ Head(wire) = wire[1]
      /\ Len(t) = Len(wire) - 1
      /\ \A i \in 1..Len(t) : t[i] = wire[i + 1]
  BY HeadTailProperties DEF Wires
<1>2. Len(wire) \in Nat \ {0}
  BY EmptySeq, LenProperties DEF Wires
<1>3. Len(t) \in Nat /\ DOMAIN t = 1..Len(t)
  BY <1>1, LenProperties
<1> HIDE DEF t
<1>4. \A i \in 1..Len(t) : i + 1 \in 1..Len(wire) /\ 1 < i + 1
  BY <1>1, <1>2
<1>5. 1 \in 1..Len(wire)
  BY <1>2
<1>6. ASSUME NEW i \in 1..Len(t), NEW j \in 1..Len(t), i < j
      PROVE  t[i].id < t[j].id
  <2>1. i + 1 < j + 1
    BY <1>3, <1>6
  <2> QED
    BY <1>1, <1>4, <1>6, <2>1 DEF Orderly
<1>7. ASSUME NEW m \in Range(t) PROVE wire[1].id < m.id
  <2>1. PICK i \in 1..Len(t) : m = t[i]
    BY <1>3, <1>7 DEF Range
  <2>2. m = wire[i + 1] /\ i + 1 \in 1..Len(wire) /\ 1 < i + 1
    BY <1>1, <1>4, <2>1
  <2> QED
    BY <1>5, <2>2 DEF Orderly
<1> QED
  BY <1>1, <1>6, <1>7 DEF t, Increasing

\* New requests have the largest numbers.
LEMMA NewComeLast ==
  ASSUME IInv, Orderly, NEW n \in Nat \ {0}, NEW r, Send([i \in 1..n |-> r])
  PROVE  Orderly'
<1> DEFINE rs == [i \in 1..n |-> r]
           new == [i \in 1..n |-> Message(i, r)]
           S == Range(wire) \cup {Message(i, r) : i \in 1..n}
<1>1. wire' = wire \o new
  BY DEF Send, Message
<1>2. new \in Seq(S) /\ Len(new) = n /\ \A i \in 1..n : new[i] = Message(i, r)
  <2>1. \A i \in 1..n : Message(i, r) \in S
    OBVIOUS
  <2> HIDE DEF S
  <2> QED
    BY <2>1, IsASeq
<1>3. wire \in Seq(S) /\ Wires
  BY SeqMonotonic DEF Wires, IInv, Shapes
<1> HIDE DEF new, S
<1> DEFINE k == Len(wire)
<1>4. k \in Nat /\ DOMAIN wire = 1..k
  BY <1>3, LenProperties
<1>5. /\ Len(wire') = k + n
      /\ \A i \in 1..(k + n) :
           wire'[i] = IF i <= k THEN wire[i] ELSE new[i - k]
  BY <1>1, <1>2, <1>3, ConcatProperties
<1> HIDE DEF k
<1>6. /\ nextRequestId \in Nat
      /\ \A m \in Range(wire) : m.id \in 0..(nextRequestId - 1)
  BY DEF IInv, Numbered, Messages
<1>7. \A i \in 1..k : wire[i].id \in 0..(nextRequestId - 1)
  BY <1>4, <1>6 DEF Range
<1>8. \A i \in 1..n : new[i].id = nextRequestId + i - 1
  BY <1>2 DEF Message
<1>9. ASSUME NEW i \in 1..(k + n), NEW j \in 1..(k + n), i < j
      PROVE  wire'[i].id < wire'[j].id
  <2>1. CASE j <= k
    <3>1. i \in 1..k /\ j \in 1..k
      BY <1>4, <1>9, <2>1
    <3> QED
      BY <1>5, <1>9, <3>1 DEF Orderly, k
  <2>2. CASE i <= k /\ ~(j <= k)
    <3>1. i \in 1..k /\ j - k \in 1..n
      BY <1>4, <1>9, <2>2
    <3>2. wire'[i].id = wire[i].id /\ wire'[j].id = nextRequestId + (j - k) - 1
      BY <1>5, <1>8, <2>2, <3>1
    <3> QED
      BY <1>6, <1>7, <3>1, <3>2
  <2>3. CASE ~(i <= k)
    <3>1. i - k \in 1..n /\ j - k \in 1..n /\ ~(j <= k)
      BY <1>4, <1>9, <2>3
    <3>2. /\ wire'[i].id = nextRequestId + (i - k) - 1
          /\ wire'[j].id = nextRequestId + (j - k) - 1
      BY <1>5, <1>8, <2>3, <3>1
    <3>3. i - k < j - k /\ nextRequestId \in Int
          /\ i - k \in Int /\ j - k \in Int
      BY <1>4, <1>6, <1>9
    <3>4. nextRequestId + (i - k) - 1 < nextRequestId + (j - k) - 1
      BY <3>3
    <3> QED
      BY <3>2, <3>4
  <2> QED
    BY <1>4, <1>9, <2>1, <2>2, <2>3
<1> QED
  BY <1>5, <1>9 DEF Orderly
-----------------------------------------------------------------------------
(***************************************************************************)
(* The steps of the client, and the files.                                 *)
(***************************************************************************)
\* An image that was stored stays the only one of its path, unless a snapshot
\* is saved there.
LEMMA PastStays ==
  ASSUME \A path : Ahead(path)' => Ahead(path) \/ path \in again',
         \A b \in images' :
           b \in images \/ Ahead(b.path) \/ b.path \in again',
         again \subseteq again',
         NEW a, Past(a)
  PROVE  Past(a)'
BY DEF Past

\* What a step asks is backed by files it has written.
AsksWell(n, r) ==
  /\ r.type = "INSERT_IMAGE" =>
       /\ n = 1 /\ r.about.path \in named' /\ r.about.path[1] # "avi"
       /\ \/ r.about.path \in again'
          \/ r.about.path \in files' \ named
  /\ r.type \in UploadTypes =>
       /\ n = 1 /\ r.about \in Uploads \ finished /\ r.about \in finished'
       /\ Paths({r.about.video} \cup r.about.images) \subseteq files'

\* A step of the client that sends r, n times, or nothing.
FMove(n, r) ==
  /\ UNCHANGED <<videos, images>> /\ finished \subseteq finished'
  /\ named \subseteq named' /\ again \subseteq again'
  /\ \/ UNCHANGED <<nextRequestId, wire>>
     \/ n \in Nat \ {0} /\ Send([i \in 1..n |-> r]) /\ AsksWell(n, r)
  /\ \/ inbound' = inbound \/ inbound' = <<>>
     \/ inbound # <<>> /\ inbound' = Tail(inbound)

\* No page gets to know of an image it has not seen.
Learns(s) ==
  page'[s].detail \subseteq Known /\ page'[s].pendingDelete \subseteq Known

\* A page waits for the deletion it waited for, for none, or for a new one.
KeepsDelete(s, n, r) ==
  \/ /\ page'[s].wait["delete"] = page[s].wait["delete"]
     /\ page'[s].pendingDelete = page[s].pendingDelete
  \/ page'[s].wait["delete"] = 0
  \/ /\ page'[s].wait["delete"] = LastId(1)
     /\ n = 1 /\ r = DeleteRequest(page'[s].pendingDelete)
     /\ Send([i \in 1..n |-> r])

\* The requests, once new ones are sent.
LEMMA WireGrows ==
  ASSUME IInv, NEW n, NEW r, FMove(n, r)
  PROVE  /\ nextRequestId \in Nat /\ nextRequestId' \in Nat
         /\ nextRequestId' >= nextRequestId
         /\ \A m \in Range(wire) : m.id < nextRequestId
         /\ \A m \in Range(wire') :
              \/ m \in Range(wire)
              \/ /\ Sent(n, r) /\ AsksWell(n, r) /\ m.id >= nextRequestId
                 /\ m.type = r.type /\ m.about = r.about
                 /\ n = 1 => m.id = nextRequestId /\ nextRequestId' = m.id + 1
<1>1. /\ nextRequestId \in Nat /\ Wires
      /\ \A m \in Range(wire) : m.id \in Nat /\ m.id < nextRequestId
  BY DEF IInv, Numbered, Messages, Shapes
<1>2. CASE UNCHANGED <<nextRequestId, wire>>
  BY <1>1, <1>2
<1>3. CASE n \in Nat \ {0} /\ Send([i \in 1..n |-> r]) /\ AsksWell(n, r)
  <2>1. Sent(n, r)
    BY <1>1, <1>3, SendCopies
  <2>2. nextRequestId' = nextRequestId + n /\ n \in Nat
    BY <1>3, <2>1 DEF Sent
  <2>3. ASSUME NEW i \in 1..n, NEW m, m = Message(i, r)
        PROVE  /\ m.id >= nextRequestId /\ m.type = r.type
               /\ m.about = r.about
               /\ n = 1 => m.id = nextRequestId
    <3>1. m.id = nextRequestId + i - 1 /\ m.type = r.type /\ m.about = r.about
      BY <2>3 DEF Message
    <3>2. i \in Nat /\ i >= 1 /\ (n = 1 => i = 1)
      BY <2>2
    <3> QED
      BY <1>1, <3>1, <3>2
  <2>4. \A m \in Range(wire') :
          m \in Range(wire) \/ \E i \in 1..n : m = Message(i, r)
    BY <2>1 DEF Sent
  <2> QED
    BY <1>1, <1>3, <2>1, <2>2, <2>3, <2>4
<1> QED
  BY <1>2, <1>3 DEF FMove

\* A step that asks for nothing new but of images to come.
LEMMA AheadStays ==
  ASSUME IInv, NEW n, NEW r, FMove(n, r), NEW path, Ahead(path)'
  PROVE  Ahead(path) \/ path \in again'
<1>2. finished \subseteq finished' /\ named \subseteq named'
  BY DEF FMove
<1>3. CASE path \notin named'
  BY <1>2, <1>3 DEF Ahead
<1>4. ASSUME NEW m \in Range(wire'), m.type = "INSERT_IMAGE",
             m.about.path = path
      PROVE  Ahead(path) \/ path \in again'
  <2>1. CASE m \in Range(wire)
    BY <1>4, <2>1 DEF Ahead
  <2>2. CASE m \notin Range(wire)
    <3>1. AsksWell(n, r) /\ m.type = r.type /\ m.about = r.about
      BY <1>4, <2>2, WireGrows
    <3>2. path \in again' \/ path \notin named
      BY <1>4, <3>1 DEF AsksWell
    <3> QED
      BY <3>2 DEF Ahead
  <2> QED
    BY <2>1, <2>2
<1>5. ASSUME NEW u \in Uploads, path \in Paths(u.images),
             u \notin finished' \/ UploadOnWire(u)'
      PROVE  Ahead(path)
  <2>1. CASE u \notin finished'
    BY <1>2, <1>5, <2>1 DEF Ahead
  <2>2. CASE UploadOnWire(u)'
    <3>1. PICK m \in Range(wire') : m.type \in UploadTypes /\ m.about = u
      BY <2>2 DEF UploadOnWire
    <3>2. CASE m \in Range(wire)
      BY <1>5, <3>1, <3>2 DEF Ahead, UploadOnWire
    <3>3. CASE m \notin Range(wire)
      <4>1. AsksWell(n, r) /\ m.type = r.type /\ m.about = r.about
        BY <3>1, <3>3, WireGrows
      <4>2. u \notin finished
        BY <3>1, <4>1 DEF AsksWell
      <4> QED
        BY <1>5, <4>2 DEF Ahead
    <3> QED
      BY <3>2, <3>3
  <2> QED
    BY <1>5, <2>1, <2>2
<1> QED
  BY <1>3, <1>4, <1>5 DEF Ahead

\* The requests and answers of a step of the client.
LEMMA AsksStayBacked ==
  ASSUME IInv, FInv, NEW n, NEW r, FMove(n, r),
         \A m \in Range(wire) : Backed(m) => Backed(m)'
  PROVE  /\ Orderly' /\ OneUpload' /\ OneInsert'
         /\ \A m \in Range(wire') : Backed(m)'
<1>1. Orderly'
  <2>1. CASE UNCHANGED <<nextRequestId, wire>>
    BY <2>1 DEF FInv, Orderly
  <2>2. CASE n \in Nat \ {0} /\ Send([i \in 1..n |-> r])
    BY <2>2, NewComeLast DEF FInv
  <2> QED
    BY <2>1, <2>2 DEF FMove
<1>2. ASSUME NEW m \in Range(wire') PROVE Backed(m)'
  <2>1. CASE m \in Range(wire)
    BY <2>1 DEF FInv
  <2>2. CASE m \notin Range(wire)
    <3>1. /\ AsksWell(n, r) /\ m.type = r.type /\ m.about = r.about
          /\ n = 1 => m.id = nextRequestId
      BY <2>2, WireGrows
    <3>2. m.about.path \notin named => m.about.path \notin Paths(AllImages)
      BY DEF FInv
    <3>3. ASSUME m.type \in UploadTypes
          PROVE  /\ m.about.video.path \in files'
                 /\ Paths(m.about.images) \subseteq files' \cup again'
      BY <3>1, <3>3 DEF AsksWell, Paths
    <3> QED
      BY <3>1, <3>2, <3>3 DEF AsksWell, Backed
  <2> QED
    BY <2>1, <2>2
<1>3. OneUpload'
  <2>1. ASSUME NEW m \in Range(wire'), m \notin Range(wire),
               m.type \in UploadTypes
        PROVE  m.id = nextRequestId /\ m.about \notin finished
    <3>1. /\ AsksWell(n, r) /\ m.type = r.type /\ m.about = r.about
          /\ n = 1 => m.id = nextRequestId
      BY <2>1, WireGrows
    <3> QED
      BY <2>1, <3>1 DEF AsksWell
  <2>2. \A m \in Range(wire) : m.type \in UploadTypes => m.about \in finished
    BY DEF FInv, Backed
  <2>3. ASSUME NEW m \in Range(wire'), NEW o \in Range(wire'),
               m.type \in UploadTypes, o.type \in UploadTypes,
               m.about = o.about
        PROVE  m.id = o.id
    <3>1. CASE m \in Range(wire) /\ o \in Range(wire)
      BY <2>3, <3>1 DEF FInv, OneUpload
    <3>2. CASE m \notin Range(wire) /\ o \notin Range(wire)
      BY <2>1, <2>3, <3>2
    <3>3. CASE (m \in Range(wire)) # (o \in Range(wire))
      BY <2>1, <2>2, <2>3, <3>3
    <3> QED
      BY <3>1, <3>2, <3>3
  <2> QED
    BY <2>3 DEF OneUpload
<1>4. OneInsert'
  <2>1. ASSUME NEW m \in Range(wire'), m \notin Range(wire),
               m.type = "INSERT_IMAGE"
        PROVE  /\ m.id = nextRequestId
               /\ m.about.path \in again' \/ m.about.path \notin named
    <3>1. /\ AsksWell(n, r) /\ m.type = r.type /\ m.about = r.about
          /\ n = 1 => m.id = nextRequestId
      BY <2>1, WireGrows
    <3> QED
      BY <2>1, <3>1 DEF AsksWell
  <2>2. \A m \in Range(wire) : m.type = "INSERT_IMAGE" => m.about.path \in named
    BY DEF FInv, Backed
  <2>3. ASSUME NEW m \in Range(wire'), NEW o \in Range(wire'),
               m.type = "INSERT_IMAGE", o.type = "INSERT_IMAGE",
               m.about.path = o.about.path
        PROVE  m.id = o.id \/ m.about.path \in again'
    <3>1. CASE m \in Range(wire) /\ o \in Range(wire)
      <4>1. again \subseteq again'
        BY DEF FMove
      <4> QED
        BY <2>3, <3>1, <4>1 DEF FInv, OneInsert
    <3>2. CASE m \notin Range(wire) /\ o \notin Range(wire)
      BY <2>1, <2>3, <3>2
    <3>3. CASE m \in Range(wire) /\ o \notin Range(wire)
      BY <2>1, <2>2, <2>3, <3>3
    <3>4. CASE m \notin Range(wire) /\ o \in Range(wire)
      BY <2>1, <2>2, <2>3, <3>4
    <3> QED
      BY <3>1, <3>2, <3>3, <3>4
  <2> QED
    BY <2>3 DEF OneInsert
<1> QED
  BY <1>1, <1>2, <1>3, <1>4

\* What a page waits to see deleted.
LEMMA DeletingKept ==
  ASSUME IInv, FInv, NEW n, NEW r, FMove(n, r), NEW s \in Scopes,
         KeepsDelete(s, n, r)
  PROVE  Deleting(s)'
<1>1. images' = images
  BY DEF FMove
<1>2. Range(inbound') \subseteq Range(inbound)
  <2>1. CASE inbound' = <<>>
    BY <2>1 DEF Range
  <2>2. CASE inbound # <<>> /\ inbound' = Tail(inbound)
    BY <2>2, TailRange DEF IInv, Shapes, Wires
  <2> QED
    BY <2>1, <2>2 DEF FMove
<1>3. /\ nextRequestId \in Nat
      /\ page[s].wait["delete"] \in Nat
      /\ page[s].wait["delete"] < nextRequestId
      /\ \A m \in Range(inbound) : m.id \in Nat /\ m.id < nextRequestId
  <2>1. /\ <<"delete", s>> \in Slots
        /\ Number(<<"delete", s>>) = page[s].wait["delete"]
    BY SlotForms DEF Kinds
  <2> QED
    BY <2>1 DEF IInv, Numbered, Messages
<1>4. CASE /\ page'[s].wait["delete"] = page[s].wait["delete"]
           /\ page'[s].pendingDelete = page[s].pendingDelete
  <2>1. ASSUME NEW m \in Range(wire'), m.id = page[s].wait["delete"]
        PROVE  m \in Range(wire)
    <3>1. m \in Range(wire) \/ m.id >= nextRequestId
      BY WireGrows
    <3> QED
      BY <1>3, <2>1, <3>1
  <2> QED
    BY <1>1, <1>2, <1>4, <2>1 DEF Deleting, FInv, FMove
<1>5. CASE page'[s].wait["delete"] = 0
  BY <1>5 DEF Deleting
<1>6. CASE /\ page'[s].wait["delete"] = LastId(1)
           /\ n = 1 /\ r = DeleteRequest(page'[s].pendingDelete)
           /\ Send([i \in 1..n |-> r])
  <2>1. LastId(1) = nextRequestId
    BY <1>3 DEF LastId
  <2>2. ASSUME NEW m \in Range(wire'), m.id = nextRequestId
        PROVE  m.about.ids = Ids(page'[s].pendingDelete)
    <3>1. m.about = r.about
      BY <1>3, <2>2, WireGrows
    <3> QED
      BY <1>6, <3>1 DEF DeleteRequest
  <2>3. \A m \in Range(inbound') : m.id # nextRequestId
    BY <1>2, <1>3
  <2> QED
    BY <1>6, <2>1, <2>2, <2>3 DEF Deleting
<1> QED
  BY <1>4, <1>5, <1>6 DEF KeepsDelete

\* Where an image can be known from.
LEMMA KnownFrom ==
  /\ \A s \in Scopes :
       page[s].detail \subseteq Known /\ page[s].pendingDelete \subseteq Known
  /\ modal.images \subseteq Known
  /\ \A m \in Range(inbound) : m.type = "IMAGE_LIST" =>
       Range(m.rows) \subseteq Known
  /\ KnownSomewhere
<1> DEFINE P == UNION {page[s].detail \cup page[s].pendingDelete : s \in Scopes}
           I == {o \in Range(inbound) : o.type = "IMAGE_LIST"}
           L == UNION {Range(m.rows) : m \in I}
<1>1. \A s \in Scopes :
        page[s].detail \subseteq P /\ page[s].pendingDelete \subseteq P
  OBVIOUS
<1>2. \A m \in I : Range(m.rows) \subseteq L
  <2> HIDE DEF I
  <2> QED
    OBVIOUS
<1>3. \A a \in P : \E s \in Scopes :
        a \in page[s].detail \/ a \in page[s].pendingDelete
  OBVIOUS
<1>4. \A a \in L : \E m \in I : a \in Range(m.rows)
  <2> HIDE DEF I
  <2> QED
    OBVIOUS
<1>5. Known = P \cup modal.images \cup L
  BY DEF Known
<1> HIDE DEF P, L
<1> QED
  BY <1>1, <1>2, <1>3, <1>4, <1>5 DEF KnownSomewhere

\* A step of the client that adds to the files, or takes none away that a row
\* or a request needs.
LEMMA ClientKeepsFiles ==
  ASSUME IInv, FInv, NEW n, NEW r, FMove(n, r),
         \A m \in Range(wire) : Backed(m) => Backed(m)',
         FilesFollowRows', modal'.images \subseteq Known,
         \A s \in Scopes : Learns(s) /\ KeepsDelete(s, n, r)
  PROVE  FInv'
<1>1. videos' = videos /\ images' = images
  BY DEF FMove
<1>2. /\ \A path : Ahead(path)' => Ahead(path) \/ path \in again'
      /\ named \subseteq named' /\ again \subseteq again'
  BY AheadStays DEF FMove
<1>3. \A a : Past(a) => Past(a)'
  BY <1>1, <1>2, PastStays
<1>4. Range(inbound') \subseteq Range(inbound)
  <2>1. CASE inbound' = <<>>
    BY <2>1 DEF Range
  <2>2. CASE inbound # <<>> /\ inbound' = Tail(inbound)
    BY <2>2, TailRange DEF IInv, Shapes, Wires
  <2> QED
    BY <2>1, <2>2 DEF FMove
<1>5. ASSUME NEW a \in Known' PROVE a \in Known
  <2>1. KnownSomewhere'
    BY KnownFrom, PTL
  <2> QED
    BY <1>4, <1>5, <2>1, KnownFrom DEF Learns, KnownSomewhere
<1>6. /\ Orderly' /\ OneUpload' /\ OneInsert'
      /\ \A m \in Range(wire') : Backed(m)'
  BY AsksStayBacked
<1>7. \A s \in Scopes : Deleting(s)'
  BY DeletingKept
<1>8. /\ \A v \in videos' : v.path[1] = "avi"
      /\ \A a \in images' : Past(a)'
      /\ \A a \in Known' : Past(a)'
      /\ Paths(AllImages) \subseteq named'
  BY <1>1, <1>2, <1>3, <1>5 DEF FInv
<1> QED
  BY <1>6, <1>7, <1>8 DEF FInv
-----------------------------------------------------------------------------
(***************************************************************************)
(* The steps of the server, and the files.                                 *)
(***************************************************************************)
\* A row that comes into the table was to come, once, and has its file, unless
\* a snapshot was saved under its name.
Comes(b) ==
  /\ b.path[1] # "avi"
  /\ \/ b.path \in again
     \/ /\ b.path \in files
        /\ Ahead(b.path) /\ ~Ahead(b.path)'
        /\ \A c \in images' \ images : c.path = b.path => c.id = b.id

\* What the handlers do to the tables, and say of them.
Serves(ok, rows) ==
  /\ \A v \in videos' : v \in videos \/ (v.path[1] = "avi" /\ v.path \in files)
  /\ \A b \in images' : b \in images \/ Comes(b)
  /\ Request.type = "IMAGE_LIST" => Range(rows) \subseteq images
  /\ Request.type = "DELETE" /\ ok = TRUE =>
       \A b \in images' : b.id \notin Request.about.ids

\* Any answer that adds no image to those known but stored ones.
LEMMA ReplyKeepsFiles ==
  ASSUME IInv, FInv, wire # <<>>,
         NEW id, NEW ok, NEW rows, NEW total, Reply(id, ok, rows, total),
         Request.type = "DELETE" => id = Request.id,
         Serves(ok, rows)
  PROVE  FInv'
<1> DEFINE answer == [id |-> id, type |-> Request.type, ok |-> ok,
                      rows |-> rows, total |-> total,
                      about |-> Request.about]
<1>1. /\ page' = page /\ modal' = modal
      /\ files' = files /\ named' = named /\ again' = again
      /\ finished' = finished /\ nextRequestId' = nextRequestId
      /\ wire' = Tail(wire)
      /\ inbound' = IF link # "up" THEN inbound ELSE Append(inbound, answer)
  BY DEF Reply, review, disk, windows
<1>2. /\ answer.id = id /\ answer.type = Request.type /\ answer.ok = ok
      /\ answer.rows = rows
  OBVIOUS
<1> HIDE DEF answer
<1>3. Wires /\ Request \in Range(wire) /\ Range(wire') \subseteq Range(wire)
  BY <1>1, TailRange DEF IInv, Shapes, Wires, Request
<1>4. \A m \in Range(inbound') : m \in Range(inbound) \/ m = answer
  BY <1>1, <1>3, AppendRange DEF Wires
<1>5. \A path : Ahead(path)' => Ahead(path)
  BY <1>1, <1>3 DEF Ahead, UploadOnWire
<1>6. \A a : Past(a) => Past(a)'
  BY <1>1, <1>5, PastStays DEF Serves, Comes
<1>7. ASSUME NEW b \in images' PROVE Past(b)'
  <2>1. CASE b \in images
    BY <1>6, <2>1 DEF FInv
  <2>2. CASE b \notin images
    <3>1. Comes(b)
      BY <2>2 DEF Serves
    <3>2. ASSUME b.path \notin again, NEW c \in images', c.path = b.path
          PROVE  c.id = b.id
      <4>1. c \notin images
        BY <3>1, <3>2 DEF FInv, Past, Comes
      <4> QED
        BY <3>1, <3>2, <4>1 DEF Comes
    <3> QED
      BY <1>1, <3>1, <3>2 DEF Comes, Past
  <2> QED
    BY <2>1, <2>2
<1>8. ASSUME NEW a \in Known' PROVE Past(a)
  <2>1. KnownSomewhere'
    BY KnownFrom, PTL
  <2>2. a \in Known \/ (answer.type = "IMAGE_LIST" /\ a \in Range(answer.rows))
    BY <1>1, <1>4, <1>8, <2>1, KnownFrom DEF KnownSomewhere
  <2>3. a \in Known \/ a \in images
    BY <1>2, <2>2 DEF Serves
  <2> QED
    BY <2>3 DEF FInv
<1>9. Orderly' /\ OneUpload' /\ OneInsert' /\ \A m \in Range(wire') : Backed(m)'
  <2>1. Orderly'
    BY <1>1, <1>3, FirstGoes DEF FInv, Orderly, Increasing
  <2>2. OneUpload' /\ OneInsert'
    BY <1>1, <1>3 DEF FInv, OneUpload, OneInsert
  <2>3. \A m \in Range(wire') : Backed(m)'
    BY <1>1, <1>3 DEF FInv, Backed
  <2> QED
    BY <2>1, <2>2, <2>3
<1>10. /\ FilesFollowRows' /\ Paths(AllImages) \subseteq named'
       /\ \A v \in videos' : v.path[1] = "avi"
  BY <1>1 DEF Serves, Comes, FInv, FilesFollowRows, Paths
<1>11. ASSUME NEW s \in Scopes PROVE Deleting(s)'
  <2> DEFINE p == page[s].pendingDelete
             w == page[s].wait["delete"]
  <2>1. page'[s].pendingDelete = p /\ page'[s].wait["delete"] = w
    BY <1>1
  <2>2. \A a \in p : Past(a)
    BY KnownFrom DEF FInv
  <2>3. ASSUME w # 0
        PROVE  \A m \in Range(wire) : m.type = "DELETE" /\ m.id = w =>
                 m.about.ids = Ids(p)
    BY <2>3 DEF FInv, Deleting
  <2>4. ASSUME w # 0, NEW m \in Range(inbound), m.type = "DELETE",
               m.ok = TRUE, m.id = w
        PROVE  Paths(p) \cap Paths(images) \subseteq again
    BY <2>4 DEF FInv, Deleting
  <2> HIDE DEF p, w
  <2>5. ASSUME w # 0, NEW m \in Range(inbound'), m.type = "DELETE",
               m.ok = TRUE, m.id = w, NEW a \in p, NEW b \in images',
               a.path = b.path, a.path \notin again
        PROVE  FALSE
    <3>1. CASE m \in Range(inbound)
      <4>1. b \notin images
        BY <2>4, <2>5, <3>1 DEF Paths
      <4>2. Ahead(b.path)
        BY <2>5, <4>1 DEF Serves, Comes
      <4> QED
        BY <2>2, <2>5, <4>2 DEF Past
    <3>2. CASE m = answer
      <4>1. /\ Request.type = "DELETE" /\ ok = TRUE /\ Request.id = w
        BY <1>2, <2>5, <3>2
      <4>2. Request.about.ids = Ids(p)
        BY <1>3, <2>3, <2>5, <4>1
      <4>3. b.id \notin Ids(p)
        BY <4>1, <4>2 DEF Serves
      <4>4. b.id = a.id
        BY <1>1, <1>6, <2>2, <2>5 DEF Past
      <4> QED
        BY <4>3, <4>4 DEF Ids
    <3> QED
      BY <1>4, <2>5, <3>1, <3>2
  <2>6. ASSUME w # 0, NEW m \in Range(inbound'), m.type = "DELETE",
               m.ok = TRUE, m.id = w
        PROVE  Paths(p) \cap Paths(images') \subseteq again'
    BY <1>1, <2>5, <2>6 DEF Paths
  <2> QED
    BY <1>3, <2>1, <2>3, <2>6 DEF Deleting
<1> QED
  BY <1>6, <1>7, <1>8, <1>9, <1>10, <1>11 DEF FInv

\* The first request is served once.
LEMMA ServedOnce ==
  ASSUME IInv, FInv, wire # <<>>, wire' = Tail(wire)
  PROVE  /\ Request \in Range(wire) /\ Backed(Request)
         /\ Request.id \in Nat /\ Request.id < nextRequestId
         /\ \A m \in Range(wire') :
              m \in Range(wire) /\ Backed(m) /\ m.id # Request.id
<1>1. Wires /\ Orderly /\ \A m \in Range(wire) : Backed(m)
  BY DEF IInv, Shapes, FInv
<1>2. Request \in Range(wire) /\ Range(wire') \subseteq Range(wire)
  BY <1>1, TailRange DEF Wires, Request
<1>3. \A m \in Range(wire') : Request.id < m.id
  BY <1>1, FirstGoes DEF Request
<1>4. nextRequestId \in Nat
      /\ \A m \in Range(wire) : m.id \in Nat /\ m.id < nextRequestId
  BY DEF IInv, Numbered, Messages
<1> QED
  BY <1>1, <1>2, <1>3, <1>4

\* A recording stored: its images have their files.
LEMMA UploadKeepsFiles == ASSUME IInv, FInv, HandleUpload PROVE FInv'
<1> DEFINE before == <<videos, images>>
           after == <<videos \cup {Request.about.video},
                      images \cup Request.about.images>>
           same == [ok |-> FALSE, table |-> before]
<1>0. PICK u : u = Request.about
  OBVIOUS
<1>1. PICK e \in Served(Edits(before, after), same) :
        /\ videos' = e.table[1] /\ images' = e.table[2]
        /\ Reply(Request.id, e.ok, <<>>, 0)
  BY DEF HandleUpload
<1>2. e.table = before \/ e.table = after
  BY <1>1, EditLeaves
<1>3. \/ videos' = videos /\ images' = images
      \/ videos' = videos \cup {u.video} /\ images' = images \cup u.images
  BY <1>0, <1>1, <1>2
<1> HIDE DEF before, after
<1>4. wire # <<>> /\ Request.type \in UploadTypes
  BY DEF HandleUpload, Received, UploadTypes
<1>5. wire' = Tail(wire) /\ finished' = finished /\ named' = named
  BY <1>1 DEF Reply, windows, review, disk
<1>6. /\ Request \in Range(wire) /\ u \in Uploads /\ u \in finished
      /\ u.video.path \in files /\ Paths(u.images) \subseteq files \cup again
  BY <1>0, <1>4, <1>5, ServedOnce DEF Backed
<1>7. u.video.path[1] = "avi"
  BY <1>6, TablesAssumption
<1>8. ~UploadOnWire(u)'
  <2>1. ASSUME NEW m \in Range(wire'), m.type \in UploadTypes, m.about = u
        PROVE  FALSE
    <3>1. m \in Range(wire) /\ m.id # Request.id
      BY <1>4, <1>5, ServedOnce
    <3> QED
      BY <1>0, <1>4, <1>6, <2>1, <3>1 DEF FInv, OneUpload
  <2> QED
    BY <2>1 DEF UploadOnWire
<1>9. ASSUME NEW b \in u.images
      PROVE  /\ b.path[1] # "avi"
             /\ \/ b.path \in again
                \/ /\ b.path \in files
                   /\ Ahead(b.path) /\ ~Ahead(b.path)'
                   /\ \A c \in u.images : c.path = b.path => c.id = b.id
  <2>1. b.path \in files \cup again /\ b.path \in Paths(u.images)
    BY <1>6, <1>9 DEF Paths
  <2>2. b \in AllImages /\ \A w \in Uploads : w.images \subseteq AllImages
    BY <1>6, <1>9 DEF AllImages
  <2>3. /\ b.path[1] # "avi"
        /\ b.path \in Paths(AllImages) /\ b.path \in named
    BY <2>2, TablesAssumption DEF FInv, Paths
  <2>4. \A c \in AllImages : c.path = b.path => c = b
    BY <2>2, TablesAssumption
  <2>5. Ahead(b.path)
    BY <1>0, <1>4, <1>6, <2>1 DEF Ahead, UploadOnWire
  <2>7. ASSUME b.path \notin again,
               NEW m \in Range(wire'), m.type = "INSERT_IMAGE"
        PROVE  m.about.path # b.path
    BY <1>4, <1>5, <2>3, <2>7, ServedOnce DEF Backed
  <2>8. ASSUME NEW w \in Uploads, b.path \in Paths(w.images) PROVE w = u
    <3>1. b \in w.images
      BY <2>2, <2>4, <2>8 DEF Paths
    <3> QED
      BY <1>6, <1>9, <2>8, <3>1, TablesAssumption
  <2>9. b.path \notin again => ~Ahead(b.path)'
    BY <1>5, <1>6, <1>8, <2>3, <2>7, <2>8 DEF Ahead
  <2> QED
    BY <1>6, <2>1, <2>2, <2>3, <2>4, <2>5, <2>9
<1>10. \A b \in images' : b \in images \/ Comes(b)
  BY <1>3, <1>9 DEF Comes
<1>11. Serves(e.ok, <<>>)
  BY <1>3, <1>4, <1>6, <1>7, <1>10 DEF Serves, UploadTypes
<1>12. Request.type # "DELETE"
  BY <1>4 DEF UploadTypes
<1> QED
  BY <1>1, <1>4, <1>11, <1>12, ReplyKeepsFiles

\* A snapshot stored, unless refused.
LEMMA InsertKeepsFiles == ASSUME IInv, FInv, HandleInsertImage PROVE FInv'
<1> DEFINE row == SnapshotRow(Request.about)
           same == [ok |-> FALSE, table |-> images]
<1>1. PICK e \in Served(InsertImage(images, row), same) :
        images' = e.table /\ Reply(Request.id, e.ok, <<>>, 0)
  BY DEF HandleInsertImage
<1>2. e = same \/ e \in Edits(images, images \cup {row})
  BY <1>1 DEF Served, InsertImage
<1>3. images' = images \/ images' = images \cup {row}
  BY <1>1, <1>2, EditLeaves
<1>4. /\ wire # <<>> /\ Request.type = "INSERT_IMAGE" /\ videos' = videos
      /\ row.path = Request.about.path
  BY DEF HandleInsertImage, Received, SnapshotRow
<1>5. wire' = Tail(wire) /\ finished' = finished /\ named' = named
  BY <1>1 DEF Reply, windows, review, disk
<1> HIDE DEF row, same
<1>6. PICK path : path = row.path
  OBVIOUS
<1>7. /\ path \in named /\ path[1] # "avi" /\ Request \in Range(wire)
      /\ path \in again \/ path \in files \ Paths(AllImages)
  BY <1>4, <1>5, <1>6, ServedOnce DEF Backed
<1>8. Ahead(path)
  BY <1>4, <1>6, <1>7 DEF Ahead
<1>9. ASSUME path \notin again,
             NEW m \in Range(wire'), m.type = "INSERT_IMAGE"
      PROVE  m.about.path # path
  <2>1. m \in Range(wire) /\ m.id # Request.id
    BY <1>4, <1>5, <1>9, ServedOnce
  <2> QED
    BY <1>4, <1>6, <1>7, <1>9, <2>1 DEF FInv, OneInsert
<1>10. ASSUME path \notin again, NEW w \in Uploads
       PROVE  path \notin Paths(w.images)
  BY <1>7, <1>10 DEF Paths, AllImages
<1>11. path \notin again => ~Ahead(path)'
  BY <1>5, <1>7, <1>9, <1>10 DEF Ahead
<1>13. images' \ images \subseteq {row}
  BY <1>3
<1>14. \A b \in images' : b \in images \/ Comes(b)
  BY <1>6, <1>7, <1>8, <1>11, <1>13 DEF Comes
<1>15. Serves(e.ok, <<>>) /\ Request.type # "DELETE"
  BY <1>4, <1>14 DEF Serves
<1> QED
  BY <1>1, <1>4, <1>15, ReplyKeepsFiles

\* Images deleted from the table.
LEMMA DeleteKeepsFiles == ASSUME IInv, FInv, HandleDeleteImages PROVE FInv'
<1> DEFINE ids == Request.about.ids
           rest == {row \in images : row.id \notin ids}
           same == [ok |-> FALSE, table |-> images]
<1>1. PICK e \in Served(DeleteImages(images, ids), same) :
        images' = e.table /\ Reply(Request.id, e.ok, <<>>, 0)
  BY DEF HandleDeleteImages
<1>2. /\ wire # <<>> /\ Request.type = "DELETE" /\ videos' = videos
  BY DEF HandleDeleteImages, Received
<1>3. \/ e = [ok |-> TRUE, table |-> rest]
      \/ e = [ok |-> FALSE, table |-> images]
      \/ e = [ok |-> FALSE, table |-> rest]
  BY <1>1 DEF Served, DeleteImages, Edits
<1>4. images' \subseteq images /\ (e.ok = TRUE => images' = rest)
  BY <1>1, <1>3
<1>5. Serves(e.ok, <<>>)
  BY <1>2, <1>4 DEF Serves
<1> QED
  BY <1>1, <1>2, <1>5, ReplyKeepsFiles

\* The rows of an answer are of the table.
LEMMA FoundImages ==
  ASSUME Tables, NEW r, RequestOK(r), r.type = "IMAGE_LIST",
         NEW a \in Served(Found(r), Refused)
  PROVE  Range(a.rows) \subseteq images
<1> DEFINE S == Filtered(images, r.about)
<1>1. a \in PageAnswers(S, r.about.page, PageSize) \/ a = Refused
  BY DEF Served, Found, QueryImageList
<1>2. S \subseteq images /\ IsFiniteSet(S)
  BY FS_Subset DEF Filtered, Tables
<1>3. r.about.page \in Nat \ {0}
  BY DEF RequestOK
<1> HIDE DEF S
<1>4. CASE a = Refused
  BY <1>4 DEF Refused, Range
<1>5. CASE a \in PageAnswers(S, r.about.page, PageSize)
  <2>1. \A i \in DOMAIN a.rows : a.rows[i] \in S
    BY <1>2, <1>3, <1>5, PageRows
  <2> QED
    BY <1>2, <2>1 DEF Range
<1> QED
  BY <1>1, <1>4, <1>5

\* Whatever the server does with the request it takes.
LEMMA ServerKeepsFiles == ASSUME IInv, RInv, FInv, Server PROVE FInv'
<1>1. wire # <<>>
  BY DEF Server, HandleLogin, HandleQuery, HandleQueryLogList, HandleUpload,
         HandleInsertImage, HandleDeleteImages, Received
<1>2. ASSUME UNCHANGED server, NEW ok, NEW rows,
             Request.type = "IMAGE_LIST" => Range(rows) \subseteq images,
             Request.type # "DELETE"
      PROVE  Serves(ok, rows)
  BY <1>2 DEF Serves, server
<1>3. CASE HandleLogin
  <2>1. PICK ok : Reply(Request.id, ok, <<>>, 0)
    BY <1>3 DEF HandleLogin
  <2>2. Serves(ok, <<>>) /\ Request.type # "DELETE"
    BY <1>2, <1>3 DEF HandleLogin, Received
  <2> QED
    BY <1>1, <2>1, <2>2, ReplyKeepsFiles
<1>4. CASE HandleQueryLogList
  <2>1. PICK answer : Reply(answer[1], answer[2], <<>>, 0)
    BY <1>4, Zenon DEF HandleQueryLogList
  <2>2. Serves(answer[2], <<>>) /\ Request.type # "DELETE"
    BY <1>2, <1>4 DEF HandleQueryLogList, Received
  <2> QED
    BY <1>1, <2>1, <2>2, ReplyKeepsFiles
<1>5. CASE HandleQuery
  <2>1. PICK a \in Served(Found(Request), Refused) :
          Reply(Request.id, a.ok, a.rows, a.total)
    BY <1>5 DEF HandleQuery
  <2>2. RequestOK(Request)
    BY <1>1, TailRange DEF IInv, Shapes, Wires, Request, RInv
  <2>3. Request.type = "IMAGE_LIST" => Range(a.rows) \subseteq images
    BY <2>1, <2>2, FoundImages DEF RInv
  <2>4. Serves(a.ok, a.rows) /\ Request.type # "DELETE"
    BY <1>2, <1>5, <2>3 DEF HandleQuery, Received
  <2> QED
    BY <1>1, <2>1, <2>4, ReplyKeepsFiles
<1> QED
  BY <1>3, <1>4, <1>5, UploadKeepsFiles, InsertKeepsFiles, DeleteKeepsFiles
     DEF Server
-----------------------------------------------------------------------------
(***************************************************************************)
(* What the steps of the client leave of the images a page knows.          *)
(***************************************************************************)
SameImages(q, p) ==
  /\ q.detail = p.detail \/ q.detail = {}
  /\ q.pendingDelete = p.pendingDelete

\* No new image, and no other deletion.
Tame(q, p) == SameImages(q, p) /\ q.wait["delete"] = p.wait["delete"]

\* The changes of a page that leave its images, or forget them.
LEMMA SameImagesPage ==
  ASSUME NEW p, IsPage(p), NEW e, NEW f, NEW k
  PROVE  /\ SameImages(ResetPreview(p), p)
         /\ SameImages([p EXCEPT !.date = e], p)
         /\ SameImages([p EXCEPT !.channel = e], p)
         /\ SameImages([p EXCEPT !.mode = e], p)
         /\ SameImages([p EXCEPT !.loaded = e], p)
         /\ SameImages([p EXCEPT !.frame = e, !.late = f], p)
         /\ SameImages([p EXCEPT !.path = e, !.channelid = f,
                                 !.late = p.loaded, !.loaded = NoPath,
                                 !.frame = NoPath], p)
         /\ SameImages([p EXCEPT !.wait[k] = e], p)
         /\ SameImages([p EXCEPT !.pendingTime = f, !.wait[k] = e], p)
         /\ SameImages(Loading(p, e, f), p)
<1>1. \A g \in PageFields : g \in DOMAIN p
  BY Fields
<1> QED
  BY <1>1, Zenon DEF SameImages, ResetPreview, Loading, PageFields

\* One change after another.
LEMMA SameImagesAgain ==
  ASSUME NEW p, NEW q, NEW r, SameImages(r, q), SameImages(q, p)
  PROVE  SameImages(r, p)
BY DEF SameImages

\* Going to a related video adds no image.
LEMMA SameImagesRelated ==
  ASSUME NEW p, IsPage(p), NEW video
  PROVE  SameImages(ShowingRelated(p, video), p)
<1> DEFINE r == ResetPreview(p)
           q == [r EXCEPT
                  !.wait["related"] = 0, !.mode = "video",
                  !.date = Day(p.pendingTime), !.channel = video.channel,
                  !.path = video.path, !.channelid = video.channel]
           o == OpenedAt(q, video)
<1>1. IsPage(r) /\ SameImages(r, p)
  BY ResetPage, SameImagesPage
<1> HIDE DEF r
<1>2. \A f \in PageFields : f \in DOMAIN r
  BY <1>1, Fields
<1>3. DOMAIN q = DOMAIN r /\ SameImages(q, r)
  BY <1>2, Zenon DEF PageFields, SameImages
<1>4. o = ShowingRelated(p, video)
  BY Zenon DEF ShowingRelated, r
<1> HIDE DEF q
<1>5. \A f \in PageFields : f \in DOMAIN q
  BY <1>2, <1>3
<1>6. SameImages(o, q)
  BY <1>5, Zenon DEF OpenedAt, PageFields, SameImages
<1> HIDE DEF o
<1> QED
  BY <1>1, <1>3, <1>4, <1>6, SameImagesAgain

\* The pages are tame, and the files only become more.
LEMMA TameKeepsFiles ==
  ASSUME IInv, FInv, NEW n, NEW r, FMove(n, r), files \subseteq files',
         modal'.images \subseteq Known,
         \A s \in Scopes : Tame(page'[s], page[s])
  PROVE  FInv'
<1>1. /\ finished \subseteq finished' /\ videos' = videos /\ images' = images
      /\ named \subseteq named' /\ again \subseteq again'
  BY DEF FMove
<1>2. \A m \in Range(wire) : Backed(m) => Backed(m)'
  BY <1>1 DEF Backed
<1>3. FilesFollowRows'
  BY <1>1 DEF FInv, FilesFollowRows
<1>4. \A s \in Scopes : Learns(s) /\ KeepsDelete(s, n, r)
  BY KnownFrom DEF Tame, SameImages, Learns, KeepsDelete
<1> QED
  BY <1>2, <1>3, <1>4, ClientKeepsFiles

\* The network of a step that loads or only hears.
Heeds ==
  /\ UNCHANGED <<videos, images, finished, named, again>>
  /\ \/ inbound' = inbound \/ inbound' = <<>>
     \/ inbound # <<>> /\ inbound' = Tail(inbound)

\* Loading shows no image; p is what the step has made of the page before.
LEMMA LoadMoves ==
  ASSUME IInv, Heeds, NEW s \in Scopes, NEW p, IsPage(p),
         NEW i, NEW n \in Nat \ {0}, Load(s, p, i, n)
  PROVE  /\ \E r : FMove(n, r)
         /\ \A o \in Scopes \ {s} : page'[o] = page[o]
         /\ SameImages(page'[s], p)
         /\ page'[s].wait["delete"] = p.wait["delete"]
<1>1. DOMAIN page = Scopes
  BY DEF IInv, Shapes
<1>2. CASE link = "up"
  <2> DEFINE q == Loading(p, i, LastId(n))
             r == ListRequest(s, p, i)
  <2>1. page' = [page EXCEPT ![s] = q] /\ Send([j \in 1..n |-> r])
    BY <1>2 DEF Load, IsConnected
  <2>2. r.type \notin {"INSERT_IMAGE", "INSERT_VIDEO", "SESSION"}
    BY DEF ListRequest
  <2>3. SameImages(q, p)
    BY SameImagesPage
  <2>4. LoadedFrom(q, p, i, LastId(n))
    BY LoadingPage
  <2> HIDE DEF q, r
  <2>5. "delete" \in Kinds \ {ListKind(p.mode)}
    BY DEF Kinds, ListKind
  <2>6. q.wait["delete"] = p.wait["delete"]
    BY <2>4, <2>5 DEF LoadedFrom
  <2>7. AsksWell(n, r)
    BY <2>2 DEF AsksWell, UploadTypes
  <2>8. FMove(n, r)
    BY <2>1, <2>7 DEF FMove, Heeds
  <2> QED
    BY <1>1, <2>1, <2>3, <2>6, <2>8
<1>3. CASE link # "up"
  <2>1. page' = [page EXCEPT ![s] = p] /\ UNCHANGED <<nextRequestId, wire>>
    BY <1>3 DEF Load, IsConnected
  <2>2. FMove(n, 0)
    BY <2>1 DEF FMove, Heeds
  <2> QED
    BY <1>1, <2>1, <2>2 DEF SameImages
<1> QED
  BY <1>2, <1>3

\* A handler that ends in a load.
LEMMA LoadKeepsFiles ==
  ASSUME IInv, FInv, Heeds, UNCHANGED <<disk, modal>>, NEW s \in Scopes,
         NEW p, IsPage(p), Tame(p, page[s]),
         NEW i, NEW n \in Nat \ {0}, Load(s, p, i, n)
  PROVE  FInv'
<1>1. PICK r : FMove(n, r)
  BY LoadMoves
<1>2. /\ \A o \in Scopes \ {s} : page'[o] = page[o]
      /\ SameImages(page'[s], p)
      /\ page'[s].wait["delete"] = p.wait["delete"]
  BY LoadMoves
<1>3. \A o \in Scopes : Tame(page'[o], page[o])
  BY <1>2, SameImagesAgain DEF Tame, SameImages
<1>4. modal'.images \subseteq Known
  BY KnownFrom
<1> QED
  BY <1>1, <1>3, <1>4, TameKeepsFiles DEF disk

\* A page whose controls were set, or whose player was stopped.
LEMMA TameReset ==
  ASSUME NEW p, NEW q, Reset(q, p), SameImages(q, p)
  PROVE  IsPage(q) /\ Tame(q, p)
BY DEF Reset, Tame

\* The controls of a page.
LEMMA ControlTame ==
  ASSUME NEW p, IsPage(p), NEW e
  PROVE  LET d == [ResetPreview(p) EXCEPT !.date = e]
             c == [ResetPreview(p) EXCEPT !.channel = e]
             m == [p EXCEPT !.mode = e]
         IN /\ IsPage(d) /\ Tame(d, p)
            /\ IsPage(c) /\ Tame(c, p)
            /\ e \in {"video", "image"} => IsPage(m) /\ Tame(m, p)
<1> DEFINE r == ResetPreview(p)
           d == [r EXCEPT !.date = e]
           c == [r EXCEPT !.channel = e]
           m == [p EXCEPT !.mode = e]
<1>1. IsPage(r) /\ SameImages(r, p)
  BY ResetPage, SameImagesPage
<1>2. /\ Reset(d, p) /\ Reset(c, p)
      /\ e \in {"video", "image"} => Reset(m, p)
  BY ControlledPage, Zenon
<1>3. SameImages(d, r) /\ SameImages(c, r)
  BY <1>1, SameImagesPage, Zenon
<1>4. SameImages(m, p)
  BY SameImagesPage, Zenon
<1> HIDE DEF d, c, m, r
<1>5. SameImages(d, p) /\ SameImages(c, p)
  BY <1>1, <1>3, SameImagesAgain
<1>6. /\ IsPage(d) /\ Tame(d, p)
      /\ IsPage(c) /\ Tame(c, p)
      /\ e \in {"video", "image"} => IsPage(m) /\ Tame(m, p)
  BY <1>2, <1>4, <1>5, TameReset
<1> QED
  BY <1>6 DEF d, c, m, r

\* The loads of today that entering a page ends in.
LEMMA TodayKeepsFiles ==
  ASSUME IInv, FInv, Heeds, UNCHANGED <<disk, modal>>, NEW s \in Scopes,
         NEW p, IsPage(p), Tame(p, page[s]), LoadToday(s, p)
  PROVE  FInv'
<1> DEFINE t == [ResetPreview(p) EXCEPT !.date = Today]
           n == IF p.date = Today THEN 1 ELSE 2
<1>1. Load(s, t, 1, n)
  BY DEF LoadToday
<1>2. IsPage(t) /\ Tame(t, p)
  BY ControlTame
<1>3. n \in Nat \ {0}
  OBVIOUS
<1> HIDE DEF t, n
<1>4. Tame(t, page[s])
  BY <1>2, SameImagesAgain DEF Tame
<1> QED
  BY <1>1, <1>2, <1>3, <1>4, LoadKeepsFiles

\* What the page buttons, the choices and the tabs load.
LEMMA LoadClicksKeepFiles ==
  ASSUME IInv, FInv, NEW s \in Scopes,
         \/ /\ UNCHANGED <<windows, server>>
            /\ \/ PrevPage(s) \/ NextPage(s) \/ ChangeDate(s)
               \/ ChangeChannel(s) \/ SwitchRecordMode(s)
         \/ SwitchToReview(s)
  PROVE  FInv'
<1>1. Heeds /\ UNCHANGED <<disk, modal>>
  BY DEF Heeds, server, windows, PrevPage, NextPage, ChangeDate,
         ChangeChannel, SwitchRecordMode, Click, SwitchToReview, disk
<1>2. IsPage(page[s]) /\ Tame(page[s], page[s]) /\ 1 \in Nat \ {0}
  BY DEF IInv, Shapes, Tame, SameImages
<1>3. CASE PrevPage(s) \/ NextPage(s)
  <2>1. PICK i : Load(s, page[s], i, 1)
    BY <1>3 DEF PrevPage, NextPage
  <2> QED
    BY <1>1, <1>2, <2>1, LoadKeepsFiles
<1>4. CASE ChangeDate(s)
  <2>1. PICK d : Load(s, [ResetPreview(page[s]) EXCEPT !.date = d], 1, 1)
    BY <1>4, Zenon DEF ChangeDate
  <2> DEFINE p == [ResetPreview(page[s]) EXCEPT !.date = d]
  <2>2. IsPage(p) /\ Tame(p, page[s])
    BY <1>2, ControlTame
  <2>3. Load(s, p, 1, 1)
    BY <2>1
  <2> HIDE DEF p
  <2> QED
    BY <1>1, <1>2, <2>2, <2>3, LoadKeepsFiles
<1>5. CASE ChangeChannel(s)
  <2>1. PICK c : Load(s, [ResetPreview(page[s]) EXCEPT !.channel = c], 1, 1)
    BY <1>5, Zenon DEF ChangeChannel
  <2> DEFINE p == [ResetPreview(page[s]) EXCEPT !.channel = c]
  <2>2. IsPage(p) /\ Tame(p, page[s])
    BY <1>2, ControlTame
  <2>3. Load(s, p, 1, 1)
    BY <2>1
  <2> HIDE DEF p
  <2> QED
    BY <1>1, <1>2, <2>2, <2>3, LoadKeepsFiles
<1>6. CASE SwitchRecordMode(s)
  <2>1. PICK mode \in {"video", "image"} :
          LoadToday(s, [page[s] EXCEPT !.mode = mode])
    BY <1>6, Zenon DEF SwitchRecordMode
  <2> DEFINE p == [page[s] EXCEPT !.mode = mode]
  <2>2. IsPage(p) /\ Tame(p, page[s])
    BY <1>2, ControlTame
  <2>3. LoadToday(s, p)
    BY <2>1
  <2> HIDE DEF p
  <2> QED
    BY <1>1, <2>2, <2>3, TodayKeepsFiles
<1>7. CASE SwitchToReview(s)
  BY <1>1, <1>2, <1>7, TodayKeepsFiles DEF SwitchToReview, RefreshData
<1> QED
  BY <1>3, <1>4, <1>5, <1>6, <1>7

\* A step that loads nothing and changes at most one page, tamely.
LEMMA OnePageKeepsFiles ==
  ASSUME IInv, FInv, Heeds, UNCHANGED <<nextRequestId, wire, disk>>,
         modal'.images \subseteq Known, NEW s \in Scopes, NEW q,
         page' = [page EXCEPT ![s] = q], Tame(q, page[s])
  PROVE  FInv'
<1>1. DOMAIN page = Scopes
  BY DEF IInv, Shapes
<1>2. page'[s] = q /\ \A o \in Scopes \ {s} : page'[o] = page[o]
  BY <1>1
<1>3. \A o \in Scopes : Tame(page'[o], page[o])
  BY <1>2 DEF Tame, SameImages
<1>4. FMove(0, 0)
  BY DEF FMove, Heeds
<1> QED
  BY <1>3, <1>4, TameKeepsFiles DEF disk

\* Steps that leave the pages and the requests.
LEMMA NoPageKeepsFiles ==
  ASSUME IInv, FInv, Heeds, UNCHANGED <<nextRequestId, wire, disk, page>>,
         modal'.images \subseteq Known
  PROVE  FInv'
<1>1. FMove(0, 0)
  BY DEF FMove, Heeds
<1>2. \A o \in Scopes : Tame(page'[o], page[o])
  BY DEF Tame, SameImages
<1> QED
  BY <1>1, <1>2, TameKeepsFiles DEF disk

\* The row selected, the file loaded and its frame.
LEMMA PlayerKeepsFiles ==
  ASSUME IInv, FInv, NEW s \in Scopes, UNCHANGED <<windows, server>>,
         SelectItem(s) \/ Play(s) \/ VideoFrame(s)
  PROVE  FInv'
<1> DEFINE p == page[s]
<1>1. /\ Heeds /\ UNCHANGED <<nextRequestId, wire, disk>>
      /\ modal'.images \subseteq Known
  <2>1. UNCHANGED <<nextRequestId, wire, inbound, disk, modal>>
    BY DEF SelectItem, Play, VideoFrame, api
  <2> QED
    BY <2>1, KnownFrom DEF Heeds, server, windows, disk
<1>2. IsPage(p)
  BY DEF IInv, Shapes
<1>3. \A f \in PageFields : f \in DOMAIN p
  BY <1>2, Fields
<1> HIDE DEF p
<1>4. CASE SelectItem(s)
  <2>1. PICK i :
          page' = [page EXCEPT
            ![s] = [p EXCEPT !.path = p.shown.rows[i].path,
                             !.channelid = p.shown.rows[i].channel,
                             !.late = p.loaded, !.loaded = NoPath,
                             !.frame = NoPath]]
    BY <1>4, Zenon DEF SelectItem, p
  <2> DEFINE a == p.shown.rows[i].path
             c == p.shown.rows[i].channel
  <2> HIDE DEF a, c
  <2> DEFINE q == [p EXCEPT !.path = a, !.channelid = c,
                            !.late = p.loaded, !.loaded = NoPath,
                            !.frame = NoPath]
  <2>2. page' = [page EXCEPT ![s] = q]
    BY <2>1 DEF a, c
  <2>3. SameImages(q, p)
    BY <1>2, SameImagesPage
  <2>4. q.wait = p.wait
    BY <1>3, Zenon DEF PageFields
  <2> HIDE DEF q
  <2> QED
    BY <1>1, <2>2, <2>3, <2>4, OnePageKeepsFiles DEF Tame, p
<1>5. CASE Play(s)
  <2> DEFINE q == [p EXCEPT !.loaded = p.path]
  <2>1. page' = [page EXCEPT ![s] = q]
    BY <1>5, Zenon DEF Play, p
  <2>2. SameImages(q, p)
    BY <1>2, SameImagesPage
  <2>3. q.wait = p.wait
    BY <1>3, Zenon DEF PageFields
  <2> HIDE DEF q
  <2> QED
    BY <1>1, <2>1, <2>2, <2>3, OnePageKeepsFiles DEF Tame, p
<1>6. CASE VideoFrame(s)
  <2>0. PICK a, b :
          page' = [page EXCEPT ![s] = [p EXCEPT !.frame = a, !.late = b]]
    BY <1>6, Zenon DEF VideoFrame, p
  <2> DEFINE q == [p EXCEPT !.frame = a, !.late = b]
  <2>1. page' = [page EXCEPT ![s] = q]
    BY <2>0
  <2>2. SameImages(q, p)
    BY <1>2, SameImagesPage, Zenon
  <2>3. q.wait = p.wait
    BY <1>3, Zenon DEF PageFields
  <2> HIDE DEF q
  <2> QED
    BY <1>1, <2>1, <2>2, <2>3, OnePageKeepsFiles DEF Tame, p
<1> QED
  BY <1>4, <1>5, <1>6

\* The dialogs show what their page does; the other windows, the tabs and the
\* connection have nothing to do with images.
LEMMA WindowsKeepFiles ==
  ASSUME IInv, FInv, UNCHANGED server,
         \/ /\ UNCHANGED windows
            /\ \E s \in Scopes : AskDelete(s) \/ OpenPreview(s) \/ AskSave(s)
         \/ UNCHANGED windows /\ CloseDialog
         \/ OpenLogin \/ \E t \in PlainTabs : SwitchTo(t)
         \/ LinkUp \/ LinkLost \/ OnLoginFinished \/ OnLogListFinished
         \/ OnUploadFinished
         \/ UNCHANGED vars
  PROVE  FInv'
<1>1. UNCHANGED <<nextRequestId, wire, disk, page, videos, images, finished>>
  BY DEF server, windows, review, vars, api, AskDelete, OpenPreview, AskSave,
         Open, CloseDialog, OpenLogin, SwitchTo, LinkUp, LinkLost,
         Disconnected, OnLoginFinished, OnLogListFinished, OnUploadFinished
<1>2. \/ inbound' = inbound \/ inbound' = <<>>
      \/ inbound # <<>> /\ inbound' = Tail(inbound)
  BY DEF review, vars, api, AskDelete, OpenPreview, AskSave,
         Open, CloseDialog, OpenLogin, SwitchTo, LinkUp, LinkLost,
         Disconnected, OnLoginFinished, OnLogListFinished, OnUploadFinished,
         Taken, Arrived
<1>3. NoModal.images = {}
  BY DEF NoModal
<1>4. modal'.images \subseteq Known
  <2>1. ASSUME NEW s \in Scopes, AskDelete(s) \/ OpenPreview(s) \/ AskSave(s)
        PROVE  modal'.images \subseteq page[s].detail
    BY <2>1 DEF AskDelete, OpenPreview, AskSave, Open
  <2>2. \/ modal' = modal \/ modal'.images = {}
        \/ \E s \in Scopes : AskDelete(s) \/ OpenPreview(s) \/ AskSave(s)
    BY <1>3 DEF CloseDialog, OpenLogin, SwitchTo, LinkUp, LinkLost, NoModal,
                OnLoginFinished, OnLogListFinished, OnUploadFinished,
                review, vars
  <2> QED
    BY <2>1, <2>2, KnownFrom
<1>5. Heeds
  BY <1>1, <1>2 DEF Heeds, disk
<1> QED
  BY <1>1, <1>4, <1>5, NoPageKeepsFiles

\* A sequence of one request, as Send has it.
LEMMA OneRequest ==
  ASSUME NEW r, Send(<<r>>)
  PROVE  Send([i \in 1..1 |-> r])
<1>1. <<r>> = [i \in 1..1 |-> r]
  OBVIOUS
<1> QED
  BY <1>1

\* The dialog that confirms a deletion.
LEMMA ConfirmKeepsFiles ==
  ASSUME IInv, FInv, DialogOfPage, UNCHANGED <<windows, server>>,
         ConfirmDelete
  PROVE  FInv'
<1> DEFINE s == modal.scope
           q == [page[s] EXCEPT !.pendingDelete = modal.images,
                                !.wait["delete"] = LastId(1)]
           r == DeleteRequest(modal.images)
<1>1. page' = [page EXCEPT ![s] = q] /\ Send(<<r>>)
  BY Zenon DEF ConfirmDelete
<1>2. s \in Scopes /\ DOMAIN page = Scopes /\ IsPage(page[s])
  BY DEF ConfirmDelete, DialogOfPage, IInv, Shapes
<1>3. \A f \in PageFields : f \in DOMAIN page[s]
  BY <1>2, Fields
<1>4. /\ q.detail = page[s].detail /\ q.pendingDelete = modal.images
      /\ q.wait = [page[s].wait EXCEPT !["delete"] = LastId(1)]
  BY <1>3, Zenon DEF PageFields
<1>5. r.type = "DELETE"
  BY DEF DeleteRequest
<1>6. UNCHANGED <<disk, inbound, videos, images, finished>>
      /\ modal'.images = {}
  BY DEF ConfirmDelete, NoModal, windows, server
<1> HIDE DEF q, s
<1>7. q.wait["delete"] = LastId(1)
  BY <1>2, <1>4 DEF IsPage, Kinds
<1>8. page'[s] = q /\ \A o \in Scopes \ {s} : page'[o] = page[o]
  BY <1>1, <1>2
<1>9. Send([i \in 1..1 |-> r])
  BY <1>1, OneRequest
<1>10. FMove(1, r)
  BY <1>5, <1>6, <1>9 DEF FMove, AsksWell, UploadTypes, disk
<1>11. \A o \in Scopes : Learns(o) /\ KeepsDelete(o, 1, r)
  BY <1>4, <1>7, <1>8, <1>9, KnownFrom DEF Learns, KeepsDelete
<1>12. \A m \in Range(wire) : Backed(m) => Backed(m)'
  BY <1>6 DEF Backed, disk
<1>13. FilesFollowRows' /\ modal'.images \subseteq Known
  BY <1>6 DEF FInv, FilesFollowRows, disk
<1> QED
  BY <1>10, <1>11, <1>12, <1>13, ClientKeepsFiles

\* The dialog that asks for the related video.
LEMMA RelatedKeepsFiles ==
  ASSUME IInv, FInv, DialogOfPage, UNCHANGED <<windows, server>>, AskRelated
  PROVE  FInv'
<1> DEFINE s == modal.scope
<1>1. PICK image :
        /\ page' = [page EXCEPT
             ![s] = [page[s] EXCEPT !.pendingTime = image.at,
                                    !.wait["related"] = LastId(1)]]
        /\ Send(<<RelatedRequest(s, image)>>)
  BY Zenon DEF AskRelated
<1>2. s \in Scopes /\ DOMAIN page = Scopes /\ IsPage(page[s])
  BY DEF AskRelated, DialogOfPage, IInv, Shapes
<1>3. \A f \in PageFields : f \in DOMAIN page[s]
  BY <1>2, Fields
<1>4. UNCHANGED <<disk, inbound, videos, images, finished, modal>>
  BY DEF AskRelated, windows, server
<1> HIDE DEF s
<1> DEFINE q == [page[s] EXCEPT !.pendingTime = image.at,
                                !.wait["related"] = LastId(1)]
           r == RelatedRequest(s, image)
<1>5. page' = [page EXCEPT ![s] = q] /\ Send(<<r>>)
  BY <1>1
<1>6. SameImages(q, page[s])
  BY <1>2, SameImagesPage
<1>7. q.wait = [page[s].wait EXCEPT !["related"] = LastId(1)]
  BY <1>3, Zenon DEF PageFields
<1>8. r.type = "RELATED"
  BY DEF RelatedRequest
<1> HIDE DEF q, r
<1>9. q.wait["delete"] = page[s].wait["delete"]
  BY <1>2, <1>7 DEF IsPage, Kinds
<1>10. page'[s] = q /\ \A o \in Scopes \ {s} : page'[o] = page[o]
  BY <1>2, <1>5
<1>11. \A o \in Scopes : Tame(page'[o], page[o])
  BY <1>6, <1>9, <1>10 DEF Tame, SameImages
<1>12. FMove(1, r)
  BY <1>4, <1>5, <1>8, OneRequest DEF FMove, AsksWell, UploadTypes, disk
<1>13. modal'.images \subseteq Known /\ files \subseteq files'
  BY <1>4, KnownFrom DEF disk
<1> QED
  BY <1>11, <1>12, <1>13, TameKeepsFiles

\* The dialog that saves a snapshot: its file comes before its request.
LEMMA SaveKeepsFiles ==
  ASSUME IInv, FInv, DialogOfPage, UNCHANGED <<windows, server>>, SaveFrame
  PROVE  FInv'
<1>0. PICK path \in SaveNames :
        /\ files' = files \cup {path} /\ Named(path)
        /\ InsertFeatureImageRecord(modal.scope, path)
  BY Zenon DEF SaveFrame
<1> DEFINE s == modal.scope
           p == page[s]
           q == [p EXCEPT !.wait["insert"] = LastId(1)]
           r == InsertRequest(p, path)
<1>1. s \in Scopes /\ DOMAIN page = Scopes /\ IsPage(p)
  BY DEF SaveFrame, DialogOfPage, IInv, Shapes
<1>2. /\ UNCHANGED <<inbound, videos, images, finished>>
      /\ modal'.images = {}
  BY DEF SaveFrame, NoModal, windows, server
<1>3. \/ page' = [page EXCEPT ![s] = q] /\ Send(<<r>>)
      \/ UNCHANGED <<page, nextRequestId, wire>>
  BY <1>0, Zenon DEF InsertFeatureImageRecord
<1>4. \A f \in PageFields : f \in DOMAIN p
  BY <1>1, Fields
<1>5. SameImages(q, p)
  BY <1>1, SameImagesPage
<1>6. q.wait = [p.wait EXCEPT !["insert"] = LastId(1)]
  BY <1>4, Zenon DEF PageFields
<1>7. r.type = "INSERT_IMAGE" /\ r.about.path = path /\ path[1] # "avi"
  BY ReviewAssumption DEF InsertRequest
<1> HIDE DEF q, r
<1>8. q.wait["delete"] = p.wait["delete"]
  BY <1>1, <1>6 DEF IsPage, Kinds
<1>9. page'[s] \in {q, page[s]} /\ \A o \in Scopes \ {s} : page'[o] = page[o]
  BY <1>1, <1>3
<1>10. \A o \in Scopes : Tame(page'[o], page[o])
  BY <1>5, <1>8, <1>9 DEF Tame, SameImages
<1>11. AsksWell(1, r)
  BY <1>0, <1>7 DEF AsksWell, UploadTypes, Named
<1>12. FMove(1, r)
  BY <1>0, <1>2, <1>3, <1>11, OneRequest DEF FMove, Named
<1>13. modal'.images \subseteq Known /\ files \subseteq files'
  BY <1>0, <1>2
<1> QED
  BY <1>10, <1>12, <1>13, TameKeepsFiles

\* The requests of the other windows.
LEMMA OthersKeepFiles ==
  ASSUME IInv, FInv, SwitchToLog \/ ClickLog \/ Login \/ RecordingFinished
  PROVE  FInv'
<1>1. UNCHANGED <<page, modal, inbound, videos, images>>
      /\ \A o \in Scopes : Tame(page'[o], page[o])
  BY DEF SwitchToLog, ClickLog, Login, RecordingFinished, review, server, Tame,
         SameImages
<1>2. ASSUME NEW r, FMove(1, r), files \subseteq files' PROVE FInv'
  BY <1>1, <1>2, TameKeepsFiles, KnownFrom
<1>3. ASSUME NEW r, r.type \in {"LOG_LIST", "LOGIN"},
             Send(<<r>>) \/ UNCHANGED <<nextRequestId, wire>>,
             UNCHANGED <<disk, finished>>
      PROVE  FInv'
  <2>1. AsksWell(1, r)
    BY <1>3 DEF AsksWell, UploadTypes
  <2>2. FMove(1, r)
    BY <1>1, <1>3, <2>1, OneRequest DEF FMove, disk
  <2> QED
    BY <1>2, <1>3, <2>2 DEF disk
<1>4. CASE SwitchToLog \/ ClickLog
  <2>1. PICK mode, n : LoadLog(mode, n)
    <3>1. CASE SwitchToLog
      BY <3>1 DEF SwitchToLog
    <3>2. CASE ClickLog
      <4>1. PICK b : LoadLog(b[1], b[2])
        BY <3>2 DEF ClickLog
      <4> QED
        BY <4>1
    <3> QED
      BY <1>4, <3>1, <3>2
  <2> DEFINE r == LogRequest(mode, n)
  <2>2. Send(<<r>>) \/ UNCHANGED <<nextRequestId, wire>>
    BY <2>1 DEF LoadLog
  <2>3. r.type = "LOG_LIST"
    BY DEF LogRequest
  <2>4. UNCHANGED <<disk, finished>>
    BY <1>4 DEF SwitchToLog, ClickLog, review
  <2> HIDE DEF r
  <2> QED
    BY <1>3, <2>2, <2>3, <2>4
<1>5. CASE Login
  <2>1. PICK u : Send(<<LoginRequest(u)>>)
    BY <1>5 DEF Login
  <2> DEFINE r == LoginRequest(u)
  <2>2. Send(<<r>>) /\ r.type = "LOGIN"
    BY <2>1 DEF LoginRequest
  <2>3. UNCHANGED <<disk, finished>>
    BY <1>5 DEF Login, review
  <2> HIDE DEF r
  <2> QED
    BY <1>3, <2>2, <2>3
<1>6. CASE RecordingFinished
  <2>1. PICK u \in Uploads \ finished :
          /\ finished' = finished \cup {u}
          /\ files' = files \cup Paths({u.video} \cup u.images)
          /\ UNCHANGED <<named, again>>
          /\ Upload(u)
    BY <1>6 DEF RecordingFinished
  <2> DEFINE r == UploadRequest(u)
  <2>2. Send(<<r>>) \/ UNCHANGED <<nextRequestId, wire>>
    BY <2>1 DEF Upload
  <2>3. r.about = u /\ r.type \in UploadTypes
    BY DEF UploadRequest, UploadTypes
  <2> HIDE DEF r
  <2>4. AsksWell(1, r)
    BY <2>1, <2>3 DEF AsksWell, UploadTypes
  <2>5. FMove(1, r)
    BY <1>1, <2>1, <2>2, <2>4, OneRequest DEF FMove
  <2> QED
    BY <1>2, <2>1, <2>5
<1> QED
  BY <1>4, <1>5, <1>6
-----------------------------------------------------------------------------
(***************************************************************************)
(* The answers, and the files.                                             *)
(***************************************************************************)
\* A page hears a list: its images are those of the answer.
LEMMA HeardImages ==
  ASSUME NEW p, IsPage(p), NEW mode \in {"video", "image"}
  PROVE  LET q == ListFinished(p, mode) IN
         /\ q.pendingDelete = p.pendingDelete
         /\ q.wait["delete"] = p.wait["delete"]
         /\ \/ q.detail = p.detail \/ q.detail = {}
            \/ mode = "image" /\ q.detail = Range(Answer.rows)
<1> DEFINE kind == ListKind(mode)
           heard == [p EXCEPT !.wait[kind] = 0]
           q == ListFinished(p, mode)
<1>0. kind \in Kinds \ {"delete"}
  BY DEF ListKind, Kinds
<1>1. /\ Waits(heard, p, kind, 0)
      /\ SameImages(heard, p) /\ heard.detail = p.detail
  <2>1. \A f \in PageFields : f \in DOMAIN p
    BY Fields
  <2>2. heard.detail = p.detail
    BY <2>1, Zenon DEF PageFields
  <2> QED
    BY <1>0, <2>2, WaitingPage, SameImagesPage, Zenon
<1> HIDE DEF kind
<1>2. IsPage(heard) /\ heard.wait["delete"] = p.wait["delete"]
  BY <1>0, <1>1 DEF Waits, Kinds
<1>3. CASE p.mode # mode
  <2>1. q = heard
    BY <1>3, Zenon DEF ListFinished, kind
  <2> HIDE DEF heard, q
  <2> QED
    BY <1>1, <1>2, <2>1 DEF q, SameImages
<1>4. CASE p.mode = mode
  <2> DEFINE detail == IF Answer.ok /\ mode = "image"
                       THEN Range(Answer.rows) ELSE {}
  <2>1. q = [heard EXCEPT
               !.loading = FALSE,
               !.shown = IF Answer.ok
                         THEN [query |-> Answer.about, rows |-> Answer.rows]
                         ELSE NoList,
               !.detail = detail,
               !.totalPage = IF Answer.ok THEN PageCount(Answer.total)
                             ELSE p.curPage]
    BY <1>4, Zenon DEF ListFinished, kind
  <2> HIDE DEF heard, q, detail
  <2>2. \A f \in PageFields : f \in DOMAIN heard
    BY <1>2, Fields
  <2>3. /\ q.pendingDelete = heard.pendingDelete /\ q.wait = heard.wait
        /\ q.detail = detail
    BY <2>1, <2>2, Zenon DEF PageFields
  <2>4. detail = {} \/ (mode = "image" /\ detail = Range(Answer.rows))
    BY DEF detail
  <2> QED
    BY <1>1, <1>2, <2>3, <2>4 DEF q, SameImages
<1> QED
  BY <1>3, <1>4

\* Answers after which nothing is asked.
LEMMA HeardKeepsFiles ==
  ASSUME IInv, FInv, UNCHANGED <<server, windows>>,
         UNCHANGED <<nextRequestId, wire, disk, modal>>,
         inbound # <<>>, inbound' = Tail(inbound),
         \A s \in Scopes : Learns(s) /\ KeepsDelete(s, 0, 0)
  PROVE  FInv'
<1>1. UNCHANGED <<videos, images, finished>>
  BY DEF server, windows
<1>2. FMove(0, 0)
  BY <1>1 DEF FMove, disk
<1>3. FilesFollowRows' /\ \A m \in Range(wire) : Backed(m) => Backed(m)'
  BY <1>1 DEF FInv, FilesFollowRows, Backed, disk
<1>4. modal'.images \subseteq Known
  BY KnownFrom
<1> QED
  BY <1>2, <1>3, <1>4, ClientKeepsFiles

\* The answers that are lists.
LEMMA ListsKeepFiles ==
  ASSUME IInv, FInv, UNCHANGED <<server, windows>>,
         OnVideoListFinished \/ OnImageListFinished
  PROVE  FInv'
<1>1. /\ UNCHANGED <<nextRequestId, wire, disk, modal>>
      /\ inbound # <<>> /\ inbound' = Tail(inbound)
  BY DEF OnVideoListFinished, OnImageListFinished, Taken, Arrived
<1>2. PICK mode \in {"video", "image"} :
        /\ mode = "image" => Answer.type = "IMAGE_LIST"
        /\ page' = [s \in Scopes |->
                      IF Takes(page[s], ListKind(mode))
                      THEN ListFinished(page[s], mode) ELSE page[s]]
  <2>1. ListKind("video") = "videos" /\ ListKind("image") = "images"
    BY DEF ListKind
  <2>2. OnImageListFinished => Answer.type = "IMAGE_LIST"
    BY DEF OnImageListFinished, Arrived, Answer
  <2> QED
    BY <2>1, <2>2, Zenon
       DEF OnVideoListFinished, OnImageListFinished, BothPages
<1>3. Answer \in Range(inbound)
  BY <1>1, TailRange DEF IInv, Shapes, Wires, Answer
<1>4. ASSUME NEW s \in Scopes PROVE Learns(s) /\ KeepsDelete(s, 0, 0)
  <2> DEFINE q == ListFinished(page[s], mode)
  <2>1. page'[s] = IF Takes(page[s], ListKind(mode)) THEN q ELSE page[s]
    BY <1>2, Zenon
  <2>2. /\ q.pendingDelete = page[s].pendingDelete
        /\ q.wait["delete"] = page[s].wait["delete"]
        /\ \/ q.detail = page[s].detail \/ q.detail = {}
           \/ mode = "image" /\ q.detail = Range(Answer.rows)
    <3>1. IsPage(page[s])
      BY DEF IInv, Shapes
    <3> QED
      BY <3>1, HeardImages, Zenon
  <2> HIDE DEF q
  <2>3. q.detail \subseteq Known
    BY <1>2, <1>3, <2>2, KnownFrom
  <2> QED
    BY <2>1, <2>2, <2>3, KnownFrom DEF Learns, KeepsDelete
<1> QED
  BY <1>1, <1>4, HeardKeepsFiles

\* The answer to a snapshot.
LEMMA InsertedKeepsFiles ==
  ASSUME IInv, FInv, UNCHANGED <<server, windows>>, OnInsertImageFinished
  PROVE  FInv'
<1>1. /\ UNCHANGED <<nextRequestId, wire, disk, modal>>
      /\ inbound # <<>> /\ inbound' = Tail(inbound)
  BY DEF OnInsertImageFinished, Taken, Arrived
<1>2. page' = [s \in Scopes |->
                 IF Takes(page[s], "insert")
                 THEN [page[s] EXCEPT !.wait["insert"] = 0] ELSE page[s]]
  BY Zenon DEF OnInsertImageFinished, BothPages
<1>3. ASSUME NEW s \in Scopes PROVE Learns(s) /\ KeepsDelete(s, 0, 0)
  <2> DEFINE q == [page[s] EXCEPT !.wait["insert"] = 0]
  <2>1. page'[s] = IF Takes(page[s], "insert") THEN q ELSE page[s]
    BY <1>2, Zenon
  <2>2. IsPage(page[s]) /\ {"insert", "delete"} \subseteq Kinds
    BY DEF IInv, Shapes, Kinds
  <2>3. Waits(q, page[s], "insert", 0) /\ SameImages(q, page[s])
    BY <2>2, WaitingPage, SameImagesPage, Zenon
  <2> HIDE DEF q
  <2>4. q.wait["delete"] = page[s].wait["delete"]
    BY <2>2, <2>3 DEF Waits
  <2> QED
    BY <2>1, <2>3, <2>4, KnownFrom DEF Learns, KeepsDelete, SameImages
<1> QED
  BY <1>1, <1>3, HeardKeepsFiles

\* A related video that is not opened.
LEMMA IgnoredKeepsFiles ==
  ASSUME IInv, FInv, UNCHANGED <<server, windows>>, Taken, inbound # <<>>,
         UNCHANGED modal, NEW kind \in {"related", "delete"}, Ignored(kind)
  PROVE  FInv'
<1>1. /\ UNCHANGED <<nextRequestId, wire, disk, modal>>
      /\ inbound # <<>> /\ inbound' = Tail(inbound)
  BY DEF Ignored, Taken
<1>2. page' = [s \in Scopes |->
                 IF Takes(page[s], kind)
                 THEN [page[s] EXCEPT !.wait[kind] = 0,
                                      !.pendingDelete =
                                        IF kind = "delete" THEN {} ELSE @]
                 ELSE page[s]]
  BY Zenon DEF Ignored, BothPages
<1>3. ASSUME NEW s \in Scopes PROVE Learns(s) /\ KeepsDelete(s, 0, 0)
  <2> DEFINE a == IF kind = "delete" THEN {} ELSE page[s].pendingDelete
             q == [page[s] EXCEPT !.wait[kind] = 0, !.pendingDelete = a]
  <2>1. page'[s] = IF Takes(page[s], kind) THEN q ELSE page[s]
    BY <1>2, Zenon
  <2> HIDE DEF a
  <2>2. IsPage(page[s]) /\ kind \in Kinds /\ "delete" \in Kinds
    BY DEF IInv, Shapes, Kinds
  <2>3. \A f \in PageFields : f \in DOMAIN page[s]
    BY <2>2, Fields
  <2>4. q.detail = page[s].detail /\ q.pendingDelete = a
    BY <2>3, Zenon DEF PageFields
  <2>5. Waits(q, page[s], kind, 0)
    BY <2>2, WaitingPage, Zenon
  <2> HIDE DEF q
  <2>6. IF kind = "delete" THEN q.wait["delete"] = 0
        ELSE q.wait["delete"] = page[s].wait["delete"]
             /\ q.pendingDelete = page[s].pendingDelete
    BY <2>2, <2>4, <2>5 DEF Waits, a
  <2>7. q.pendingDelete \subseteq page[s].pendingDelete
    BY <2>4 DEF a
  <2> QED
    BY <2>1, <2>4, <2>6, <2>7, KnownFrom DEF Learns, KeepsDelete
<1> QED
  BY <1>1, <1>3, HeardKeepsFiles

\* A related video that is opened.
LEMMA ShownKeepsFiles ==
  ASSUME IInv, FInv, UNCHANGED <<server, windows>>, OnRelatedVideoFinished
  PROVE  FInv'
<1>1. Taken /\ inbound # <<>> /\ UNCHANGED modal
  BY DEF OnRelatedVideoFinished, Taken, Arrived
<1>2. UNCHANGED disk => Heeds
  BY <1>1 DEF Heeds, Taken, server, windows, disk
<1>3. CASE Ignored("related")
  BY <1>1, <1>3, IgnoredKeepsFiles
<1>4. CASE \E s \in Scopes :
             /\ Load(s, ShowingRelated(page[s], Head(Answer.rows)), 1, 1)
             /\ UNCHANGED disk
  <2>1. PICK s \in Scopes :
          /\ Load(s, ShowingRelated(page[s], Head(Answer.rows)), 1, 1)
          /\ UNCHANGED disk
    BY <1>4, Zenon
  <2> DEFINE p == ShowingRelated(page[s], Head(Answer.rows))
  <2>2. Load(s, p, 1, 1)
    BY <2>1
  <2>3. IsPage(page[s]) /\ {"related", "delete"} \subseteq Kinds
    BY DEF IInv, Shapes, Kinds
  <2>4. Answered(p, page[s], "related") /\ SameImages(p, page[s])
    BY <2>3, RelatedPage, SameImagesRelated, Zenon
  <2> HIDE DEF p
  <2>5. IsPage(p) /\ Tame(p, page[s])
    BY <2>3, <2>4 DEF Answered, IsPage, Tame
  <2> QED
    BY <1>1, <1>2, <2>1, <2>2, <2>5, LoadKeepsFiles
<1> QED
  BY <1>3, <1>4, Zenon DEF OnRelatedVideoFinished

\* The files of deleted images are nobody else's: no row and no request is
\* about a path of theirs, unless a snapshot was saved under it.
LEMMA DeletedKeepsFiles ==
  ASSUME IInv, FInv, UNCHANGED <<server, windows>>, OnDeleteImagesFinished
  PROVE  FInv'
<1>1. /\ Taken /\ inbound # <<>> /\ UNCHANGED modal
      /\ Answer.type = "DELETE"
  BY DEF OnDeleteImagesFinished, Taken, Arrived, Answer
<1>2. /\ UNCHANGED <<videos, images, finished>>
      /\ UNCHANGED <<named, again>> => Heeds
  BY <1>1 DEF Heeds, Taken, server, windows
<1>3. CASE Ignored("delete")
  BY <1>1, <1>3, IgnoredKeepsFiles
<1>4. ASSUME NEW s \in Scopes, Takes(page[s], "delete"), Answer.ok,
             NEW gone \in SUBSET Paths(page[s].pendingDelete),
             files' = files \ gone, UNCHANGED <<named, again>>,
             Load(s, [page[s] EXCEPT !.wait["delete"] = 0,
                                     !.pendingDelete = {}, !.path = NoPath],
                  page[s].curPage, 1)
      PROVE  FInv'
  <2> DEFINE p == [page[s] EXCEPT !.wait["delete"] = 0,
                                  !.pendingDelete = {}, !.path = NoPath]
  <2>1. Load(s, p, page[s].curPage, 1)
    BY <1>4
  <2>2. IsPage(page[s]) /\ "delete" \in Kinds
    BY DEF IInv, Shapes, Kinds
  <2>3. \A f \in PageFields : f \in DOMAIN page[s]
    BY <2>2, Fields
  <2>4. p.detail = page[s].detail /\ p.pendingDelete = {}
    BY <2>3, Zenon DEF PageFields
  <2>5. Answered(p, page[s], "delete")
    BY <2>2, DeletedPage, Zenon
  <2> HIDE DEF p
  <2>6. IsPage(p) /\ p.wait["delete"] = 0
    BY <2>2, <2>5 DEF Answered, IsPage
  <2>7. PICK r : FMove(1, r)
    BY <1>2, <1>4, <2>1, <2>6, LoadMoves
  <2>8. /\ \A o \in Scopes \ {s} : page'[o] = page[o]
        /\ SameImages(page'[s], p) /\ page'[s].wait["delete"] = 0
    BY <1>2, <1>4, <2>1, <2>6, LoadMoves
  <2>9. \A o \in Scopes : Learns(o) /\ KeepsDelete(o, 1, r)
    BY <2>4, <2>8, KnownFrom DEF Learns, KeepsDelete, SameImages
  <2>10. Answer \in Range(inbound)
    BY <1>1, TailRange DEF IInv, Shapes, Wires, Answer
  <2>11. gone \cap Paths(images) \subseteq again
    BY <1>1, <1>4, <2>10 DEF FInv, Deleting, Takes
  <2>12. \A path \in gone : path[1] # "avi" /\ (path \in again \/ ~Ahead(path))
    BY <1>4, KnownFrom DEF FInv, Past, Paths
  <2>13. FilesFollowRows'
    <3>1. \A v \in videos : v.path \in files /\ v.path \notin gone
      BY <2>12 DEF FInv, FilesFollowRows, Paths
    <3>2. \A b \in images : b.path \in again \/ b.path \in files \ gone
      BY <2>11 DEF FInv, FilesFollowRows, Paths
    <3> QED
      BY <1>2, <1>4, <3>1, <3>2 DEF FilesFollowRows, Paths
  <2>14. ASSUME NEW m \in Range(wire), Backed(m) PROVE Backed(m)'
    <3>1. ASSUME m.type = "INSERT_IMAGE"
          PROVE  \/ m.about.path \in again
                 \/ m.about.path \in files' \ Paths(AllImages)
      <4>1. Ahead(m.about.path)
        BY <3>1 DEF Ahead
      <4> QED
        BY <1>4, <2>12, <2>14, <3>1, <4>1 DEF Backed
    <3>2. ASSUME m.type \in UploadTypes
          PROVE  /\ m.about.video.path \in files'
                 /\ Paths(m.about.images) \subseteq files' \cup again
      <4>1. m.about \in Uploads /\ UploadOnWire(m.about)
        BY <2>14, <3>2 DEF Backed, UploadOnWire
      <4>2. m.about.video.path[1] = "avi"
        BY <4>1, TablesAssumption
      <4>3. \A b \in m.about.images : Ahead(b.path)
        BY <4>1 DEF Ahead, Paths
      <4>4. /\ m.about.video.path \notin gone
            /\ \A b \in m.about.images : b.path \in again \/ b.path \notin gone
        BY <2>12, <4>2, <4>3
      <4>5. /\ m.about.video.path \in files
            /\ Paths(m.about.images) \subseteq files \cup again
        BY <2>14, <3>2 DEF Backed
      <4> QED
        BY <1>4, <4>4, <4>5 DEF Paths
    <3> QED
      BY <1>2, <1>4, <2>14, <3>1, <3>2 DEF Backed
  <2>15. modal'.images \subseteq Known
    BY <1>1, KnownFrom
  <2> QED
    BY <2>7, <2>9, <2>13, <2>14, <2>15, ClientKeepsFiles
<1> QED
  BY <1>3, <1>4, Zenon DEF OnDeleteImagesFinished
-----------------------------------------------------------------------------
(***************************************************************************)
(* The theorem about the files.                                            *)
(***************************************************************************)
\* The invariant holds at the beginning, ...
LEMMA InitFInv == Init => FInv
<1> SUFFICES ASSUME Init PROVE FInv
  OBVIOUS
<1>1. /\ wire = <<>> /\ inbound = <<>> /\ modal.images = {}
      /\ videos = StoredVideos /\ images = StoredImages
      /\ files = Paths(StoredVideos) \cup Paths(StoredImages)
      /\ named = Paths(AllImages)
      /\ \A s \in Scopes : page[s] = FreshPage
  BY DEF Init, ApiInit, NoModal
<1>2. FreshPage.detail = {} /\ FreshPage.pendingDelete = {}
      /\ FreshPage.wait["delete"] = 0
  BY DEF FreshPage, Kinds
<1>3. Range(wire) = {} /\ Range(inbound) = {} /\ Len(wire) = 0
  BY <1>1 DEF Range
<1>4. ASSUME NEW a \in images PROVE Past(a)
  <2>1. a \in AllImages /\ \A u \in Uploads : u.images \subseteq AllImages
    BY <1>1, <1>4 DEF AllImages
  <2>2. a.path[1] # "avi" /\ a.path \in named
    BY <1>1, <2>1, TablesAssumption DEF Paths
  <2>3. \A b \in AllImages : b.path = a.path => b = a
    BY <2>1, TablesAssumption
  <2>5. ASSUME NEW u \in Uploads PROVE a.path \notin Paths(u.images)
    <3>1. a \notin u.images
      BY <1>1, <1>4, <2>5, TablesAssumption
    <3> QED
      BY <2>1, <2>3, <3>1 DEF Paths
  <2>6. ~Ahead(a.path)
    BY <1>3, <2>2, <2>5 DEF Ahead, UploadOnWire
  <2>7. images \subseteq AllImages
    BY <1>1 DEF AllImages
  <2> QED
    BY <2>2, <2>3, <2>6, <2>7 DEF Past
<1>5. Known = {}
  BY <1>1, <1>2, <1>3, KnownFrom DEF KnownSomewhere
<1>6. \A s \in Scopes : Deleting(s)
  BY <1>1, <1>2 DEF Deleting
<1>7. Orderly /\ OneUpload /\ OneInsert /\ \A m \in Range(wire) : Backed(m)
  BY <1>3 DEF Orderly, OneUpload, OneInsert
<1>8. FilesFollowRows
  BY <1>1 DEF FilesFollowRows, Paths
<1>9. \A v \in videos : v.path[1] = "avi"
  BY <1>1, TablesAssumption
<1> QED
  BY <1>1, <1>4, <1>5, <1>6, <1>7, <1>8, <1>9 DEF FInv

\* ... is kept by every step, ...
LEMMA FInvStep ==
  ASSUME IInv, RInv, FInv, DialogOfPage, [Next]_vars
  PROVE  FInv'
<1>1. CASE LinkUp \/ LinkLost \/ OnLoginFinished \/ OnLogListFinished
           \/ OnUploadFinished \/ UNCHANGED vars
           \/ OpenLogin \/ \E t \in PlainTabs : SwitchTo(t)
  <2>1. UNCHANGED server
    BY <1>1 DEF LinkUp, LinkLost, OnLoginFinished, OnLogListFinished,
                OnUploadFinished, OpenLogin, SwitchTo, vars
  <2> QED
    BY <1>1, <2>1, WindowsKeepFiles
<1>2. CASE Server
  BY <1>2, ServerKeepsFiles
<1>3. CASE SwitchToLog \/ ClickLog \/ Login \/ RecordingFinished
  BY <1>3, OthersKeepFiles
<1>4. CASE \E s \in Scopes : SwitchToReview(s)
  BY <1>4, LoadClicksKeepFiles
<1>5. CASE ReviewAnswer
  BY <1>5, ListsKeepFiles, InsertedKeepsFiles, ShownKeepsFiles,
     DeletedKeepsFiles DEF ReviewAnswer
<1>6. CASE ReviewStep
  <2>1. UNCHANGED <<windows, server>>
    BY <1>6 DEF ReviewStep
  <2>2. ASSUME NEW s \in Scopes, ReviewClick(s) PROVE FInv'
    <3>1. CASE AskDelete(s) \/ OpenPreview(s) \/ AskSave(s)
      BY <2>1, <3>1, WindowsKeepFiles
    <3> QED
      BY <2>1, <2>2, <3>1, LoadClicksKeepFiles, PlayerKeepsFiles
         DEF ReviewClick
  <2>3. CASE CloseDialog
    BY <2>1, <2>3, WindowsKeepFiles
  <2>4. CASE ConfirmDelete \/ AskRelated \/ SaveFrame
    BY <2>1, <2>4, ConfirmKeepsFiles, RelatedKeepsFiles, SaveKeepsFiles
  <2> QED
    BY <1>6, <2>2, <2>3, <2>4 DEF ReviewStep
<1> QED
  BY <1>1, <1>2, <1>3, <1>4, <1>5, <1>6 DEF Next, UserStep, Answers

\* ... and so holds always.
LEMMA FInvHolds == Spec => []FInv
<1>1. (IInv /\ DialogOfPage) /\ RInv /\ FInv /\ [Next]_vars => FInv'
  BY FInvStep
<1> QED
  BY <1>1, InitFInv, IInvHolds, RInvHolds, PTL DEF Spec

\* No recording outlives its file, and no image does unless a snapshot was
\* saved over it or again under its name (onsavedClicked replaces the file and
\* has a second row recorded, and the file goes with the first of the two that
\* is deleted).  Otherwise a file goes only after the server has deleted the
\* row of its path, for good (onDeleteImagesFinished), and a row comes only
\* after its file was written (onsavedClicked, saveVideoRecord and
\* on_anomaly_session_ready), however requests, answers, a lost connection and
\* further clicks interleave.
THEOREM FilesOutliveRows == Spec => []FilesFollowRows
<1>1. FInv => FilesFollowRows
  BY DEF FInv
<1> QED
  BY <1>1, FInvHolds, PTL
-----------------------------------------------------------------------------
(***************************************************************************)
(* The inductive invariant for TypeOK: the days and the channels go from   *)
(* the controls through requests, rows and images back to the controls.    *)
(***************************************************************************)
\* Images of days that can be chosen.
Dated(S) == \A image \in S : Day(image.at) \in Dates

\* Rows of channels that can be chosen.
OfChannels(rows) == \A i \in DOMAIN rows : rows[i].channel \in Channels

\* A page: what its controls show, and what they may come to show.
Chosen(p, b) ==
  /\ p.date \in Dates /\ p.channel \in Channels \cup {AllChannels}
  /\ p.curPage \in 1..(MaxClicks + 1 - b)
  /\ p.channelid \in Channels \cup {0}
  /\ OfChannels(p.shown.rows)
  /\ Dated(p.detail)
  /\ p.wait["related"] # 0 => Day(p.pendingTime) \in Dates

\* A request asks for what can be chosen, ...
AsksChosen(m) ==
  /\ m.type \in {"VIDEO_LIST", "IMAGE_LIST"} => m.about.date \in Dates
  /\ m.type = "INSERT_IMAGE" => m.about.channel \in Channels \cup {0}

\* ... and so do its answers bring it.
BringsChosen(m) ==
  /\ m.type \in {"VIDEO_LIST", "IMAGE_LIST"} => OfChannels(m.rows)
  /\ m.type = "IMAGE_LIST" => Dated(Range(m.rows))

\* The tabs, the dialogs and the user.
Desk ==
  /\ budget \in 0..MaxClicks
  /\ tab \in {"monitor", "setting", "log"} \cup Scopes
  /\ modal.kind \in {"", "login", "delete", "preview", "save"}
  /\ user \in Users \cup {NoUser}
  /\ login.name \in Users \cup {NoUser}
  /\ "name" \in DOMAIN login

\* The tables.
OurChannels == \A row \in videos \cup images : row.channel \in Channels

\* The inductive invariant.
TInv ==
  /\ Desk
  /\ OurChannels
  /\ Dated(modal.images)
  /\ \A m \in Range(wire) : AsksChosen(m)
  /\ \A m \in Range(inbound) : BringsChosen(m)
  /\ \A s \in Scopes : Chosen(page[s], budget)

\* What a step does to the windows.
DeskMoves ==
  /\ budget' = budget \/ Spend
  /\ tab' = tab \/ tab' \in {"monitor", "setting", "log"} \cup Scopes
  /\ modal' = modal
     \/ modal'.kind \in {"", "login", "delete", "preview", "save"}
  /\ user' = user \/ user' = login.name
  /\ \/ login' = login
     \/ login' = [login EXCEPT !.wait = 0]
     \/ \E n, u : u \in Users /\ login' = [wait |-> n, name |-> u]

\* Every step but the server's moves them so, ...
LEMMA DeskMovesStep == [Next]_vars => DeskMoves
<1>1. ASSUME LinkUp \/ LinkLost \/ OnUploadFinished \/ OnLogListFinished
             \/ UNCHANGED vars
      PROVE  DeskMoves
  BY <1>1, Zenon DEF DeskMoves, LinkUp, LinkLost, OnUploadFinished,
     OnLogListFinished, vars, review, windows
<1>2. NoModal.kind = ""
  BY DEF NoModal
<1>3. ASSUME OpenLogin PROVE DeskMoves
  <2>1. modal'.kind = "login"
    BY <1>3 DEF OpenLogin, NoModal
  <2> QED
    BY <1>3, <2>1 DEF OpenLogin, DeskMoves, windows
<1>4. ASSUME Login PROVE DeskMoves
  BY <1>4, Zenon DEF Login, DeskMoves, review
<1>5. ASSUME OnLoginFinished PROVE DeskMoves
  BY <1>2, <1>5, Zenon DEF OnLoginFinished, DeskMoves
<1>6. ASSUME NEW t \in PlainTabs, SwitchTo(t) PROVE DeskMoves
  <2>1. t \in {"monitor", "setting", "log"} \cup Scopes
    BY PagesAssumption
  <2> QED
    BY <1>6, <2>1, Zenon DEF SwitchTo, DeskMoves, windows
<1>7. ASSUME SwitchToLog \/ ClickLog \/ RecordingFinished PROVE DeskMoves
  BY <1>7, Zenon
     DEF SwitchToLog, ClickLog, RecordingFinished, DeskMoves, review
<1>8. ASSUME NEW s \in Scopes, SwitchToReview(s) PROVE DeskMoves
  BY <1>8, Zenon DEF SwitchToReview, DeskMoves, windows
<1>9. ASSUME ReviewAnswer PROVE DeskMoves
  BY <1>9, Zenon DEF DeskMoves, ReviewAnswer, OnVideoListFinished,
     OnImageListFinished, OnInsertImageFinished, OnRelatedVideoFinished,
     OnDeleteImagesFinished, windows
<1>10. ASSUME Server PROVE DeskMoves
  <2>1. UNCHANGED <<review, budget, windows>>
    BY <1>10, Zenon DEF Server, HandleLogin, HandleQuery, HandleQueryLogList,
       HandleUpload, HandleInsertImage, HandleDeleteImages, Reply
  <2> QED
    BY <2>1, Zenon DEF review, windows, DeskMoves
<1>11. ASSUME ReviewStep PROVE DeskMoves
  <2>1. UNCHANGED <<user, login>>
    BY <1>11 DEF ReviewStep, windows
  <2>2. ASSUME NEW s \in Scopes, ReviewClick(s) PROVE DeskMoves
    <3>1. CASE \E kind \in {"delete", "preview", "save"} : \E S :
                 Open(kind, s, S)
      <4>1. modal'.kind \in {"delete", "preview", "save"}
        BY <3>1 DEF Open
      <4> QED
        BY <2>1, <3>1, <4>1, Zenon DEF Open, DeskMoves
    <3>2. CASE AskDelete(s) \/ OpenPreview(s) \/ AskSave(s)
      BY <3>1, <3>2, Zenon DEF AskDelete, OpenPreview, AskSave
    <3>3. CASE PrevPage(s) \/ NextPage(s) \/ ChangeDate(s)
               \/ ChangeChannel(s) \/ SwitchRecordMode(s)
      BY <2>1, <3>3, Zenon DEF PrevPage, NextPage, ChangeDate,
         ChangeChannel, SwitchRecordMode, Click, DeskMoves
    <3>4. CASE SelectItem(s) \/ Play(s) \/ VideoFrame(s)
      BY <2>1, <3>4, Zenon DEF SelectItem, Play, VideoFrame, DeskMoves
    <3> QED
      BY <2>2, <3>2, <3>3, <3>4 DEF ReviewClick
  <2>3. CASE CloseDialog
    BY <1>2, <2>1, <2>3, Zenon DEF CloseDialog, DeskMoves
  <2>4. CASE ConfirmDelete \/ AskRelated \/ SaveFrame
    BY <1>2, <2>1, <2>4, Zenon
       DEF ConfirmDelete, AskRelated, SaveFrame, DeskMoves
  <2> QED
    BY <1>11, <2>2, <2>3, <2>4 DEF ReviewStep
<1> QED
  BY <1>1, <1>3, <1>4, <1>5, <1>6, <1>7, <1>8, <1>9, <1>10, <1>11
     DEF Next, UserStep, Answers

\* ... which keeps them, and uses up clicks.
LEMMA DeskStep ==
  ASSUME Desk, [Next]_vars
  PROVE  Desk' /\ budget' <= budget
<1>1. DeskMoves /\ MaxClicks \in Nat
  BY DeskMovesStep, PagesAssumption
<1>2. budget' \in 0..MaxClicks /\ budget' <= budget
  <2>1. budget \in 0..MaxClicks
    BY DEF Desk
  <2>2. budget' = budget \/ Spend
    BY <1>1, Zenon DEF DeskMoves
  <2> QED
    BY <1>1, <2>1, <2>2 DEF Spend
<1>3. login'.name \in Users \cup {NoUser} /\ "name" \in DOMAIN login'
  <2>1. CASE login' = login
    BY <2>1 DEF Desk
  <2>2. CASE login' = [login EXCEPT !.wait = 0]
    <3>1. "name" \in DOMAIN login => login'.name = login.name
      BY <2>2, Zenon
    <3>2. DOMAIN login' = DOMAIN login
      BY <2>2, Zenon
    <3> QED
      BY <3>1, <3>2 DEF Desk
  <2>3. CASE \E n, u : u \in Users /\ login' = [wait |-> n, name |-> u]
    BY <2>3
  <2> QED
    BY <1>1, <2>1, <2>2, <2>3 DEF DeskMoves
<1>4. /\ tab' \in {"monitor", "setting", "log"} \cup Scopes
      /\ modal'.kind \in {"", "login", "delete", "preview", "save"}
      /\ user' \in Users \cup {NoUser}
  BY <1>1, Zenon DEF DeskMoves, Desk
<1> QED
  BY <1>2, <1>3, <1>4 DEF Desk
-----------------------------------------------------------------------------
(***************************************************************************)
(* What the steps leave of what a page may come to show.                   *)
(***************************************************************************)
\* Nothing but the controls, or the images forgotten.
Kept(q, p) ==
  /\ q.shown = p.shown /\ q.curPage = p.curPage
  /\ q.channelid = p.channelid /\ q.pendingTime = p.pendingTime
  /\ q.detail = p.detail \/ q.detail = {}

\* The controls too.
SameChoice(q, p) == q.date = p.date /\ q.channel = p.channel

\* A page stays as it is if its new controls are.
LEMMA KeptChosen ==
  ASSUME NEW p, NEW q, NEW b, Chosen(p, b), Kept(q, p),
         \/ SameChoice(q, p)
         \/ q.date \in Dates /\ q.channel \in Channels \cup {AllChannels},
         q.wait["related"] \in {p.wait["related"], 0}
  PROVE  Chosen(q, b)
BY DEF Chosen, Kept, SameChoice, Dated

\* The pages there may be only become more.
LEMMA ChosenLater ==
  ASSUME NEW p, NEW b \in 0..MaxClicks, NEW c \in 0..MaxClicks, c <= b,
         Chosen(p, b)
  PROVE  Chosen(p, c)
<1>1. p.curPage \in 1..(MaxClicks + 1 - b)
  BY DEF Chosen
<1>2. p.curPage \in 1..(MaxClicks + 1 - c)
  BY <1>1, PagesAssumption
<1> QED
  BY <1>2 DEF Chosen

\* The changes of a page, but to what it waits for.
LEMMA KeptPage ==
  ASSUME NEW p, IsPage(p), NEW e, NEW f, NEW k
  PROVE  /\ LET q == ResetPreview(p) IN Kept(q, p) /\ SameChoice(q, p)
         /\ LET q == [p EXCEPT !.date = e] IN
            Kept(q, p) /\ q.date = e /\ q.channel = p.channel
         /\ LET q == [p EXCEPT !.channel = e] IN
            Kept(q, p) /\ q.date = p.date /\ q.channel = e
         /\ LET q == [p EXCEPT !.mode = e] IN Kept(q, p) /\ SameChoice(q, p)
         /\ LET q == [p EXCEPT !.loaded = e] IN Kept(q, p) /\ SameChoice(q, p)
         /\ LET q == [p EXCEPT !.frame = e, !.late = f] IN
            Kept(q, p) /\ SameChoice(q, p)
         /\ LET q == [p EXCEPT !.wait[k] = e] IN
            Kept(q, p) /\ SameChoice(q, p)
         /\ LET q == [p EXCEPT !.pendingDelete = f, !.wait[k] = e] IN
            Kept(q, p) /\ SameChoice(q, p)
         /\ LET q == [p EXCEPT !.wait[k] = e, !.pendingDelete = f] IN
            Kept(q, p) /\ SameChoice(q, p)
         /\ LET q == [p EXCEPT !.wait[k] = e, !.pendingDelete = f,
                               !.path = NoPath] IN
            Kept(q, p) /\ SameChoice(q, p)
<1>1. \A g \in PageFields : g \in DOMAIN p
  BY Fields
<1> QED
  BY <1>1, Zenon DEF Kept, SameChoice, ResetPreview, PageFields

\* Resetting, and setting a control, keep the page.
LEMMA ControlChosen ==
  ASSUME NEW p, IsPage(p), NEW b, Chosen(p, b), NEW e
  PROVE  /\ e \in Dates =>
              LET q == [ResetPreview(p) EXCEPT !.date = e]
              IN IsPage(q) /\ Chosen(q, b)
         /\ e \in Channels \cup {AllChannels} =>
              LET q == [ResetPreview(p) EXCEPT !.channel = e]
              IN IsPage(q) /\ Chosen(q, b)
         /\ e \in {"video", "image"} =>
              LET q == [p EXCEPT !.mode = e]
              IN IsPage(q) /\ Chosen(q, b)
<1> DEFINE r == ResetPreview(p)
           d == [r EXCEPT !.date = e]
           c == [r EXCEPT !.channel = e]
           m == [p EXCEPT !.mode = e]
<1>1. /\ IsPage(r) /\ r.wait = p.wait
      /\ Kept(r, p) /\ SameChoice(r, p)
  BY ResetPage, KeptPage
<1> HIDE DEF r
<1>2. Chosen(r, b)
  BY <1>1, KeptChosen
<1>3. /\ Kept(d, r) /\ d.date = e /\ d.channel = r.channel
      /\ Kept(c, r) /\ c.date = r.date /\ c.channel = e
      /\ Kept(m, p) /\ SameChoice(m, p)
  BY <1>1, KeptPage, Zenon
<1>4. /\ IsPage(d) /\ d.wait = r.wait
      /\ IsPage(c) /\ c.wait = r.wait
      /\ e \in {"video", "image"} => IsPage(m) /\ m.wait = p.wait
  BY <1>1, SetPage, Zenon
<1> HIDE DEF d, c, m
<1>5. r.date \in Dates /\ r.channel \in Channels \cup {AllChannels}
  BY <1>2 DEF Chosen
<1>6. e \in Dates => Chosen(d, b)
  BY <1>2, <1>3, <1>4, <1>5, KeptChosen
<1>7. e \in Channels \cup {AllChannels} => Chosen(c, b)
  BY <1>2, <1>3, <1>4, <1>5, KeptChosen
<1>8. e \in {"video", "image"} => Chosen(m, b)
  BY <1>3, <1>4, KeptChosen
<1> QED
  BY <1>4, <1>6, <1>7, <1>8 DEF d, c, m, r

\* Loading goes to another page, and forgets the rows and the images.
LEMMA LoadingChosen ==
  ASSUME NEW p, IsPage(p), NEW b, Chosen(p, b), NEW i, NEW id,
         Larger(1, i) \in 1..(MaxClicks + 1 - b)
  PROVE  Chosen(Loading(p, i, id), b)
<1> DEFINE q == Loading(p, i, id)
<1>1. \A f \in PageFields : f \in DOMAIN p
  BY Fields
<1>2. /\ q.channelid = p.channelid /\ q.pendingTime = p.pendingTime
      /\ q.detail = {}
  BY <1>1, Zenon DEF Loading, PageFields
<1>3. LoadedFrom(q, p, i, id)
  BY LoadingFrom, Zenon
<1> HIDE DEF q
<1>4. /\ q.date = p.date /\ q.channel = p.channel
      /\ q.curPage = Larger(1, i) /\ q.shown = NoList
  BY <1>3 DEF LoadedFrom
<1>5. q.wait["related"] = p.wait["related"]
  BY <1>3 DEF LoadedFrom, ListKind, Kinds
<1>6. OfChannels(q.shown.rows) /\ Dated(q.detail)
  BY <1>2, <1>4 DEF NoList, OfChannels, Dated
<1>7. Chosen(q, b)
  BY <1>2, <1>4, <1>5, <1>6 DEF Chosen
<1> QED
  BY <1>7 DEF q
-----------------------------------------------------------------------------
(***************************************************************************)
(* The steps of the client.                                                *)
(***************************************************************************)
\* What DeskStep says of a step.
Used == Desk' /\ budget' <= budget

\* What a step asks, and what it leaves on the network.
Asks(n, r) ==
  /\ UNCHANGED <<videos, images>>
  /\ wire' = wire \/ (Sent(n, r) /\ AsksChosen(r))
  /\ \/ inbound' = inbound \/ inbound' = <<>>
     \/ inbound # <<>> /\ inbound' = Tail(inbound)

\* Pages that nobody touches stay as they are.
LEMMA StillChosen ==
  ASSUME TInv, Used, NEW s \in Scopes
  PROVE  Chosen(page[s], budget')
<1>1. budget \in 0..MaxClicks /\ budget' \in 0..MaxClicks
  BY DEF TInv, Used, Desk
<1> QED
  BY <1>1, ChosenLater DEF TInv, Used

\* Steps of the client that send one kind of request keep the invariant.
LEMMA ClientChooses ==
  ASSUME IInv, TInv, Used, NEW n, NEW r, Asks(n, r), Dated(modal'.images),
         \A s \in Scopes : page'[s] = page[s] \/ Chosen(page'[s], budget')
  PROVE  TInv'
<1>1. OurChannels'
  BY DEF Asks, TInv, OurChannels
<1>2. ASSUME NEW m \in Range(wire') PROVE AsksChosen(m)
  <2>1. CASE m \in Range(wire)
    BY <2>1 DEF TInv
  <2>2. CASE m \notin Range(wire)
    <3>1. AsksChosen(r) /\ \E i \in 1..n : m = Message(i, r)
      BY <1>2, <2>2 DEF Asks, Sent
    <3>2. m.type = r.type /\ m.about = r.about
      BY <3>1 DEF Message
    <3> QED
      BY <3>1, <3>2 DEF AsksChosen
  <2> QED
    BY <2>1, <2>2
<1>3. Range(inbound') \subseteq Range(inbound)
  <2>1. CASE inbound' = <<>>
    BY <2>1 DEF Range
  <2>2. CASE inbound # <<>> /\ inbound' = Tail(inbound)
    BY <2>2, TailRange DEF IInv, Shapes, Wires
  <2> QED
    BY <2>1, <2>2 DEF Asks
<1>4. \A m \in Range(inbound') : BringsChosen(m)
  BY <1>3 DEF TInv
<1>5. \A s \in Scopes : Chosen(page'[s], budget')
  BY StillChosen
<1> QED
  BY <1>1, <1>2, <1>4, <1>5 DEF TInv, Used

\* A handler that ends in a load.
LEMMA LoadChooses ==
  ASSUME IInv, TInv, Used, Quiet, modal' = modal, NEW s \in Scopes,
         NEW p, IsPage(p), Chosen(p, budget'),
         NEW i, Larger(1, i) \in 1..(MaxClicks + 1 - budget'),
         NEW n \in Nat \ {0}, Load(s, p, i, n)
  PROVE  TInv'
<1>1. DOMAIN page = Scopes /\ Wires
  BY DEF IInv, Shapes
<1>2. Dated(modal'.images)
  BY DEF TInv
<1>3. CASE link = "up"
  <2> DEFINE q == Loading(p, i, LastId(n))
             r == ListRequest(s, p, i)
  <2>1. page' = [page EXCEPT ![s] = q] /\ Send([j \in 1..n |-> r])
    BY <1>3 DEF Load, IsConnected
  <2>2. Sent(n, r)
    BY <1>1, <2>1, SendCopies
  <2>3. AsksChosen(r)
    BY DEF AsksChosen, ListRequest, Chosen
  <2>4. Chosen(q, budget')
    BY LoadingChosen
  <2> HIDE DEF q, r
  <2>5. page'[s] = q /\ \A o \in Scopes \ {s} : page'[o] = page[o]
    BY <1>1, <2>1
  <2>6. Asks(n, r)
    BY <2>2, <2>3 DEF Asks, Quiet
  <2> QED
    BY <1>2, <2>4, <2>5, <2>6, ClientChooses
<1>4. CASE link # "up"
  <2>1. page' = [page EXCEPT ![s] = p] /\ wire' = wire
    BY <1>4 DEF Load, IsConnected
  <2>2. page'[s] = p /\ \A o \in Scopes \ {s} : page'[o] = page[o]
    BY <1>1, <2>1
  <2>3. Asks(n, [type |-> "", about |-> <<>>])
    BY <2>1 DEF Asks, Quiet
  <2> QED
    BY <1>2, <2>2, <2>3, ClientChooses
<1> QED
  BY <1>3, <1>4

\* A step that changes one page.
LEMMA OneChooses ==
  ASSUME IInv, TInv, Used, NEW s \in Scopes, NEW q,
         page' = [page EXCEPT ![s] = q], Chosen(q, budget'),
         NEW n, NEW r, Asks(n, r), Dated(modal'.images)
  PROVE  TInv'
<1>1. DOMAIN page = Scopes
  BY DEF IInv, Shapes
<1>2. page'[s] = q /\ \A o \in Scopes \ {s} : page'[o] = page[o]
  BY <1>1
<1> QED
  BY <1>2, ClientChooses

\* There is always a first page.
LEMMA FirstPage ==
  \A b \in 0..MaxClicks : Larger(1, 1) \in 1..(MaxClicks + 1 - b)
<1>1. MaxClicks \in Nat
  BY PagesAssumption, Zenon
<1> QED
  BY <1>1 DEF Larger

\* What the tabs and the mode buttons load.
LEMMA TodayChooses ==
  ASSUME IInv, TInv, Used, Quiet, modal' = modal, NEW s \in Scopes,
         NEW p, IsPage(p), Chosen(p, budget'), LoadToday(s, p)
  PROVE  TInv'
<1> DEFINE t == [ResetPreview(p) EXCEPT !.date = Today]
           n == IF p.date = Today THEN 1 ELSE 2
<1>1. Load(s, t, 1, n)
  BY DEF LoadToday
<1>2. IsPage(t) /\ Chosen(t, budget')
  BY ControlChosen, ReviewAssumption
<1>3. n \in Nat \ {0}
  OBVIOUS
<1>4. Larger(1, 1) \in 1..(MaxClicks + 1 - budget')
  BY FirstPage DEF Used, Desk
<1> HIDE DEF t, n
<1> QED
  BY <1>1, <1>2, <1>3, <1>4, LoadChooses

\* What the page buttons, the choices and the tabs load.
LEMMA LoadClicksChoose ==
  ASSUME IInv, TInv, Used, NEW s \in Scopes, UNCHANGED server,
         \/ PrevPage(s) \/ NextPage(s) \/ ChangeDate(s) \/ ChangeChannel(s)
         \/ SwitchRecordMode(s) \/ SwitchToReview(s)
  PROVE  TInv'
<1> DEFINE p == page[s]
<1>1. Quiet /\ modal' = modal
  BY DEF Quiet, server, PrevPage, NextPage, ChangeDate, ChangeChannel,
         SwitchRecordMode, Click, SwitchToReview
<1>2. IsPage(p) /\ Chosen(p, budget')
  BY StillChosen DEF IInv, Shapes
<1>3. /\ budget \in 0..MaxClicks /\ budget' = budget - 1
      /\ budget' \in 0..MaxClicks /\ MaxClicks \in Nat
  <2>1. MaxClicks \in Nat
    BY PagesAssumption, Zenon
  <2>2. budget' = budget - 1
    BY Zenon DEF PrevPage, NextPage, ChangeDate, ChangeChannel,
       SwitchRecordMode, Click, SwitchToReview, Spend
  <2> QED
    BY <2>1, <2>2 DEF Used, Desk, TInv
<1>4. p.curPage \in 1..(MaxClicks + 1 - budget)
  BY DEF TInv, Chosen
<1>5. /\ Larger(1, 1) \in 1..(MaxClicks + 1 - budget')
      /\ Larger(1, p.curPage - 1) \in 1..(MaxClicks + 1 - budget')
      /\ Larger(1, p.curPage + 1) \in 1..(MaxClicks + 1 - budget')
  BY <1>3, <1>4 DEF Larger
<1>6. 1 \in Nat \ {0}
  OBVIOUS
<1> HIDE DEF p
<1>7. CASE PrevPage(s)
  <2>1. Load(s, p, p.curPage - 1, 1)
    BY <1>7 DEF PrevPage, p
  <2> QED
    BY <1>1, <1>2, <1>5, <1>6, <2>1, LoadChooses
<1>8. CASE NextPage(s)
  <2>1. Load(s, p, p.curPage + 1, 1)
    BY <1>8 DEF NextPage, p
  <2> QED
    BY <1>1, <1>2, <1>5, <1>6, <2>1, LoadChooses
<1>9. CASE ChangeDate(s)
  <2>1. PICK d \in Dates : Load(s, [ResetPreview(p) EXCEPT !.date = d], 1, 1)
    BY <1>9, Zenon DEF ChangeDate, p
  <2> DEFINE q == [ResetPreview(p) EXCEPT !.date = d]
  <2>2. IsPage(q) /\ Chosen(q, budget')
    BY <1>2, ControlChosen
  <2>3. Load(s, q, 1, 1)
    BY <2>1
  <2> HIDE DEF q
  <2> QED
    BY <1>1, <1>5, <1>6, <2>2, <2>3, LoadChooses
<1>10. CASE ChangeChannel(s)
  <2>1. PICK c \in Channels \cup {AllChannels} :
          Load(s, [ResetPreview(p) EXCEPT !.channel = c], 1, 1)
    BY <1>10, Zenon DEF ChangeChannel, p
  <2> DEFINE q == [ResetPreview(p) EXCEPT !.channel = c]
  <2>2. IsPage(q) /\ Chosen(q, budget')
    BY <1>2, ControlChosen
  <2>3. Load(s, q, 1, 1)
    BY <2>1
  <2> HIDE DEF q
  <2> QED
    BY <1>1, <1>5, <1>6, <2>2, <2>3, LoadChooses
<1>11. CASE SwitchRecordMode(s)
  <2>1. PICK mode \in {"video", "image"} :
          LoadToday(s, [p EXCEPT !.mode = mode])
    BY <1>11, Zenon DEF SwitchRecordMode, p
  <2> DEFINE q == [p EXCEPT !.mode = mode]
  <2>2. IsPage(q) /\ Chosen(q, budget')
    BY <1>2, ControlChosen
  <2>3. LoadToday(s, q)
    BY <2>1
  <2> HIDE DEF q
  <2> QED
    BY <1>1, <2>2, <2>3, TodayChooses
<1>12. CASE SwitchToReview(s)
  BY <1>1, <1>2, <1>12, TodayChooses DEF SwitchToReview, RefreshData, p
<1> QED
  BY <1>7, <1>8, <1>9, <1>10, <1>11, <1>12

\* The row selected, the file loaded and its frame.
LEMMA PlayerChooses ==
  ASSUME IInv, TInv, Used, NEW s \in Scopes, UNCHANGED server,
         SelectItem(s) \/ Play(s) \/ VideoFrame(s)
  PROVE  TInv'
<1> DEFINE p == page[s]
<1>1. IsPage(p) /\ Chosen(p, budget')
  BY StillChosen DEF IInv, Shapes
<1>2. \A f \in PageFields : f \in DOMAIN p
  BY <1>1, Fields
<1>3. \A n, r : Asks(n, r)
  BY DEF Asks, server, SelectItem, Play, VideoFrame, api
<1>4. Dated(modal'.images)
  BY DEF SelectItem, Play, VideoFrame, TInv
<1> HIDE DEF p
<1>5. ASSUME NEW q, page' = [page EXCEPT ![s] = q], Chosen(q, budget')
      PROVE  TInv'
  BY <1>3, <1>4, <1>5, OneChooses
<1>6. CASE SelectItem(s)
  <2>1. PICK i \in DOMAIN p.shown.rows :
          page' = [page EXCEPT
            ![s] = [p EXCEPT !.path = p.shown.rows[i].path,
                             !.channelid = p.shown.rows[i].channel,
                             !.late = p.loaded, !.loaded = NoPath,
                             !.frame = NoPath]]
    BY <1>6, Zenon DEF SelectItem, p
  <2> DEFINE row == p.shown.rows[i]
             q == [p EXCEPT !.path = row.path, !.channelid = row.channel,
                            !.late = p.loaded, !.loaded = NoPath,
                            !.frame = NoPath]
  <2>2. /\ q.channelid = row.channel /\ q.shown = p.shown
        /\ q.curPage = p.curPage /\ q.wait = p.wait
        /\ q.date = p.date /\ q.channel = p.channel
        /\ q.detail = p.detail /\ q.pendingTime = p.pendingTime
    BY <1>2, Zenon DEF PageFields
  <2>3. page' = [page EXCEPT ![s] = q]
    BY <2>1
  <2>4. row.channel \in Channels
    BY <1>1 DEF Chosen, OfChannels
  <2> HIDE DEF q, row
  <2>5. Chosen(q, budget')
    BY <1>1, <2>2, <2>4 DEF Chosen
  <2> QED
    BY <1>5, <2>3, <2>5
<1>7. CASE Play(s)
  <2> DEFINE q == [p EXCEPT !.loaded = p.path]
  <2>1. page' = [page EXCEPT ![s] = q]
    BY <1>7, Zenon DEF Play, p
  <2>2. Kept(q, p) /\ SameChoice(q, p)
    BY <1>1, KeptPage, Zenon
  <2>3. q.wait = p.wait
    BY <1>2, Zenon DEF PageFields
  <2> HIDE DEF q
  <2>4. Chosen(q, budget')
    BY <1>1, <2>2, <2>3, KeptChosen
  <2> QED
    BY <1>5, <2>1, <2>4
<1>8. CASE VideoFrame(s)
  <2>0. PICK a, b :
          page' = [page EXCEPT ![s] = [p EXCEPT !.frame = a, !.late = b]]
    BY <1>8, Zenon DEF VideoFrame, p
  <2> DEFINE q == [p EXCEPT !.frame = a, !.late = b]
  <2>1. page' = [page EXCEPT ![s] = q]
    BY <2>0
  <2>2. Kept(q, p) /\ SameChoice(q, p)
    BY <1>1, KeptPage, Zenon
  <2>3. q.wait = p.wait
    BY <1>2, Zenon DEF PageFields
  <2> HIDE DEF q
  <2>4. Chosen(q, budget')
    BY <1>1, <2>2, <2>3, KeptChosen
  <2> QED
    BY <1>5, <2>1, <2>4
<1> QED
  BY <1>6, <1>7, <1>8

\* Steps that touch no page and ask for no records.
LEMMA NoPageChooses ==
  ASSUME IInv, TInv, Used, UNCHANGED <<videos, images, page>>,
         NEW r, Send(<<r>>) \/ wire' = wire,
         r.type \notin {"VIDEO_LIST", "IMAGE_LIST", "INSERT_IMAGE"},
         \/ inbound' = inbound \/ inbound' = <<>>
         \/ inbound # <<>> /\ inbound' = Tail(inbound),
         Dated(modal'.images)
  PROVE  TInv'
<1>1. Send(<<r>>) => Sent(1, r)
  BY SendOne DEF IInv, Shapes
<1>2. AsksChosen(r)
  BY DEF AsksChosen
<1>3. Asks(1, r)
  BY <1>1, <1>2 DEF Asks
<1> QED
  BY <1>3, ClientChooses

\* The dialogs opened and closed, the tabs and the answers to other windows.
LEMMA WindowsChoose ==
  ASSUME IInv, TInv, Used, UNCHANGED server,
         \/ LinkUp \/ LinkLost \/ OnLoginFinished \/ OnLogListFinished
         \/ OnUploadFinished \/ OpenLogin \/ CloseDialog \/ UNCHANGED vars
         \/ \E t \in PlainTabs : SwitchTo(t)
         \/ \E s \in Scopes : AskDelete(s) \/ OpenPreview(s) \/ AskSave(s)
  PROVE  TInv'
<1> DEFINE Left == \/ inbound' = inbound
                   \/ inbound' = <<>>
                   \/ inbound # <<>> /\ inbound' = Tail(inbound)
<1>0. UNCHANGED <<videos, images>>
  BY DEF server
<1>1. UNCHANGED <<page, wire>> /\ Left
  <2>1. CASE LinkUp \/ LinkLost \/ UNCHANGED vars
    BY <2>1, Zenon DEF LinkUp, LinkLost, Disconnected, review, api, vars
  <2>2. CASE OnLoginFinished \/ OnLogListFinished \/ OnUploadFinished
    BY <2>2, Zenon DEF OnLoginFinished, OnLogListFinished, OnUploadFinished,
       Arrived, Taken, review
  <2>3. CASE \/ OpenLogin \/ CloseDialog \/ \E t \in PlainTabs : SwitchTo(t)
    BY <2>3, Zenon DEF OpenLogin, CloseDialog, SwitchTo, api
  <2>4. CASE \E s \in Scopes : AskDelete(s) \/ OpenPreview(s) \/ AskSave(s)
    BY <2>4, Zenon DEF AskDelete, OpenPreview, AskSave, Open, api
  <2> QED
    BY <2>1, <2>2, <2>3, <2>4, Zenon
<1>2. Dated(NoModal.images)
  BY DEF NoModal, Dated
<1>3. ASSUME modal' = modal PROVE Dated(modal'.images)
  BY <1>3 DEF TInv
<1>4. ASSUME modal' = NoModal \/ modal' = [NoModal EXCEPT !.kind = "login"]
      PROVE  Dated(modal'.images)
  <2>1. modal'.images = NoModal.images
    BY <1>4 DEF NoModal
  <2> QED
    BY <1>2, <2>1
<1>5. ASSUME NEW s \in Scopes, AskDelete(s) \/ OpenPreview(s) \/ AskSave(s)
      PROVE  Dated(modal'.images)
  <2>1. PICK S \in SUBSET page[s].detail : \E kind : Open(kind, s, S)
    <3>1. {} \in SUBSET page[s].detail
          /\ page[s].detail \in SUBSET page[s].detail
      OBVIOUS
    <3>2. CASE AskDelete(s)
      BY <3>2 DEF AskDelete
    <3>3. CASE OpenPreview(s)
      BY <3>1, <3>3, Zenon DEF OpenPreview
    <3>4. CASE AskSave(s)
      BY <3>1, <3>4, Zenon DEF AskSave
    <3> QED
      BY <1>5, <3>2, <3>3, <3>4
  <2>3. modal'.images \subseteq page[s].detail
    BY <2>1 DEF Open
  <2>2. Dated(page[s].detail)
    BY DEF TInv, Chosen
  <2> QED
    BY <2>2, <2>3 DEF Dated
<1>8. ASSUME modal' # modal PROVE Dated(modal'.images)
  <2>1. CASE LinkUp \/ LinkLost \/ UNCHANGED vars \/ OnLogListFinished
             \/ OnUploadFinished
    BY <1>8, <2>1, Zenon
       DEF LinkUp, LinkLost, OnLogListFinished, OnUploadFinished, review, vars
  <2>2. CASE OnLoginFinished \/ OpenLogin \/ CloseDialog
             \/ \E t \in PlainTabs : SwitchTo(t)
    <3>1. modal' = NoModal \/ modal' = [NoModal EXCEPT !.kind = "login"]
      BY <1>8, <2>2, Zenon
         DEF OnLoginFinished, OpenLogin, CloseDialog, SwitchTo
    <3> QED
      BY <1>4, <3>1
  <2> QED
    BY <1>5, <2>1, <2>2, Zenon
<1>6. Dated(modal'.images)
  BY <1>3, <1>8
<1> DEFINE r == [type |-> "", about |-> <<>>]
<1>7. r.type \notin {"VIDEO_LIST", "IMAGE_LIST", "INSERT_IMAGE"}
  OBVIOUS
<1> HIDE DEF r
<1> QED
  BY <1>0, <1>1, <1>6, <1>7, NoPageChooses

\* The requests made at the end of a dialog.
LEMMA DialogAsksChoose ==
  ASSUME IInv, TInv, Used, UNCHANGED server, DialogOfPage,
         ConfirmDelete \/ AskRelated \/ SaveFrame
  PROVE  TInv'
<1> DEFINE s == modal.scope
           p == page[s]
<1>1. inbound' = inbound /\ videos' = videos /\ images' = images
  BY DEF server, ConfirmDelete, AskRelated, SaveFrame
<1>2. s \in Scopes
  BY DEF ConfirmDelete, AskRelated, SaveFrame, DialogOfPage
<1>3. IsPage(p) /\ Wires /\ Chosen(p, budget')
  BY <1>2, StillChosen DEF IInv, Shapes
<1>4. Dated(modal'.images)
  <2>1. Dated(modal.images) /\ Dated(NoModal.images)
    BY DEF TInv, NoModal, Dated
  <2>2. modal' = modal \/ modal' = NoModal
    BY Zenon DEF ConfirmDelete, AskRelated, SaveFrame
  <2> QED
    BY <2>1, <2>2
<1> HIDE DEF s, p
<1>5. \A f \in PageFields : f \in DOMAIN p
  BY <1>3, Fields
<1>6. ASSUME NEW q, page' = [page EXCEPT ![s] = q], Chosen(q, budget'),
             NEW r, Send(<<r>>), AsksChosen(r)
      PROVE  TInv'
  <2>1. Sent(1, r)
    BY <1>3, <1>6, SendOne
  <2>2. Asks(1, r)
    BY <1>1, <1>6, <2>1 DEF Asks
  <2> QED
    BY <1>2, <1>4, <1>6, <2>2, OneChooses
<1>7. \A k \in Kinds \ {"related"} :
        \A w : [p.wait EXCEPT ![k] = w]["related"] = p.wait["related"]
  BY <1>3 DEF IsPage, Kinds
<1>8. CASE ConfirmDelete
  <2> DEFINE q == [p EXCEPT !.pendingDelete = modal.images,
                            !.wait["delete"] = LastId(1)]
             r == DeleteRequest(modal.images)
  <2>1. page' = [page EXCEPT ![s] = q] /\ Send(<<r>>)
    BY <1>8, Zenon DEF ConfirmDelete, s, p
  <2>2. Kept(q, p) /\ SameChoice(q, p)
    BY <1>3, KeptPage, Zenon
  <2>3. q.wait = [p.wait EXCEPT !["delete"] = LastId(1)]
    BY <1>5, Zenon DEF PageFields
  <2>4. AsksChosen(r)
    BY DEF AsksChosen, DeleteRequest
  <2> HIDE DEF q, r
  <2>5. q.wait["related"] = p.wait["related"]
    BY <1>7, <2>3 DEF Kinds
  <2>6. Chosen(q, budget')
    BY <1>3, <2>2, <2>5, KeptChosen
  <2> QED
    BY <1>6, <2>1, <2>4, <2>6
<1>9. CASE AskRelated
  <2>1. PICK image \in modal.images :
          /\ page' = [page EXCEPT
               ![s] = [p EXCEPT !.pendingTime = image.at,
                                !.wait["related"] = LastId(1)]]
          /\ Send(<<RelatedRequest(s, image)>>)
    BY <1>9, Zenon DEF AskRelated, s, p
  <2> DEFINE q == [p EXCEPT !.pendingTime = image.at,
                            !.wait["related"] = LastId(1)]
             r == RelatedRequest(s, image)
  <2>2. page' = [page EXCEPT ![s] = q] /\ Send(<<r>>)
    BY <2>1
  <2>3. /\ SameChoice(q, p) /\ q.shown = p.shown /\ q.curPage = p.curPage
        /\ q.channelid = p.channelid /\ q.detail = p.detail
        /\ q.pendingTime = image.at
    BY <1>5, Zenon DEF SameChoice, PageFields
  <2>4. AsksChosen(r)
    BY DEF AsksChosen, RelatedRequest
  <2>5. Day(image.at) \in Dates
    BY DEF TInv, Dated
  <2> HIDE DEF q, r
  <2>6. Chosen(q, budget')
    BY <1>3, <2>3, <2>5 DEF Chosen, SameChoice
  <2> QED
    BY <1>6, <2>2, <2>4, <2>6
<1>10. CASE SaveFrame /\ link = "up"
  <2>0. PICK path :
          /\ page' = [page EXCEPT
               ![s] = [p EXCEPT !.wait["insert"] = LastId(1)]]
          /\ Send(<<InsertRequest(p, path)>>)
    BY <1>10, Zenon DEF SaveFrame, InsertFeatureImageRecord, IsConnected, s, p
  <2> DEFINE q == [p EXCEPT !.wait["insert"] = LastId(1)]
             r == InsertRequest(p, path)
  <2>1. page' = [page EXCEPT ![s] = q] /\ Send(<<r>>)
    BY <2>0
  <2>2. Kept(q, p) /\ SameChoice(q, p)
    BY <1>3, KeptPage, Zenon
  <2>3. q.wait = [p.wait EXCEPT !["insert"] = LastId(1)]
    BY <1>5, Zenon DEF PageFields
  <2>4. r.type = "INSERT_IMAGE" /\ r.about.channel = p.channelid
    BY DEF InsertRequest
  <2> HIDE DEF q, r
  <2>5. AsksChosen(r)
    BY <1>3, <2>4 DEF AsksChosen, Chosen
  <2>6. q.wait["related"] = p.wait["related"]
    BY <1>7, <2>3 DEF Kinds
  <2>7. Chosen(q, budget')
    BY <1>3, <2>2, <2>6, KeptChosen
  <2> QED
    BY <1>6, <2>1, <2>5, <2>7
<1>11. CASE SaveFrame /\ link # "up"
  <2>1. UNCHANGED <<wire, page>>
    BY <1>11 DEF SaveFrame, InsertFeatureImageRecord, IsConnected
  <2>2. Asks(1, [type |-> "", about |-> <<>>])
    BY <1>1, <2>1 DEF Asks
  <2> QED
    BY <1>4, <2>1, <2>2, ClientChooses
<1> QED
  BY <1>8, <1>9, <1>10, <1>11

\* The login, the log page and the recordings.
LEMMA WindowClicksChoose ==
  ASSUME IInv, TInv, Used, SwitchToLog \/ ClickLog \/ RecordingFinished \/ Login
  PROVE  TInv'
<1>1. UNCHANGED <<videos, images, page>> /\ inbound' = inbound
  BY DEF SwitchToLog, ClickLog, RecordingFinished, Login, review, server
<1>2. modal' = modal
  BY DEF SwitchToLog, ClickLog, RecordingFinished, Login, review
<1>3. Dated(modal'.images)
  BY <1>2 DEF TInv
<1>4. ASSUME NEW r, Send(<<r>>) \/ wire' = wire,
             r.type \notin {"VIDEO_LIST", "IMAGE_LIST", "INSERT_IMAGE"}
      PROVE  TInv'
  BY <1>1, <1>3, <1>4, NoPageChooses
<1>5. CASE SwitchToLog \/ ClickLog
  <2>1. PICK mode, n : LoadLog(mode, n)
    BY <1>5, Zenon DEF SwitchToLog, ClickLog
  <2> DEFINE r == LogRequest(mode, n)
  <2>2. Send(<<r>>) \/ wire' = wire
    BY <2>1 DEF LoadLog
  <2>3. r.type = "LOG_LIST"
    BY DEF LogRequest
  <2> HIDE DEF r
  <2> QED
    BY <1>4, <2>2, <2>3
<1>6. CASE RecordingFinished
  <2>1. PICK u \in Uploads : Upload(u)
    BY <1>6 DEF RecordingFinished
  <2> DEFINE r == UploadRequest(u)
  <2>2. Send(<<r>>) \/ wire' = wire
    BY <2>1 DEF Upload
  <2>3. r.type \in {"SESSION", "INSERT_VIDEO"}
    BY DEF UploadRequest
  <2> HIDE DEF r
  <2> QED
    BY <1>4, <2>2, <2>3
<1>7. CASE Login
  <2>1. PICK u : Send(<<LoginRequest(u)>>)
    BY <1>7 DEF Login
  <2> DEFINE r == LoginRequest(u)
  <2>2. Send(<<r>>) /\ r.type = "LOGIN"
    BY <2>1 DEF LoginRequest
  <2> HIDE DEF r
  <2> QED
    BY <1>4, <2>2
<1> QED
  BY <1>5, <1>6, <1>7
-----------------------------------------------------------------------------
(***************************************************************************)
(* The answers.                                                            *)
(***************************************************************************)
\* A list is heard: its rows are of channels, its images of days to choose.
LEMMA HeardChosen ==
  ASSUME NEW p, IsPage(p), NEW b, Chosen(p, b), NEW mode \in {"video", "image"},
         OfChannels(Answer.rows),
         mode = "image" => Dated(Range(Answer.rows))
  PROVE  Chosen(ListFinished(p, mode), b)
<1> DEFINE kind == ListKind(mode)
           heard == [p EXCEPT !.wait[kind] = 0]
           q == ListFinished(p, mode)
<1>1. kind \in Kinds \ {"related"}
  BY DEF ListKind, Kinds
<1>2. Waits(heard, p, kind, 0) /\ Kept(heard, p) /\ SameChoice(heard, p)
  BY <1>1, WaitingPage, KeptPage, Zenon
<1> HIDE DEF kind
<1>3. heard.wait["related"] = p.wait["related"]
  BY <1>1, <1>2 DEF Waits, Kinds
<1> HIDE DEF heard
<1>4. IsPage(heard) /\ Chosen(heard, b)
  BY <1>2, <1>3, KeptChosen DEF Waits
<1>5. CASE p.mode # mode
  <2>1. q = heard
    BY <1>5, Zenon DEF ListFinished, kind, heard
  <2> HIDE DEF q
  <2> QED
    BY <1>4, <2>1 DEF q
<1>6. CASE p.mode = mode
  <2> DEFINE shown == IF Answer.ok
                      THEN [query |-> Answer.about, rows |-> Answer.rows]
                      ELSE NoList
             detail == IF Answer.ok /\ mode = "image"
                       THEN Range(Answer.rows) ELSE {}
  <2>1. q = [heard EXCEPT
               !.loading = FALSE, !.shown = shown, !.detail = detail,
               !.totalPage = IF Answer.ok THEN PageCount(Answer.total)
                             ELSE p.curPage]
    BY <1>6, Zenon DEF ListFinished, kind, heard
  <2> HIDE DEF q, shown, detail
  <2>2. \A f \in PageFields : f \in DOMAIN heard
    BY <1>4, Fields
  <2>3. /\ q.date = heard.date /\ q.channel = heard.channel
        /\ q.curPage = heard.curPage /\ q.channelid = heard.channelid
        /\ q.shown = shown /\ q.detail = detail
        /\ q.wait = heard.wait /\ q.pendingTime = heard.pendingTime
    BY <2>1, <2>2, Zenon DEF PageFields
  <2>4. OfChannels(shown.rows) /\ Dated(detail)
    BY DEF shown, detail, NoList, OfChannels, Dated
  <2>5. Chosen(q, b)
    BY <1>4, <2>3, <2>4 DEF Chosen
  <2> QED
    BY <2>5 DEF q
<1> QED
  BY <1>5, <1>6

\* The page of a related video shows the day of the image and its channel.
LEMMA RelatedChosen ==
  ASSUME NEW p, IsPage(p), NEW b, Chosen(p, b), p.wait["related"] # 0,
         NEW video, video.channel \in Channels
  PROVE  Chosen(ShowingRelated(p, video), b)
<1> DEFINE r == ResetPreview(p)
           q == [r EXCEPT
                  !.wait["related"] = 0, !.mode = "video",
                  !.date = Day(p.pendingTime), !.channel = video.channel,
                  !.path = video.path, !.channelid = video.channel]
           o == OpenedAt(q, video)
<1>1. IsPage(r) /\ r.wait = p.wait /\ Kept(r, p) /\ SameChoice(r, p)
  BY ResetPage, KeptPage
<1>2. Day(p.pendingTime) \in Dates
  BY DEF Chosen
<1> HIDE DEF r
<1>3. Chosen(r, b)
  BY <1>1, KeptChosen
<1>4. \A f \in PageFields : f \in DOMAIN r
  BY <1>1, Fields
<1>5. /\ DOMAIN q = DOMAIN r
      /\ q.date = Day(p.pendingTime) /\ q.channel = video.channel
      /\ q.channelid = video.channel /\ q.curPage = r.curPage
      /\ q.shown = r.shown /\ q.detail = r.detail
      /\ q.wait = [r.wait EXCEPT !["related"] = 0]
  BY <1>4, Zenon DEF PageFields
<1>6. o = ShowingRelated(p, video)
  BY Zenon DEF ShowingRelated, r
<1> HIDE DEF q
<1>7. q.wait["related"] = 0
  BY <1>1, <1>5 DEF IsPage, Kinds
<1>8. Chosen(q, b)
  BY <1>2, <1>3, <1>5, <1>7 DEF Chosen
<1>9. CASE video.path \notin files
  BY <1>6, <1>8, <1>9 DEF OpenedAt
<1>10. CASE video.path \in files
  <2>1. o = [q EXCEPT !.loaded = video.path,
                      !.opened = [video |-> video.id, at |-> q.pendingTime]]
    BY <1>10, Zenon DEF OpenedAt
  <2>2. \A f \in PageFields : f \in DOMAIN q
    BY <1>4, <1>5
  <2>3. /\ o.date = q.date /\ o.channel = q.channel
        /\ o.curPage = q.curPage /\ o.channelid = q.channelid
        /\ o.shown = q.shown /\ o.detail = q.detail
        /\ o.wait = q.wait /\ o.pendingTime = q.pendingTime
    BY <2>1, <2>2, Zenon DEF PageFields
  <2> HIDE DEF o
  <2>4. Chosen(o, b)
    BY <1>8, <2>3 DEF Chosen
  <2> QED
    BY <1>6, <2>4
<1> QED
  BY <1>9, <1>10

\* An answer is taken, and each page stays or goes on.
LEMMA BothChoose ==
  ASSUME IInv, TInv, Used, UNCHANGED <<videos, images, wire, modal>>,
         inbound # <<>>, inbound' = Tail(inbound),
         \A s \in Scopes : page'[s] = page[s] \/ Chosen(page'[s], budget')
  PROVE  TInv'
<1>1. Asks(1, [type |-> "", about |-> <<>>])
  BY DEF Asks
<1>2. Dated(modal'.images)
  BY DEF TInv
<1> QED
  BY <1>1, <1>2, ClientChooses

\* The answers that are lists.
LEMMA ListsChoose ==
  ASSUME IInv, TInv, Used, UNCHANGED server,
         OnVideoListFinished \/ OnImageListFinished
  PROVE  TInv'
<1>1. /\ UNCHANGED <<videos, images, wire, modal>>
      /\ inbound # <<>> /\ inbound' = Tail(inbound)
      /\ Answer.type \in {"VIDEO_LIST", "IMAGE_LIST"}
  BY DEF OnVideoListFinished, OnImageListFinished, server, Taken, Arrived,
         Answer
<1>2. Answer \in Range(inbound)
  BY <1>1, TailRange DEF IInv, Shapes, Wires, Answer
<1>3. BringsChosen(Answer)
  BY <1>2 DEF TInv
<1>4. PICK mode \in {"video", "image"} :
        /\ mode = "image" => Answer.type = "IMAGE_LIST"
        /\ page' = [s \in Scopes |->
                      IF Takes(page[s], ListKind(mode))
                      THEN ListFinished(page[s], mode) ELSE page[s]]
  <2>1. ListKind("video") = "videos" /\ ListKind("image") = "images"
        /\ "video" # "image"
    BY DEF ListKind
  <2> QED
    BY <2>1, Zenon
       DEF OnVideoListFinished, OnImageListFinished, BothPages, Arrived, Answer
<1>5. OfChannels(Answer.rows) /\ (mode = "image" => Dated(Range(Answer.rows)))
  BY <1>1, <1>3, <1>4 DEF BringsChosen
<1>6. ASSUME NEW s \in Scopes
      PROVE  page'[s] = page[s] \/ Chosen(page'[s], budget')
  <2> DEFINE q == ListFinished(page[s], mode)
  <2>1. page'[s] = IF Takes(page[s], ListKind(mode)) THEN q ELSE page[s]
    BY <1>4, Zenon
  <2>2. Chosen(q, budget')
    <3>1. IsPage(page[s]) /\ Chosen(page[s], budget')
      BY StillChosen DEF IInv, Shapes
    <3> QED
      BY <1>5, <3>1, HeardChosen
  <2> HIDE DEF q
  <2> QED
    BY <2>1, <2>2
<1> QED
  BY <1>1, <1>6, BothChoose

\* Answers that only end the waiting.
LEMMA InsertChooses ==
  ASSUME IInv, TInv, Used, UNCHANGED server, OnInsertImageFinished
  PROVE  TInv'
<1>1. /\ UNCHANGED <<videos, images, wire, modal>>
      /\ inbound # <<>> /\ inbound' = Tail(inbound)
  BY DEF OnInsertImageFinished, server, Taken, Arrived
<1>2. page' = [s \in Scopes |->
                 IF Takes(page[s], "insert")
                 THEN [page[s] EXCEPT !.wait["insert"] = 0] ELSE page[s]]
  BY Zenon DEF OnInsertImageFinished, BothPages
<1>3. ASSUME NEW s \in Scopes
      PROVE  page'[s] = page[s] \/ Chosen(page'[s], budget')
  <2> DEFINE q == [page[s] EXCEPT !.wait["insert"] = 0]
  <2>1. page'[s] = IF Takes(page[s], "insert") THEN q ELSE page[s]
    BY <1>2, Zenon
  <2>2. IsPage(page[s]) /\ Chosen(page[s], budget')
        /\ "insert" \in Kinds /\ "related" \in Kinds
    BY StillChosen DEF IInv, Shapes, Kinds
  <2>3. Waits(q, page[s], "insert", 0) /\ Kept(q, page[s])
        /\ SameChoice(q, page[s])
    BY <2>2, WaitingPage, KeptPage, Zenon
  <2> HIDE DEF q
  <2>4. q.wait["related"] = page[s].wait["related"]
    BY <2>2, <2>3 DEF Waits
  <2>5. Chosen(q, budget')
    BY <2>2, <2>3, <2>4, KeptChosen
  <2> QED
    BY <2>1, <2>5
<1> QED
  BY <1>1, <1>3, BothChoose

\* A related video that is not opened.
LEMMA IgnoredChooses ==
  ASSUME IInv, TInv, Used, UNCHANGED server, modal' = modal, Taken,
         inbound # <<>>, NEW kind \in {"related", "delete"}, Ignored(kind)
  PROVE  TInv'
<1>1. /\ UNCHANGED <<videos, images, wire, modal>>
      /\ inbound # <<>> /\ inbound' = Tail(inbound)
  BY DEF Ignored, server, Taken
<1>2. page' = [s \in Scopes |->
                 IF Takes(page[s], kind)
                 THEN [page[s] EXCEPT !.wait[kind] = 0,
                                      !.pendingDelete =
                                        IF kind = "delete" THEN {} ELSE @]
                 ELSE page[s]]
  BY Zenon DEF Ignored, BothPages
<1>3. ASSUME NEW s \in Scopes
      PROVE  page'[s] = page[s] \/ Chosen(page'[s], budget')
  <2> DEFINE a == IF kind = "delete" THEN {} ELSE page[s].pendingDelete
             q == [page[s] EXCEPT !.wait[kind] = 0, !.pendingDelete = a]
  <2>1. page'[s] = IF Takes(page[s], kind) THEN q ELSE page[s]
    BY <1>2, Zenon
  <2> HIDE DEF a
  <2>2. IsPage(page[s]) /\ Chosen(page[s], budget')
        /\ kind \in Kinds /\ "related" \in Kinds
    BY StillChosen DEF IInv, Shapes, Kinds
  <2>3. Waits(q, page[s], kind, 0) /\ Kept(q, page[s]) /\ SameChoice(q, page[s])
    BY <2>2, WaitingPage, KeptPage, Zenon
  <2> HIDE DEF q
  <2>4. q.wait["related"] \in {page[s].wait["related"], 0}
    BY <2>2, <2>3 DEF Waits
  <2>5. Chosen(q, budget')
    BY <2>2, <2>3, <2>4, KeptChosen
  <2> QED
    BY <2>1, <2>5
<1> QED
  BY <1>1, <1>3, BothChoose

\* The related video is shown, or the images are gone, and the page loads.
LEMMA LoadingAnswersChoose ==
  ASSUME IInv, RInv, TInv, Used, UNCHANGED server,
         OnRelatedVideoFinished \/ OnDeleteImagesFinished
  PROVE  TInv'
<1>1. Quiet /\ Taken /\ inbound # <<>> /\ modal' = modal /\ budget' = budget
  BY DEF Quiet, server, OnRelatedVideoFinished, OnDeleteImagesFinished, Taken,
         Arrived
<1>2. /\ 1 \in Nat \ {0} /\ "related" \in Kinds
      /\ \A s \in Scopes : IsPage(page[s]) /\ Chosen(page[s], budget')
  BY StillChosen DEF IInv, Shapes, Kinds
<1>3. budget' \in 0..MaxClicks
  BY DEF Used, Desk
<1>4. CASE OnRelatedVideoFinished
  <2>1. CASE Ignored("related")
    BY <1>1, <2>1, IgnoredChooses
  <2>2. CASE \E s \in Scopes :
               /\ Takes(page[s], "related") /\ Answer.ok
               /\ Load(s, ShowingRelated(page[s], Head(Answer.rows)), 1, 1)
    <3>1. PICK s \in Scopes :
            /\ Takes(page[s], "related") /\ Answer.ok
            /\ Load(s, ShowingRelated(page[s], Head(Answer.rows)), 1, 1)
      BY <2>2, Zenon
    <3> DEFINE video == Head(Answer.rows)
               p == ShowingRelated(page[s], video)
    <3>2. Load(s, p, 1, 1)
      BY <3>1
    <3>3. Answered(p, page[s], "related")
      BY <1>2, RelatedPage, Zenon
    <3>4. Answer \in Range(inbound) /\ Answer.type = "RELATED"
      BY <1>1, <1>4, TailRange
         DEF IInv, Shapes, Wires, Answer, OnRelatedVideoFinished, Arrived
    <3>5. video \in videos
      BY <3>1, <3>4 DEF RInv, AnswerOK
    <3>6. video.channel \in Channels
      BY <3>5 DEF TInv, OurChannels
    <3>7. page[s].wait["related"] # 0
      BY <3>1 DEF Takes
    <3> HIDE DEF p, video
    <3>8. Chosen(p, budget')
      BY <1>2, <3>6, <3>7, RelatedChosen DEF p
    <3>9. IsPage(p)
      BY <3>3 DEF Answered
    <3> QED
      BY <1>1, <1>2, <1>3, <3>2, <3>8, <3>9, FirstPage, LoadChooses
  <2> QED
    BY <1>4, <2>1, <2>2 DEF OnRelatedVideoFinished
<1>5. CASE OnDeleteImagesFinished
  <2>1. CASE Ignored("delete")
    BY <1>1, <2>1, IgnoredChooses
  <2>2. ASSUME NEW s \in Scopes,
               Load(s, [page[s] EXCEPT !.wait["delete"] = 0,
                                       !.pendingDelete = {}, !.path = NoPath],
                    page[s].curPage, 1)
        PROVE  TInv'
    <3> DEFINE p == [page[s] EXCEPT !.wait["delete"] = 0,
                                    !.pendingDelete = {}, !.path = NoPath]
    <3>1. Answered(p, page[s], "delete") /\ Kept(p, page[s])
          /\ SameChoice(p, page[s])
      BY <1>2, DeletedPage, KeptPage, Zenon
    <3>2. Load(s, p, page[s].curPage, 1)
      BY <2>2
    <3> HIDE DEF p
    <3>3. IsPage(p) /\ p.wait["related"] = page[s].wait["related"]
      BY <1>2, <3>1 DEF Answered, IsPage
    <3>4. Chosen(p, budget')
      BY <1>2, <3>1, <3>3, KeptChosen
    <3>5. Larger(1, page[s].curPage) \in 1..(MaxClicks + 1 - budget')
      <4>1. page[s].curPage \in 1..(MaxClicks + 1 - budget')
        BY <1>2 DEF Chosen
      <4>2. MaxClicks \in Nat
        BY PagesAssumption, Zenon
      <4> QED
        BY <1>3, <4>1, <4>2 DEF Larger
    <3> QED
      BY <1>1, <1>2, <3>2, <3>3, <3>4, <3>5, LoadChooses
  <2> QED
    BY <1>5, <2>1, <2>2, Zenon DEF OnDeleteImagesFinished
<1> QED
  BY <1>4, <1>5
-----------------------------------------------------------------------------
(***************************************************************************)
(* The server.                                                             *)
(***************************************************************************)
\* The rows of an answer, for the requests there are.
Brings(r, a) ==
  /\ r.type \in {"VIDEO_LIST", "IMAGE_LIST"} => OfChannels(a.rows)
  /\ r.type = "IMAGE_LIST" => Dated(Range(a.rows))

\* The server finds what was asked for: rows of the day that was chosen.
LEMMA FoundIsChosen ==
  ASSUME Tables, OurChannels, NEW r, RequestOK(r), AsksChosen(r),
         r.type \in {"VIDEO_LIST", "IMAGE_LIST", "RELATED"},
         NEW a \in Served(Found(r), Refused)
  PROVE  Brings(r, a)
<1>1. Refused.rows = <<>>
  BY DEF Refused
<1>2. CASE a = Refused
  BY <1>1, <1>2 DEF Brings, OfChannels, Dated, Range
<1>3. CASE a # Refused /\ r.type = "VIDEO_LIST"
  <2> DEFINE S == Filtered(videos, r.about)
  <2>1. a \in PageAnswers(S, r.about.page, PageSize)
    BY <1>3 DEF Served, Found, QueryVideoList
  <2>2. S \subseteq videos /\ IsFiniteSet(S)
    BY FS_Subset DEF Filtered, Tables
  <2>3. r.about.page \in Nat \ {0}
    BY <1>3 DEF RequestOK
  <2> HIDE DEF S
  <2>4. \A i \in DOMAIN a.rows : a.rows[i] \in S
    BY <2>1, <2>2, <2>3, PageRows
  <2>5. OfChannels(a.rows)
    BY <2>2, <2>4 DEF OfChannels, OurChannels
  <2> QED
    BY <1>3, <2>5 DEF Brings
<1>4. CASE a # Refused /\ r.type = "IMAGE_LIST"
  <2> DEFINE S == Filtered(images, r.about)
  <2>1. a \in PageAnswers(S, r.about.page, PageSize)
    BY <1>4 DEF Served, Found, QueryImageList
  <2>2. S \subseteq images /\ IsFiniteSet(S)
    BY FS_Subset DEF Filtered, Tables
  <2>3. r.about.page \in Nat \ {0} /\ r.about.date \in Dates
    BY <1>4 DEF RequestOK, AsksChosen
  <2>4. \A row \in S : Day(row.at) \in Dates
    BY <2>3 DEF Filtered, Selected
  <2> HIDE DEF S
  <2>5. \A i \in DOMAIN a.rows : a.rows[i] \in S
    BY <2>1, <2>2, <2>3, PageRows
  <2>6. OfChannels(a.rows)
    BY <2>2, <2>5 DEF OfChannels, OurChannels
  <2>7. Dated(Range(a.rows))
    BY <2>4, <2>5 DEF Dated, Range
  <2> QED
    BY <2>6, <2>7 DEF Brings
<1>5. CASE r.type = "RELATED"
  BY <1>5 DEF Brings
<1> QED
  BY <1>2, <1>3, <1>4, <1>5

\* An answer is given, and the tables stay in our channels.
LEMMA ReplyChooses ==
  ASSUME IInv, TInv, Used, wire # <<>>, OurChannels',
         NEW id, NEW a, NEW total, Reply(id, a.ok, a.rows, total),
         Brings(Request, a)
  PROVE  TInv'
<1> DEFINE answer == [id |-> id, type |-> Request.type, ok |-> a.ok,
                      rows |-> a.rows, total |-> total,
                      about |-> Request.about]
<1>1. /\ page' = page /\ modal' = modal /\ wire' = Tail(wire)
      /\ inbound' = IF link # "up" THEN inbound ELSE Append(inbound, answer)
  BY DEF Reply, review
<1>2. BringsChosen(answer)
  BY DEF BringsChosen, Brings
<1> HIDE DEF answer
<1>3. Range(wire') \subseteq Range(wire)
  BY <1>1, TailRange DEF IInv, Shapes, Wires
<1>4. \A m \in Range(inbound') : m \in Range(inbound) \/ m = answer
  BY <1>1, AppendRange DEF IInv, Shapes, Wires
<1>5. \A m \in Range(wire') : AsksChosen(m)
  BY <1>3 DEF TInv
<1>6. \A m \in Range(inbound') : BringsChosen(m)
  BY <1>2, <1>4 DEF TInv
<1>7. \A s \in Scopes : Chosen(page'[s], budget')
  BY <1>1, StillChosen
<1>8. Dated(modal'.images)
  BY <1>1 DEF TInv
<1> QED
  BY <1>5, <1>6, <1>7, <1>8 DEF TInv, Used

\* A handler that answers without rows.
LEMMA TellsChoose ==
  ASSUME IInv, TInv, Used, wire # <<>>, OurChannels',
         NEW id, NEW ok, Reply(id, ok, <<>>, 0)
  PROVE  TInv'
<1> DEFINE a == [ok |-> ok, rows |-> <<>>]
<1>1. Reply(id, a.ok, a.rows, 0)
  OBVIOUS
<1>2. Brings(Request, a)
  BY DEF Brings, OfChannels, Dated, Range
<1> HIDE DEF a
<1> QED
  BY <1>1, <1>2, ReplyChooses

\* A recording stored, with its session or without, is of our channels.
LEMMA UploadChooses ==
  ASSUME IInv, RInv, TInv, Used, HandleUpload
  PROVE  TInv'
<1> DEFINE before == <<videos, images>>
           after == <<videos \cup {Request.about.video},
                      images \cup Request.about.images>>
           same == [ok |-> FALSE, table |-> before]
<1>1. PICK e \in Served(Edits(before, after), same) :
        /\ videos' = e.table[1] /\ images' = e.table[2]
        /\ Reply(Request.id, e.ok, <<>>, 0)
  BY DEF HandleUpload
<1>2. e.table = before \/ e.table = after
  BY <1>1, EditLeaves
<1>3. \/ videos' = videos /\ images' = images
      \/ /\ videos' = videos \cup {Request.about.video}
         /\ images' = images \cup Request.about.images
  BY <1>1, <1>2
<1> HIDE DEF before, after
<1>4. wire # <<>> /\ Request.type \in {"INSERT_VIDEO", "SESSION"}
  BY DEF HandleUpload, Received
<1>5. Request.about \in Uploads
  BY <1>4, TailRange DEF IInv, Shapes, Wires, Request, RInv, RequestOK
<1>6. /\ Request.about.video.channel \in Channels
      /\ \A image \in Request.about.images : image.channel \in Channels
  BY <1>5, ChannelsAssumption DEF AllImages
<1>7. OurChannels'
  BY <1>3, <1>6 DEF TInv, OurChannels
<1> QED
  BY <1>1, <1>4, <1>7, TellsChoose

\* A snapshot without a channel is refused; the others are of our channels.
LEMMA ImagesChoose ==
  ASSUME IInv, TInv, Used, HandleInsertImage \/ HandleDeleteImages
  PROVE  TInv'
<1>1. wire # <<>> /\ videos' = videos
  BY DEF HandleInsertImage, HandleDeleteImages, Received
<1>2. AsksChosen(Request)
  BY <1>1, TailRange DEF IInv, Shapes, Wires, Request, TInv
<1>3. CASE HandleInsertImage
  <2> DEFINE row == SnapshotRow(Request.about)
             same == [ok |-> FALSE, table |-> images]
  <2>1. PICK e \in Served(InsertImage(images, row), same) :
          images' = e.table /\ Reply(Request.id, e.ok, <<>>, 0)
    BY <1>3 DEF HandleInsertImage
  <2>2. row.channel \in Channels \cup {0}
    BY <1>2, <1>3 DEF HandleInsertImage, Received, SnapshotRow, AsksChosen
  <2> HIDE DEF row
  <2>3. e = same \/ (e \in Edits(images, images \cup {row})
                     /\ row.channel \in Channels)
    BY <2>1, <2>2 DEF Served, InsertImage
  <2>4. \/ images' = images
        \/ images' = images \cup {row} /\ row.channel \in Channels
    BY <2>1, <2>3, EditLeaves
  <2>5. OurChannels'
    BY <1>1, <2>4 DEF TInv, OurChannels
  <2> QED
    BY <1>1, <2>1, <2>5, TellsChoose
<1>4. CASE HandleDeleteImages
  <2> DEFINE rest == {row \in images : row.id \notin Request.about.ids}
             same == [ok |-> FALSE, table |-> images]
  <2>1. PICK e \in Served(DeleteImages(images, Request.about.ids), same) :
          images' = e.table /\ Reply(Request.id, e.ok, <<>>, 0)
    BY <1>4 DEF HandleDeleteImages
  <2>2. images' = images \/ images' = rest
    BY <2>1, EditLeaves DEF DeleteImages, Served
  <2>3. images' \subseteq images
    BY <2>2
  <2>4. OurChannels'
    BY <1>1, <2>3 DEF TInv, OurChannels
  <2> QED
    BY <1>1, <2>1, <2>4, TellsChoose
<1> QED
  BY <1>3, <1>4

\* Whatever the server does with the request it takes.
LEMMA ServerChooses == ASSUME IInv, RInv, TInv, Used, Server PROVE TInv'
<1>1. wire # <<>>
  BY DEF Server, HandleLogin, HandleQuery, HandleQueryLogList, HandleUpload,
         HandleInsertImage, HandleDeleteImages, Received
<1>2. RequestOK(Request) /\ AsksChosen(Request)
  BY <1>1, TailRange DEF IInv, Shapes, Wires, Request, RInv, TInv
<1>3. ASSUME UNCHANGED server PROVE OurChannels'
  BY <1>3 DEF server, TInv, OurChannels
<1>4. CASE HandleLogin
  BY <1>1, <1>3, <1>4, TellsChoose DEF HandleLogin
<1>5. CASE HandleQueryLogList
  <2>1. PICK answer : Reply(answer[1], answer[2], <<>>, 0)
    BY <1>5, Zenon DEF HandleQueryLogList
  <2> QED
    BY <1>1, <1>3, <1>5, <2>1, TellsChoose DEF HandleQueryLogList
<1>6. CASE HandleQuery
  <2>1. PICK a \in Served(Found(Request), Refused) :
          Reply(Request.id, a.ok, a.rows, a.total)
    BY <1>6 DEF HandleQuery
  <2>2. UNCHANGED server
        /\ Request.type \in {"VIDEO_LIST", "IMAGE_LIST", "RELATED"}
    BY <1>6 DEF HandleQuery, Received
  <2>3. Brings(Request, a)
    BY <1>2, <2>1, <2>2, FoundIsChosen DEF RInv, TInv
  <2> QED
    BY <1>1, <1>3, <2>1, <2>2, <2>3, ReplyChooses
<1> QED
  BY <1>4, <1>5, <1>6, UploadChooses, ImagesChoose DEF Server
-----------------------------------------------------------------------------
(***************************************************************************)
(* The theorem.                                                            *)
(***************************************************************************)
\* The invariant holds at the beginning, ...
LEMMA InitTInv == Init => TInv
<1> SUFFICES ASSUME Init PROVE TInv
  OBVIOUS
<1>1. Range(wire) = {} /\ Range(inbound) = {}
  <2>1. wire = <<>> /\ inbound = <<>>
    BY DEF Init, ApiInit
  <2> QED
    BY <2>1 DEF Range
<1>2. Desk
  <2>1. budget = MaxClicks /\ MaxClicks \in Nat
    BY PagesAssumption DEF Init
  <2>2. /\ tab = "monitor" /\ modal.kind = "" /\ user = NoUser
        /\ login.name = NoUser /\ "name" \in DOMAIN login
    BY DEF Init, NoModal
  <2>3. budget \in 0..MaxClicks
    BY <2>1
  <2> QED
    BY <2>2, <2>3, Zenon DEF Desk
<1>3. OurChannels
  BY ChannelsAssumption DEF Init, OurChannels, AllImages
<1>4. Dated(modal.images)
  BY DEF Init, NoModal, Dated
<1>5. /\ FreshPage.date = Today /\ FreshPage.channel = AllChannels
      /\ FreshPage.curPage = 1 /\ FreshPage.channelid = 0
      /\ FreshPage.shown.rows = <<>> /\ FreshPage.detail = {}
      /\ FreshPage.wait["related"] = 0
  BY DEF FreshPage, NoList, Kinds
<1>6. OfChannels(<<>>) /\ Dated({})
  BY DEF OfChannels, Dated
<1>7. 1 \in 1..(MaxClicks + 1 - budget)
  BY <1>2, FirstPage DEF Desk, Larger
<1>8. Chosen(FreshPage, budget)
  BY <1>5, <1>6, <1>7, ReviewAssumption DEF Chosen
<1>9. \A s \in Scopes : page[s] = FreshPage
  BY DEF Init
<1> QED
  BY <1>1, <1>2, <1>3, <1>4, <1>8, <1>9 DEF TInv

\* ... is kept by every step, ...
LEMMA TInvStep ==
  ASSUME IInv, RInv, TInv, DialogOfPage, [Next]_vars
  PROVE  TInv'
<1>1. Used
  BY DeskStep DEF TInv, Used
<1>2. CASE Server
  BY <1>1, <1>2, ServerChooses
<1>3. CASE RecordingFinished \/ SwitchToLog \/ ClickLog \/ Login
  BY <1>1, <1>3, WindowClicksChoose
<1>4. CASE \E s \in Scopes : SwitchToReview(s)
  <2>1. UNCHANGED server
    BY <1>4 DEF SwitchToReview
  <2> QED
    BY <1>1, <1>4, <2>1, LoadClicksChoose
<1>5. CASE ReviewAnswer
  BY <1>1, <1>5, ListsChoose, InsertChooses, LoadingAnswersChoose
     DEF ReviewAnswer
<1>6. CASE ReviewStep
  <2>1. UNCHANGED server
    BY <1>6 DEF ReviewStep
  <2>2. ASSUME NEW s \in Scopes, ReviewClick(s) PROVE TInv'
    BY <1>1, <2>1, <2>2, LoadClicksChoose, PlayerChooses, WindowsChoose
       DEF ReviewClick
  <2>3. CASE CloseDialog
    BY <1>1, <2>1, <2>3, WindowsChoose
  <2>4. CASE ConfirmDelete \/ AskRelated \/ SaveFrame
    BY <1>1, <2>1, <2>4, DialogAsksChoose
  <2> QED
    BY <1>6, <2>2, <2>3, <2>4 DEF ReviewStep
<1>7. CASE \/ LinkUp \/ LinkLost \/ OnLoginFinished \/ OnLogListFinished
           \/ OnUploadFinished \/ OpenLogin \/ UNCHANGED vars
           \/ \E t \in PlainTabs : SwitchTo(t)
  <2>1. UNCHANGED server
    BY <1>7 DEF LinkUp, LinkLost, OnLoginFinished, OnLogListFinished,
                OnUploadFinished, OpenLogin, SwitchTo, vars
  <2> QED
    BY <1>1, <1>7, <2>1, WindowsChoose
<1> QED
  BY <1>2, <1>3, <1>4, <1>5, <1>6, <1>7 DEF Next, UserStep, Answers

\* ... and so holds always.
LEMMA TInvHolds == Spec => []TInv
<1>1. (IInv /\ DialogOfPage) /\ RInv /\ TInv /\ [Next]_vars => TInv'
  BY TInvStep
<1> QED
  BY <1>1, InitTInv, IInvHolds, RInvHolds, PTL DEF Spec

\* The controls of a page only ever show a day and a channel the user could
\* have chosen, also when a related video or an answer has set them, and its
\* page number stays within what the clicks so far allow (refreshData,
\* switchRecordMode, onRelatedVideoFinished and the page buttons).
THEOREM TypeCorrect == Spec => []TypeOK
<1>1. ASSUME IInv, TInv PROVE TypeOK
  <2>1. /\ link \in {"connecting", "up", "down"}
        /\ nextRequestId \in Nat \ {0}
    BY <1>1 DEF IInv, Shapes, Numbered
  <2>2. \A m \in Messages : m.id < nextRequestId
    BY <1>1, <2>1 DEF IInv, Numbered
  <2>3. /\ tab \in {"monitor", "setting", "log"} \cup Scopes
        /\ modal.kind \in {"", "login", "delete", "preview", "save"}
        /\ user \in Users \cup {NoUser}
    BY <1>1, Zenon DEF TInv, Desk
  <2>4. ASSUME NEW s \in Scopes
        PROVE  /\ page[s].mode \in {"video", "image"}
               /\ page[s].date \in Dates
               /\ page[s].channel \in Channels \cup {AllChannels}
               /\ page[s].curPage \in 1..(MaxClicks + 1)
    <3>1. page[s].mode \in {"video", "image"}
      BY <1>1 DEF IInv, Shapes, IsPage
    <3>2. Chosen(page[s], budget)
      BY <1>1 DEF TInv
    <3>3. budget \in 0..MaxClicks /\ MaxClicks \in Nat
      BY <1>1, PagesAssumption DEF TInv, Desk
    <3>4. page[s].curPage \in 1..(MaxClicks + 1)
      BY <3>2, <3>3 DEF Chosen
    <3> QED
      BY <3>1, <3>2, <3>4 DEF Chosen
  <2> QED
    BY <2>1, <2>2, <2>3, <2>4 DEF TypeOK
<1> QED
  BY <1>1, IInvHolds, TInvHolds, PTL
=============================================================================
