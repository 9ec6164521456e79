-------------------------- MODULE ClientPagesProofs --------------------------
(***************************************************************************)
(* Proofs about ClientPages, for any tables, days, channels, users,        *)
(* recordings and page sizes.                                              *)
(***************************************************************************)
EXTENDS ClientPages, SequenceTheorems, TLAPS

(***************************************************************************)
(* The network.  What is on it is of no one type, so a sequence is one of  *)
(* its own elements.                                                       *)
(***************************************************************************)
Wires ==
  /\ wire \in Seq(Range(wire))
  /\ inbound \in Seq(Range(inbound))

\* What is left of a queue when its first element is taken.
LEMMA TailRange ==
  ASSUME NEW s, s \in Seq(Range(s)), s # <<>>
  PROVE  /\ Tail(s) \in Seq(Range(Tail(s)))
         /\ Head(s) \in Range(s)
         /\ Range(s) = {Head(s)} \cup Range(Tail(s))
<1> DEFINE t == Tail(s)
<1>1. /\ t \in Seq(Range(s)) /\ Head(s) = s[1]
      /\ Len(t) = Len(s) - 1
      /\ \A i \in 1..Len(t) : t[i] = s[i + 1]
  BY HeadTailProperties
<1>2. Len(s) \in Nat \ {0} /\ DOMAIN s = 1..Len(s)
  BY EmptySeq, LenProperties
<1>3. Len(t) \in Nat /\ DOMAIN t = 1..Len(t)
  BY <1>1, LenProperties
<1> HIDE DEF t
<1>4. t \in Seq(Range(t))
  BY <1>1, SeqOfRange
<1>5. Head(s) \in Range(s)
  BY <1>1, <1>2 DEF Range
<1>6. ASSUME NEW m \in Range(s) PROVE m = Head(s) \/ m \in Range(t)
  <2>1. PICK i \in 1..Len(s) : m = s[i]
    BY <1>2, <1>6 DEF Range
  <2>2. CASE i = 1
    BY <1>1, <2>1, <2>2
  <2>3. CASE i # 1
    <3>1. i - 1 \in 1..Len(t) /\ (i - 1) + 1 = i
      BY <1>1, <1>2, <2>3
    <3>2. m = t[i - 1]
      BY <1>1, <2>1, <3>1
    <3> QED
      BY <1>3, <3>1, <3>2 DEF Range
  <2> QED
    BY <2>2, <2>3
<1>7. ASSUME NEW m \in Range(t) PROVE m \in Range(s)
  <2>1. PICK i \in 1..Len(t) : m = t[i]
    BY <1>3, <1>7 DEF Range
  <2>2. m = s[i + 1] /\ i + 1 \in 1..Len(s)
    BY <1>1, <1>2, <2>1
  <2> QED
    BY <1>2, <2>2 DEF Range
<1> QED
  BY <1>4, <1>5, <1>6, <1>7 DEF t

\* A queue to which an element was added.
LEMMA AppendRange ==
  ASSUME NEW s, s \in Seq(Range(s)), NEW e
  PROVE  /\ Append(s, e) \in Seq(Range(Append(s, e)))
         /\ Range(Append(s, e)) = Range(s) \cup {e}
<1> DEFINE S == Range(s) \cup {e}
<1>1. s \in Seq(S)
  BY SeqMonotonic
<1>2. e \in S
  OBVIOUS
<1> HIDE DEF S
<1>3. /\ Append(s, e) \in Seq(S)
      /\ Append(s, e) = s \o <<e>>
  BY <1>1, <1>2, AppendProperties, AppendIsConcat
<1>4. <<e>> \in Seq(S)
  BY <1>2
<1>5. Range(Append(s, e)) = Range(s) \cup Range(<<e>>)
  BY <1>1, <1>3, <1>4, RangeConcatenation
<1>6. Range(<<e>>) = {e}
  BY DEF Range
<1>7. Append(s, e) \in Seq(Range(Append(s, e)))
  BY <1>3, SeqOfRange
<1> QED
  BY <1>5, <1>6, <1>7

\* What Send does with n copies of a request.
Message(i, r) ==
  [id |-> nextRequestId + i - 1, type |-> r.type, about |-> r.about,
   token |-> token]

Sent(n, r) ==
  /\ link = "up"
  /\ nextRequestId' = nextRequestId + n
  /\ wire' \in Seq(Range(wire'))
  /\ Range(wire') = Range(wire) \cup {Message(i, r) : i \in 1..n}

\* Send, for several copies and for one.
LEMMA SendCopies ==
  ASSUME Wires, NEW n \in Nat \ {0}, NEW r, Send([i \in 1..n |-> r])
  PROVE  Sent(n, r)
<1> DEFINE rs == [i \in 1..n |-> r]
           new == [i \in 1..n |-> Message(i, r)]
           S == Range(wire) \cup {Message(i, r) : i \in 1..n}
<1>1. rs \in Seq({r}) /\ Len(rs) = n
  BY IsASeq
<1>2. nextRequestId' = nextRequestId + n /\ link = "up"
  BY <1>1 DEF Send, IsConnected
<1>3. wire' = wire \o new
  BY DEF Send, Message
<1>4. new \in Seq(S)
  <2>1. \A i \in 1..n : Message(i, r) \in S
    OBVIOUS
  <2> HIDE DEF S
  <2> QED
    BY <2>1, IsASeq
<1>5. wire \in Seq(S)
  BY SeqMonotonic DEF Wires
<1>6. Range(new) = {Message(i, r) : i \in 1..n}
  BY DEF Range
<1> HIDE DEF new, S
<1>7. Range(wire') = Range(wire) \cup Range(new)
  BY <1>3, <1>4, <1>5, RangeConcatenation
<1>8. wire' \in Seq(S)
  BY <1>3, <1>4, <1>5, ConcatProperties
<1>9. wire' \in Seq(Range(wire'))
  BY <1>8, SeqOfRange
<1> QED
  BY <1>2, <1>6, <1>7, <1>9 DEF Sent

\* One request is a batch of one.
LEMMA SendOne == ASSUME Wires, NEW r, Send(<<r>>) PROVE Sent(1, r)
<1>1. ASSUME NEW n \in Nat \ {0}, n = 1 PROVE Sent(n, r)
  <2>1. <<r>> = [i \in 1..n |-> r]
    BY <1>1
  <2>2. Send([i \in 1..n |-> r])
    BY <2>1
  <2> QED
    BY <2>2, SendCopies
<1> QED
  BY <1>1
-----------------------------------------------------------------------------
(***************************************************************************)
(* The pages.  A page is a record; what a step leaves of it is said field  *)
(* by field.                                                               *)
(***************************************************************************)
PageFields ==
  {"mode", "date", "channel", "curPage", "totalPage", "loading", "shown",
   "detail", "wait", "pendingDelete", "pendingTime", "path", "channelid",
   "loaded", "frame", "late", "opened"}

IsPage(p) ==
  /\ DOMAIN p = PageFields
  /\ DOMAIN p.wait = Kinds
  /\ p.mode \in {"video", "image"}

\* The list of q is the list of p, under what may be other controls.
SameRows(q, p) == q.shown = p.shown /\ q.loading = p.loading

SameControls(q, p) ==
  /\ q.mode = p.mode /\ q.date = p.date /\ q.channel = p.channel
  /\ q.curPage = p.curPage

\* What the steps below need to read a field of a changed record.
LEMMA Fields == \A p : IsPage(p) => \A f \in PageFields : f \in DOMAIN p
BY DEF IsPage

\* A page as the constructor leaves it.
LEMMA FreshIsPage ==
  /\ IsPage(FreshPage)
  /\ FreshPage.shown = NoList /\ FreshPage.loading = FALSE
  /\ \A k \in Kinds : FreshPage.wait[k] = 0
BY DEF FreshPage, IsPage, PageFields

\* q is p, of which the list n was asked for by the number id.
LoadedFrom(q, p, n, id) ==
  /\ IsPage(q)
  /\ q.mode = p.mode /\ q.date = p.date /\ q.channel = p.channel
  /\ q.curPage = Larger(1, n) /\ q.shown = NoList /\ q.loading = TRUE
  /\ q.wait[ListKind(p.mode)] = id
  /\ \A k \in Kinds \ {ListKind(p.mode)} : q.wait[k] = p.wait[k]

\* Loading sets page, list and number, and nothing else.
LEMMA LoadingPage ==
  ASSUME NEW p, IsPage(p), NEW n, NEW id, NEW q, q = Loading(p, n, id)
  PROVE  LoadedFrom(q, p, n, id)
<1>1. \A f \in PageFields : f \in DOMAIN p
  BY Fields
<1>2. DOMAIN q = DOMAIN p
  BY Zenon DEF Loading
<1>3. q.mode = p.mode /\ q.date = p.date /\ q.channel = p.channel
  BY <1>1, Zenon DEF Loading, PageFields
<1>4. q.curPage = Larger(1, n) /\ q.shown = NoList /\ q.loading = TRUE
  BY <1>1, Zenon DEF Loading, PageFields
<1>5. q.wait = [p.wait EXCEPT ![ListKind(p.mode)] = id]
  BY <1>1, Zenon DEF Loading, PageFields
<1>6. ListKind(p.mode) \in Kinds
  BY DEF ListKind, Kinds
<1>7. /\ DOMAIN q.wait = Kinds /\ q.wait[ListKind(p.mode)] = id
      /\ \A k \in Kinds \ {ListKind(p.mode)} : q.wait[k] = p.wait[k]
  BY <1>5, <1>6 DEF IsPage
<1>8. IsPage(q)
  BY <1>2, <1>3, <1>7 DEF IsPage
<1> QED
  BY <1>3, <1>4, <1>7, <1>8 DEF LoadedFrom

\* What Loading does to a page, field by field.
LEMMA LoadingFrom ==
  \A p, n, id : IsPage(p) => LoadedFrom(Loading(p, n, id), p, n, id)
<1> TAKE p, n, id
<1> HAVE IsPage(p)
<1> DEFINE q == Loading(p, n, id)
<1>1. q = Loading(p, n, id)
  OBVIOUS
<1> HIDE DEF q
<1>2. LoadedFrom(q, p, n, id)
  BY <1>1, LoadingPage, Zenon
<1> QED
  BY <1>1, <1>2, Zenon

\* A page whose controls were set, or that was reset.
LEMMA SetPage ==
  ASSUME NEW p, IsPage(p), NEW e
  PROVE  /\ LET q == [p EXCEPT !.date = e] IN
            IsPage(q) /\ SameRows(q, p) /\ q.wait = p.wait
         /\ LET q == [p EXCEPT !.channel = e] IN
            IsPage(q) /\ SameRows(q, p) /\ q.wait = p.wait
         /\ e \in {"video", "image"} =>
            LET q == [p EXCEPT !.mode = e] IN
            IsPage(q) /\ SameRows(q, p) /\ q.wait = p.wait
<1>1. \A f \in PageFields : f \in DOMAIN p
  BY Fields
<1>2. \A q : /\ DOMAIN q = DOMAIN p /\ q.wait = p.wait
             /\ q.mode = p.mode \/ q.mode \in {"video", "image"}
             => IsPage(q)
  BY DEF IsPage
<1> QED
  BY <1>1, <1>2, Zenon DEF SameRows, PageFields

\* resetPreview leaves list and controls alone.
LEMMA ResetPage ==
  ASSUME NEW p, IsPage(p)
  PROVE  LET q == ResetPreview(p) IN
         /\ IsPage(q) /\ SameRows(q, p) /\ SameControls(q, p)
         /\ q.wait = p.wait
<1> DEFINE q == ResetPreview(p)
<1>1. \A f \in PageFields : f \in DOMAIN p
  BY Fields
<1>2. DOMAIN q = DOMAIN p
  BY Zenon DEF ResetPreview
<1>3. SameRows(q, p) /\ SameControls(q, p) /\ q.wait = p.wait
  BY <1>1, Zenon DEF SameRows, SameControls, ResetPreview, PageFields
<1> HIDE DEF q
<1>4. IsPage(q)
  BY <1>2, <1>3 DEF IsPage, SameControls
<1> QED
  BY <1>3, <1>4 DEF q

\* What any of the pages a list is loaded for has of the page before.
Reloaded(q, p) ==
  /\ IsPage(q) /\ SameRows(q, p)
  /\ \A k \in Kinds : q.wait[k] \in {p.wait[k], 0}

\* Only its controls are set, or it has also heard an answer of the kind.
Reset(q, p) == IsPage(q) /\ SameRows(q, p) /\ q.wait = p.wait

Answered(q, p, kind) ==
  IsPage(q) /\ SameRows(q, p) /\ q.wait = [p.wait EXCEPT ![kind] = 0]

\* What LoadToday loads.
LEMMA TodayPage ==
  ASSUME NEW p, NEW q, Reset(q, p), NEW d
  PROVE  Reset([ResetPreview(q) EXCEPT !.date = d], p)
<1> DEFINE r == ResetPreview(q)
<1>1. Reset(r, q)
  BY ResetPage DEF Reset
<1> HIDE DEF r
<1> DEFINE t == [r EXCEPT !.date = d]
<1>2. IsPage(t) /\ SameRows(t, r) /\ t.wait = r.wait
  BY <1>1, SetPage DEF Reset
<1> HIDE DEF t
<1>3. Reset(t, p)
  BY <1>1, <1>2 DEF Reset, SameRows
<1> QED
  BY <1>3 DEF t, r

\* What ChangeDate, ChangeChannel and SwitchRecordMode load.
LEMMA ControlledPage ==
  ASSUME NEW p, IsPage(p), NEW e
  PROVE  /\ Reset([ResetPreview(p) EXCEPT !.date = e], p)
         /\ Reset([ResetPreview(p) EXCEPT !.channel = e], p)
         /\ e \in {"video", "image"} => Reset([p EXCEPT !.mode = e], p)
<1>1. Reset(p, p)
  BY DEF Reset, SameRows
<1> DEFINE r == ResetPreview(p)
<1>2. Reset(r, p)
  BY ResetPage DEF Reset
<1> HIDE DEF r
<1> DEFINE t == [r EXCEPT !.channel = e]
<1>3. IsPage(t) /\ SameRows(t, r) /\ t.wait = r.wait
  BY <1>2, SetPage DEF Reset
<1> HIDE DEF t
<1>4. Reset(t, p)
  BY <1>2, <1>3 DEF Reset, SameRows
<1>5. e \in {"video", "image"} => Reset([p EXCEPT !.mode = e], p)
  BY SetPage DEF Reset
<1> QED
  BY <1>1, <1>4, <1>5, TodayPage, Zenon DEF t, r

\* The page of a related video, and the one images were deleted of.
LEMMA RelatedPage ==
  ASSUME NEW p, IsPage(p), NEW video
  PROVE  Answered(ShowingRelated(p, video), p, "related")
<1> DEFINE r == ResetPreview(p)
           q == [r EXCEPT
                  !.wait["related"] = 0, !.mode = "video",
                  !.date = Day(p.pendingTime), !.channel = video.channel,
                  !.path = video.path, !.channelid = video.channel]
           o == OpenedAt(q, video)
<1>1. IsPage(r) /\ SameRows(r, p) /\ r.wait = p.wait
  BY ResetPage
<1> HIDE DEF r
<1>2. \A f \in PageFields : f \in DOMAIN r
  BY <1>1, Fields
<1>3. DOMAIN q = DOMAIN r
  BY Zenon
<1>4. SameRows(q, r) /\ q.mode = "video"
  BY <1>2, Zenon DEF SameRows, PageFields
<1>5. q.wait = [r.wait EXCEPT !["related"] = 0]
  BY <1>2, Zenon DEF PageFields
<1>6. o = ShowingRelated(p, video)
  BY Zenon DEF ShowingRelated, r
<1> HIDE DEF q
<1>7. IsPage(q) /\ \A k \in Kinds : q.wait[k] \in {r.wait[k], 0}
  BY <1>1, <1>3, <1>4, <1>5 DEF IsPage
<1>8. \A f \in PageFields : f \in DOMAIN q
  BY <1>7, Fields
<1>9. DOMAIN o = DOMAIN q
  BY Zenon DEF OpenedAt
<1>10. SameRows(o, q) /\ o.wait = q.wait /\ o.mode = q.mode
  BY <1>8, Zenon DEF OpenedAt, SameRows, PageFields
<1> HIDE DEF o
<1>11. Answered(o, p, "related")
  BY <1>1, <1>4, <1>5, <1>7, <1>9, <1>10 DEF Answered, IsPage, SameRows
<1> QED
  BY <1>6, <1>11

\* The page that takes the answer to its deletion.
LEMMA DeletedPage ==
  ASSUME NEW p, IsPage(p)
  PROVE  Answered([p EXCEPT !.wait["delete"] = 0, !.pendingDelete = {},
                            !.path = NoPath], p, "delete")
<1> DEFINE q == [p EXCEPT !.wait["delete"] = 0, !.pendingDelete = {},
                          !.path = NoPath]
<1>1. \A f \in PageFields : f \in DOMAIN p
  BY Fields
<1>2. DOMAIN q = DOMAIN p
  BY Zenon
<1>3. SameRows(q, p) /\ q.mode = p.mode
  BY <1>1, Zenon DEF SameRows, PageFields
<1>4. q.wait = [p.wait EXCEPT !["delete"] = 0]
  BY <1>1, Zenon DEF PageFields
<1> HIDE DEF q
<1>5. IsPage(q) /\ \A k \in Kinds : q.wait[k] \in {p.wait[k], 0}
  BY <1>2, <1>3, <1>4 DEF IsPage
<1>6. Answered(q, p, "delete")
  BY <1>3, <1>4, <1>5 DEF Answered
<1> QED
  BY <1>6 DEF q

\* A page on which only a file or a dialog has moved, ...
Untouched(q, p) ==
  IsPage(q) /\ SameRows(q, p) /\ SameControls(q, p) /\ q.wait = p.wait

\* ... or that waits for something else than a list, or no more.
Waits(q, p, kind, id) ==
  /\ IsPage(q) /\ SameRows(q, p) /\ SameControls(q, p)
  /\ q.wait[kind] = id
  /\ \A k \in Kinds \ {kind} : q.wait[k] = p.wait[k]

\* SelectItem, Play and VideoFrame.
LEMMA MovedPage ==
  ASSUME NEW p, IsPage(p), NEW a, NEW b, NEW c
  PROVE  /\ Untouched([p EXCEPT !.path = a, !.channelid = b, !.late = c,
                                !.loaded = NoPath, !.frame = NoPath], p)
         /\ Untouched([p EXCEPT !.loaded = a], p)
         /\ Untouched([p EXCEPT !.frame = a, !.late = b], p)
<1>1. \A f \in PageFields : f \in DOMAIN p
  BY Fields
<1>2. ASSUME NEW q, DOMAIN q = DOMAIN p, SameRows(q, p), SameControls(q, p),
             q.wait = p.wait
      PROVE  Untouched(q, p)
  BY <1>2 DEF Untouched, IsPage, SameControls
<1>3. LET q == [p EXCEPT !.path = a, !.channelid = b, !.late = c,
                         !.loaded = NoPath, !.frame = NoPath]
      IN  /\ DOMAIN q = DOMAIN p /\ SameRows(q, p) /\ SameControls(q, p)
          /\ q.wait = p.wait
  BY <1>1, Zenon DEF SameRows, SameControls, PageFields
<1>4. LET q == [p EXCEPT !.loaded = a]
      IN  /\ DOMAIN q = DOMAIN p /\ SameRows(q, p) /\ SameControls(q, p)
          /\ q.wait = p.wait
  BY <1>1, Zenon DEF SameRows, SameControls, PageFields
<1>5. LET q == [p EXCEPT !.frame = a, !.late = b]
      IN  /\ DOMAIN q = DOMAIN p /\ SameRows(q, p) /\ SameControls(q, p)
          /\ q.wait = p.wait
  BY <1>1, Zenon DEF SameRows, SameControls, PageFields
<1> QED
  BY <1>2, <1>3, <1>4, <1>5, Zenon

\* The requests that are not for a list, and their answers.
LEMMA WaitingPage ==
  ASSUME NEW p, IsPage(p), NEW kind \in Kinds, NEW id, NEW a
  PROVE  /\ Waits([p EXCEPT !.wait[kind] = id], p, kind, id)
         /\ Waits([p EXCEPT !.pendingTime = a, !.wait[kind] = id], p, kind, id)
         /\ Waits([p EXCEPT !.pendingDelete = a, !.wait[kind] = id],
                  p, kind, id)
         /\ Waits([p EXCEPT !.wait[kind] = id, !.pendingDelete = a],
                  p, kind, id)
<1>1. \A f \in PageFields : f \in DOMAIN p
  BY Fields
<1>2. ASSUME NEW q, DOMAIN q = DOMAIN p, SameRows(q, p), SameControls(q, p),
             q.wait = [p.wait EXCEPT ![kind] = id]
      PROVE  Waits(q, p, kind, id)
  BY <1>2 DEF Waits, IsPage, SameControls
<1>3. LET q == [p EXCEPT !.wait[kind] = id]
      IN  /\ DOMAIN q = DOMAIN p /\ SameRows(q, p) /\ SameControls(q, p)
          /\ q.wait = [p.wait EXCEPT ![kind] = id]
  BY <1>1, Zenon DEF SameRows, SameControls, PageFields
<1>4. LET q == [p EXCEPT !.pendingTime = a, !.wait[kind] = id]
      IN  /\ DOMAIN q = DOMAIN p /\ SameRows(q, p) /\ SameControls(q, p)
          /\ q.wait = [p.wait EXCEPT ![kind] = id]
  BY <1>1, Zenon DEF SameRows, SameControls, PageFields
<1>5. LET q == [p EXCEPT !.pendingDelete = a, !.wait[kind] = id]
      IN  /\ DOMAIN q = DOMAIN p /\ SameRows(q, p) /\ SameControls(q, p)
          /\ q.wait = [p.wait EXCEPT ![kind] = id]
  BY <1>1, Zenon DEF SameRows, SameControls, PageFields
<1>6. LET q == [p EXCEPT !.wait[kind] = id, !.pendingDelete = a]
      IN  /\ DOMAIN q = DOMAIN p /\ SameRows(q, p) /\ SameControls(q, p)
          /\ q.wait = [p.wait EXCEPT ![kind] = id]
  BY <1>1, Zenon DEF SameRows, SameControls, PageFields
<1> QED
  BY <1>2, <1>3, <1>4, <1>5, <1>6, Zenon

\* A list is heard by the page it is for, or by one that has gone on.
LEMMA HeardPage ==
  ASSUME NEW p, IsPage(p), NEW mode \in {"video", "image"}
  PROVE  LET q == ListFinished(p, mode) IN
         /\ p.mode # mode => Waits(q, p, ListKind(mode), 0)
         /\ p.mode = mode =>
              /\ IsPage(q) /\ SameControls(q, p) /\ q.loading = FALSE
              /\ \/ q.shown = NoList
                 \/ q.shown = [query |-> Answer.about, rows |-> Answer.rows]
              /\ q.wait[ListKind(mode)] = 0
              /\ \A k \in Kinds \ {ListKind(mode)} : q.wait[k] = p.wait[k]
<1> DEFINE heard == [p EXCEPT !.wait[ListKind(mode)] = 0]
           q == ListFinished(p, mode)
<1>0. ListKind(mode) \in Kinds
  BY DEF ListKind, Kinds
<1>1. Waits(heard, p, ListKind(mode), 0)
  BY <1>0, WaitingPage, Zenon
<1>2. CASE p.mode # mode
  <2>1. q = heard
    BY <1>2, Zenon DEF ListFinished
  <2> QED
    BY <1>1, <1>2, <2>1, Zenon
<1>3. CASE p.mode = mode
  <2>1. q = [heard EXCEPT
               !.loading = FALSE,
               !.shown = IF Answer.ok
                         THEN [query |-> Answer.about, rows |-> Answer.rows]
                         ELSE NoList,
               !.detail = IF Answer.ok /\ mode = "image"
                          THEN Range(Answer.rows) ELSE {},
               !.totalPage = IF Answer.ok THEN PageCount(Answer.total)
                             ELSE p.curPage]
    BY <1>3, Zenon DEF ListFinished
  <2> HIDE DEF heard, q
  <2>2. \A f \in PageFields : f \in DOMAIN heard
    BY <1>1, Fields DEF Waits
  <2>3. /\ DOMAIN q = DOMAIN heard /\ SameControls(q, heard)
        /\ q.wait = heard.wait /\ q.loading = FALSE
        /\ q.shown = IF Answer.ok
                     THEN [query |-> Answer.about, rows |-> Answer.rows]
                     ELSE NoList
    BY <2>1, <2>2, Zenon DEF SameControls, PageFields
  <2>4. /\ IsPage(q) /\ SameControls(q, p) /\ q.loading = FALSE
        /\ \/ q.shown = NoList
           \/ q.shown = [query |-> Answer.about, rows |-> Answer.rows]
        /\ q.wait[ListKind(mode)] = 0
        /\ \A k \in Kinds \ {ListKind(mode)} : q.wait[k] = p.wait[k]
    BY <1>1, <2>3 DEF Waits, IsPage, SameControls
  <2> QED
    BY <1>3, <2>4 DEF q
<1> QED
  BY <1>2, <1>3
-----------------------------------------------------------------------------
(***************************************************************************)
(* The inductive invariant.  A slot is a place where the client keeps the  *)
(* number of what it waits for.                                            *)
(***************************************************************************)
Slots == (Kinds \X Scopes) \cup {<<"login", "login">>, <<"log", "log">>}

Number(x) ==
  IF x[1] = "login" THEN login.wait
  ELSE IF x[1] = "log" THEN log.wait
  ELSE page[x[2]].wait[x[1]]

Shapes ==
  /\ Wires
  /\ link \in {"connecting", "up", "down"}
  /\ DOMAIN page = Scopes
  /\ \A s \in Scopes : IsPage(page[s])
  /\ "wait" \in DOMAIN login
  /\ "wait" \in DOMAIN log

\* Numbers are given out once, and in order.
Numbered ==
  /\ nextRequestId \in Nat \ {0}
  /\ \A m \in Messages : m.id \in 0..(nextRequestId - 1)
  /\ \A x \in Slots : Number(x) \in 0..(nextRequestId - 1)
  /\ \A x, y \in Slots : Number(x) = Number(y) /\ Number(x) # 0 => x = y

\* What is waited for is on its way.
OnItsWay ==
  link = "up" =>
    \A x \in Slots : x[1] # "log" /\ Number(x) # 0 =>
      \E m \in Messages : m.id = Number(x) /\ m.type = TypeOf(x[1])

QueryOf(s, p) ==
  [scope |-> s, date |-> p.date, channel |-> p.channel, page |-> p.curPage]

ListNumber(p) == p.wait[ListKind(p.mode)]

\* A list is what the controls say, and so will be the one awaited.
Matches(s) ==
  link = "up" =>
    /\ page[s].loading = TRUE <=> ListNumber(page[s]) # 0
    /\ page[s].loading \in BOOLEAN
    /\ page[s].shown # NoList =>
         page[s].shown.query = QueryOf(s, page[s])
    /\ ListNumber(page[s]) # 0 =>
         \A m \in Messages : m.id = ListNumber(page[s]) =>
           m.about = QueryOf(s, page[s])

\* Before the connection is made nothing is asked.
Idle ==
  link = "connecting" =>
    /\ \A x \in Slots : Number(x) = 0
    /\ \A s \in Scopes : page[s].loading = FALSE /\ page[s].shown = NoList

IInv ==
  /\ Shapes
  /\ Numbered
  /\ OnItsWay
  /\ \A s \in Scopes : Matches(s)
  /\ Idle

\* The slots, one by one.
LEMMA SlotForms ==
  /\ \A k \in Kinds, s \in Scopes :
       <<k, s>> \in Slots /\ Number(<<k, s>>) = page[s].wait[k]
  /\ <<"login", "login">> \in Slots /\ <<"log", "log">> \in Slots
  /\ Number(<<"login", "login">>) = login.wait
  /\ Number(<<"log", "log">>) = log.wait
  /\ \A x \in Slots : \/ \E k \in Kinds, s \in Scopes : x = <<k, s>>
                      \/ x = <<"login", "login">>
                      \/ x = <<"log", "log">>
BY DEF Slots, Number, Kinds

\* The invariant holds at the beginning.
LEMMA InitIInv == Init => IInv
<1> SUFFICES ASSUME Init PROVE IInv
  OBVIOUS
<1>1. wire = <<>> /\ inbound = <<>> /\ nextRequestId = 1 /\ link = "connecting"
  BY DEF Init, ApiInit
<1>2. Messages = {}
  BY <1>1 DEF Messages, Range
<1>3. Wires
  BY <1>1, EmptySeq DEF Wires
<1>4. DOMAIN page = Scopes /\ \A s \in Scopes : page[s] = FreshPage
  BY DEF Init
<1>5. /\ "wait" \in DOMAIN login /\ login.wait = 0
      /\ "wait" \in DOMAIN log /\ log.wait = 0
  BY DEF Init
<1>6. \A x \in Slots : Number(x) = 0
  BY <1>4, <1>5, SlotForms, FreshIsPage
<1>7. Shapes
  BY <1>1, <1>3, <1>4, <1>5, FreshIsPage DEF Shapes
<1>8. Numbered
  BY <1>1, <1>2, <1>6 DEF Numbered
<1>9. OnItsWay /\ \A s \in Scopes : Matches(s)
  BY <1>1 DEF OnItsWay, Matches
<1>10. Idle
  BY <1>4, <1>6, FreshIsPage DEF Idle
<1> QED
  BY <1>7, <1>8, <1>9, <1>10 DEF IInv
-----------------------------------------------------------------------------
(***************************************************************************)
(* What a step does to the numbers and to what is on its way.              *)
(***************************************************************************)
\* A step waits in this slot for what it asks.
Asked(x) ==
  /\ link = "up"
  /\ Number(x)' \in nextRequestId..(nextRequestId' - 1)
  /\ \E m \in Messages' : m.id = Number(x)' /\ m.type = TypeOf(x[1])

\* Nothing is on its way that was not before, but answers without a number
\* and what the step asks.
Flow ==
  /\ nextRequestId' \in Nat /\ nextRequestId' >= nextRequestId
  /\ \A m \in Messages' :
       \/ m.id = 0
       \/ \E o \in Messages : o.id = m.id /\ o.about = m.about
       \/ m.id \in nextRequestId..(nextRequestId' - 1)

\* A step that keeps the invariant, and makes up no message.
Goes == IInv' /\ Flow

\* What a slot goes on to wait for stays on its way.
StaysOnItsWay ==
  \A x \in Slots :
    x[1] # "log" /\ Number(x)' = Number(x) /\ Number(x) # 0 =>
      \A o \in Messages : o.id = Number(x) /\ o.type = TypeOf(x[1]) =>
        \E m \in Messages' : m.id = o.id /\ m.type = o.type

\* The numbers, from what a step does to slots and messages.
LEMMA NumbersStep ==
  ASSUME IInv, Flow, link' = link,
         \A x \in Slots :
           Number(x)' = Number(x) \/ Number(x)' = 0 \/ Asked(x),
         \A x, y \in Slots : Asked(x) /\ Asked(y) => x = y,
         link = "up" => StaysOnItsWay
  PROVE  /\ Numbered' /\ OnItsWay'
         /\ link = "connecting" => \A x \in Slots : Number(x)' = 0
<1> USE DEF IInv, Numbered
<1>1. nextRequestId' \in Nat \ {0}
  BY DEF Flow
<1>2. \A m \in Messages' : m.id \in 0..(nextRequestId' - 1)
  BY <1>1 DEF Flow
<1>3. \A x \in Slots : Number(x)' \in 0..(nextRequestId' - 1)
  BY <1>1 DEF Flow, Asked
<1>4. ASSUME NEW x \in Slots, NEW y \in Slots,
             Number(x)' = Number(y)', Number(x)' # 0
      PROVE  x = y
  <2>1. Asked(x) \/ (Number(x)' = Number(x) /\ Number(x)' < nextRequestId)
    BY <1>4
  <2>2. Asked(y) \/ (Number(y)' = Number(y) /\ Number(y)' < nextRequestId)
    BY <1>4
  <2>3. CASE Asked(x) /\ Asked(y)
    BY <2>3
  <2>4. CASE Number(x)' = Number(x) /\ Number(y)' = Number(y)
    BY <1>4, <2>4
  <2>5. CASE /\ Asked(x)
             /\ Number(y)' = Number(y) /\ Number(y)' < nextRequestId
    BY <1>4, <2>5 DEF Asked
  <2>6. CASE /\ Asked(y)
             /\ Number(x)' = Number(x) /\ Number(x)' < nextRequestId
    BY <1>4, <2>6 DEF Asked
  <2> QED
    BY <2>1, <2>2, <2>3, <2>4, <2>5, <2>6
<1>5. Numbered'
  BY <1>1, <1>2, <1>3, <1>4
<1>6. OnItsWay'
  BY DEF OnItsWay, StaysOnItsWay, Asked
<1>7. link = "connecting" => \A x \in Slots : Number(x)' = 0
  BY DEF Idle, Asked
<1> QED
  BY <1>5, <1>6, <1>7

\* A step of the client: it may take an answer, and may ask something.
LEMMA ClientFlow ==
  ASSUME IInv, NEW n \in Nat \ {0}, NEW r,
         UNCHANGED <<nextRequestId, wire>> \/ Sent(n, r),
         inbound' = inbound \/ (inbound # <<>> /\ inbound' = Tail(inbound))
  PROVE  /\ Wires' /\ Flow
         /\ \A m \in Messages :
              m \in Messages' \/ (inbound' # inbound /\ m = Answer)
         /\ Sent(n, r) =>
              /\ LastId(n) \in nextRequestId..(nextRequestId' - 1)
              /\ \E m \in Messages' : m.id = LastId(n) /\ m.type = r.type
              /\ \A m \in Messages' :
                   m.id = LastId(n) => m.about = r.about
<1> DEFINE new == {Message(i, r) : i \in 1..n}
<1>0. Wires /\ Numbered
  BY DEF IInv, Shapes
<1>1. /\ inbound' \in Seq(Range(inbound'))
      /\ Range(inbound') \subseteq Range(inbound)
      /\ \A m \in Range(inbound) :
           m \in Range(inbound') \/ (inbound' # inbound /\ m = Answer)
  <2>1. CASE inbound' = inbound
    BY <1>0, <2>1 DEF Wires
  <2>2. CASE inbound # <<>> /\ inbound' = Tail(inbound)
    BY <1>0, <2>2, TailRange DEF Wires, Answer
  <2> QED
    BY <2>1, <2>2
<1>2. \/ Range(wire') = Range(wire) /\ nextRequestId' = nextRequestId
      \/ /\ Range(wire') = Range(wire) \cup new
         /\ nextRequestId' = nextRequestId + n
         /\ Sent(n, r)
  BY DEF Sent
<1>3. Wires'
  BY <1>0, <1>1 DEF Wires, Sent
<1>4. \A i \in 1..n : /\ Message(i, r).id = nextRequestId + i - 1
                      /\ Message(i, r).type = r.type
                      /\ Message(i, r).about = r.about
  BY DEF Message
<1>5. \A m \in new : /\ m.id \in nextRequestId..(nextRequestId + n - 1)
                     /\ m.type = r.type /\ m.about = r.about
  BY <1>0, <1>4 DEF Numbered
<1>6. Sent(n, r) => \E m \in new : m.id = LastId(n)
  <2>1. Message(n, r) \in new
    OBVIOUS
  <2> QED
    BY <1>0, <1>4, <2>1 DEF LastId, Numbered
<1> HIDE DEF new
<1>7. \A m \in Messages' : m \in Messages \/ (Sent(n, r) /\ m \in new)
  BY <1>1, <1>2 DEF Messages
<1>8. Flow
  <2>1. nextRequestId \in Nat
    BY <1>0 DEF Numbered
  <2>2. nextRequestId' \in Nat /\ nextRequestId' >= nextRequestId
    BY <1>2, <2>1
  <2>3. ASSUME NEW m \in new, Sent(n, r)
        PROVE  m.id \in nextRequestId..(nextRequestId' - 1)
    <3>1. nextRequestId' = nextRequestId + n
      BY <2>3 DEF Sent
    <3> QED
      BY <1>5, <2>1, <2>3, <3>1
  <2> QED
    BY <1>7, <2>2, <2>3 DEF Flow
<1>9. \A m \in Messages :
        m \in Messages' \/ (inbound' # inbound /\ m = Answer)
  BY <1>1, <1>2 DEF Messages
<1>10. ASSUME Sent(n, r)
       PROVE  /\ LastId(n) \in nextRequestId..(nextRequestId' - 1)
              /\ \E m \in Messages' : m.id = LastId(n) /\ m.type = r.type
              /\ \A m \in Messages' : m.id = LastId(n) => m.about = r.about
  <2>1. /\ LastId(n) \in nextRequestId..(nextRequestId' - 1)
        /\ Range(wire') = Range(wire) \cup new
    BY <1>0, <1>10 DEF LastId, Sent, new, Numbered
  <2>2. \E m \in Messages' : m.id = LastId(n) /\ m.type = r.type
    BY <1>5, <1>6, <1>10, <2>1 DEF Messages
  <2>3. \A m \in Messages : m.id # LastId(n)
    BY <1>0, <2>1 DEF Numbered
  <2>4. \A m \in Messages' : m.id = LastId(n) => m.about = r.about
    BY <1>5, <1>7, <2>3
  <2> QED
    BY <2>1, <2>2, <2>4
<1> QED
  BY <1>3, <1>8, <1>9, <1>10

\* What a step may do to the list of a page: nothing to it, nothing but to its
\* controls for want of a connection, load it, or hear the answer.
ListKept(s) ==
  /\ SameControls(page'[s], page[s])
  /\ SameRows(page'[s], page[s])
  /\ ListNumber(page'[s]) = ListNumber(page[s])

ListStale(s) == link # "up" /\ SameRows(page'[s], page[s])

ListLoading(s) ==
  /\ link = "up"
  /\ page'[s].loading = TRUE
  /\ page'[s].shown = NoList
  /\ ListNumber(page'[s]) # 0
  /\ \A m \in Messages' :
       m.id = ListNumber(page'[s]) => m.about = QueryOf(s, page'[s])

ListHeard(s) ==
  /\ SameControls(page'[s], page[s])
  /\ page'[s].loading = FALSE
  /\ ListNumber(page'[s]) = 0
  /\ ListNumber(page[s]) # 0
  /\ \/ page'[s].shown = NoList
     \/ \E m \in Messages : /\ m.id = ListNumber(page[s])
                            /\ page'[s].shown.query = m.about

\* The list of a page, from what a step does to it.
LEMMA ListStep ==
  ASSUME IInv, Flow, link' = link, NEW s \in Scopes,
         ListKept(s) \/ ListStale(s) \/ ListLoading(s) \/ ListHeard(s)
  PROVE  /\ Matches(s)'
         /\ link = "connecting" =>
              page'[s].loading = FALSE /\ page'[s].shown = NoList
<1>1. /\ Matches(s)
      /\ link = "connecting" =>
           page[s].loading = FALSE /\ page[s].shown = NoList
      /\ Numbered
  BY DEF IInv, Idle
<1>2. ListNumber(page[s]) \in 0..(nextRequestId - 1)
  <2>1. ListKind(page[s].mode) \in Kinds
    BY DEF ListKind, Kinds
  <2> QED
    BY <1>1, <2>1, SlotForms DEF Numbered, ListNumber
<1>3. CASE ListKept(s)
  <2>1. QueryOf(s, page'[s]) = QueryOf(s, page[s])
    BY <1>3 DEF ListKept, SameControls, QueryOf
  <2>2. ASSUME NEW m \in Messages', link = "up",
               m.id = ListNumber(page[s]), ListNumber(page[s]) # 0
        PROVE  m.about = QueryOf(s, page[s])
    BY <1>1, <1>2, <2>2 DEF Flow, Matches, Numbered
  <2> QED
    BY <1>1, <1>3, <2>1, <2>2 DEF ListKept, Matches, SameRows
<1>4. CASE ListStale(s)
  BY <1>1, <1>4 DEF ListStale, Matches, SameRows
<1>5. CASE ListLoading(s)
  BY <1>5 DEF ListLoading, Matches
<1>6. CASE ListHeard(s)
  <2>1. QueryOf(s, page'[s]) = QueryOf(s, page[s])
    BY <1>6 DEF ListHeard, SameControls, QueryOf
  <2>2. link # "connecting"
    <3>1. ListKind(page[s].mode) \in Kinds
      BY DEF ListKind, Kinds
    <3> QED
      BY <1>6, <3>1, SlotForms DEF ListHeard, IInv, Idle, ListNumber
  <2> QED
    BY <1>1, <1>6, <2>1, <2>2 DEF ListHeard, Matches
<1> QED
  BY <1>3, <1>4, <1>5, <1>6

\* The step of the invariant, from what it does to the numbers and the lists.
LEMMA PartsStep ==
  ASSUME IInv, Shapes', Flow, link' = link,
         \A x \in Slots :
           Number(x)' = Number(x) \/ Number(x)' = 0 \/ Asked(x),
         \A x, y \in Slots : Asked(x) /\ Asked(y) => x = y,
         link = "up" => StaysOnItsWay,
         \A s \in Scopes :
           ListKept(s) \/ ListStale(s) \/ ListLoading(s) \/ ListHeard(s)
  PROVE  Goes
<1>1. /\ Numbered' /\ OnItsWay'
      /\ link = "connecting" => \A x \in Slots : Number(x)' = 0
  BY NumbersStep
<1>2. \A s \in Scopes :
        /\ Matches(s)'
        /\ link = "connecting" =>
             page'[s].loading = FALSE /\ page'[s].shown = NoList
  BY ListStep
<1>3. Idle'
  BY <1>1, <1>2 DEF Idle
<1> QED
  BY <1>1, <1>2, <1>3 DEF IInv, Goes
-----------------------------------------------------------------------------
(***************************************************************************)
(* The steps of the client.                                                *)
(***************************************************************************)
\* A step loads the list of the page with n copies of the request r.
ListAsked(s, n, r) ==
  /\ Sent(n, r)
  /\ page'[s].loading = TRUE
  /\ page'[s].shown = NoList
  /\ ListNumber(page'[s]) = LastId(n)
  /\ r.about = QueryOf(s, page'[s])

\* An answer that is taken is heard in every slot that waits for it.
Heard ==
  inbound' # inbound =>
    \A x \in Slots :
      /\ x[1] # "log" /\ Number(x) # 0
      /\ Number(x) = Answer.id /\ TypeOf(x[1]) = Answer.type
      => Number(x)' # Number(x)

\* The client asks n times for r, or nothing, and waits for it in slot a.
ClientMove(n, r, a) ==
  /\ link' = link
  /\ UNCHANGED <<nextRequestId, wire>> \/ Sent(n, r)
  /\ inbound' = inbound \/ (inbound # <<>> /\ inbound' = Tail(inbound))
  /\ DOMAIN page' = Scopes
  /\ \A s \in Scopes : IsPage(page'[s])
  /\ "wait" \in DOMAIN login' /\ "wait" \in DOMAIN log'
  /\ \A x \in Slots :
       \/ Number(x)' = Number(x)
       \/ Number(x)' = 0
       \/ /\ x = a /\ Sent(n, r)
          /\ Number(x)' = LastId(n) /\ TypeOf(x[1]) = r.type
  /\ Heard
  /\ \A s \in Scopes : \/ ListKept(s) \/ ListStale(s) \/ ListHeard(s)
                        \/ ListAsked(s, n, r)

\* Such a step keeps the invariant.
LEMMA ClientMoves ==
  ASSUME IInv, NEW n \in Nat \ {0}, NEW r, NEW a, ClientMove(n, r, a)
  PROVE  Goes
<1> USE DEF ClientMove
<1>1. /\ Wires' /\ Flow
      /\ \A m \in Messages :
           m \in Messages' \/ (inbound' # inbound /\ m = Answer)
      /\ Sent(n, r) =>
           /\ LastId(n) \in nextRequestId..(nextRequestId' - 1)
           /\ \E m \in Messages' : m.id = LastId(n) /\ m.type = r.type
           /\ \A m \in Messages' : m.id = LastId(n) => m.about = r.about
  BY ClientFlow
<1>2. Shapes'
  BY <1>1 DEF IInv, Shapes
<1>3. \A x \in Slots :
        \/ Number(x)' = Number(x)
        \/ Number(x)' = 0
        \/ x = a /\ Asked(x)
  BY <1>1 DEF Asked, Sent
<1>4. nextRequestId \in Nat \ {0}
      /\ \A x \in Slots : Number(x) \in 0..(nextRequestId - 1)
  BY DEF IInv, Numbered
<1>5. \A x \in Slots : Asked(x) => x = a
  BY <1>3, <1>4 DEF Asked
<1>6. StaysOnItsWay
  BY <1>1 DEF StaysOnItsWay, Heard
<1>7. ASSUME NEW s \in Scopes, ListAsked(s, n, r) PROVE ListLoading(s)
  BY <1>1, <1>4, <1>7 DEF ListAsked, ListLoading, Sent
<1> QED
  BY <1>1, <1>2, <1>3, <1>5, <1>6, <1>7, PartsStep

\* Steps that ask nothing and take nothing.
LEMMA QuietStep ==
  ASSUME IInv, UNCHANGED <<link, nextRequestId, wire, inbound>>,
         DOMAIN page' = Scopes,
         \A s \in Scopes : page'[s] = page[s] \/ Untouched(page'[s], page[s]),
         "wait" \in DOMAIN login', login'.wait = login.wait,
         "wait" \in DOMAIN log', log'.wait = log.wait
  PROVE  Goes
<1>1. \A s \in Scopes : /\ IsPage(page'[s]) /\ page'[s].wait = page[s].wait
                        /\ SameRows(page'[s], page[s])
                        /\ SameControls(page'[s], page[s])
  BY DEF Untouched, IInv, Shapes, SameRows, SameControls
<1>2. \A s \in Scopes : ListKept(s)
  BY <1>1 DEF ListKept, ListNumber, SameControls
<1>3. \A x \in Slots : Number(x)' = Number(x)
  BY <1>1 DEF Slots, Number, Kinds
<1>4. Heard
  BY DEF Heard
<1>5. \A r, a : ClientMove(1, r, a)
  BY <1>1, <1>2, <1>3, <1>4 DEF ClientMove
<1> QED
  BY <1>5, ClientMoves

\* An answer taken before a list is loaded is heard on this page, and is not a
\* list.
LoadHears(s, p) ==
  inbound' # inbound =>
    \A x \in Slots :
      /\ x[1] # "log" /\ Number(x) # 0
      /\ Number(x) = Answer.id /\ TypeOf(x[1]) = Answer.type
      => /\ x[1] \in Kinds \ {"videos", "images"} /\ x[2] = s
         /\ p.wait[x[1]] = 0

\* Loading a list, of a page whose controls may have been set before.
LEMMA LoadStep ==
  ASSUME IInv, link' = link, NEW s \in Scopes, NEW p, Reloaded(p, page[s]),
         NEW i, NEW n \in Nat \ {0}, Load(s, p, i, n),
         login' = login, log' = log,
         inbound' = inbound \/ (inbound # <<>> /\ inbound' = Tail(inbound)),
         LoadHears(s, p),
         \A k \in {"videos", "images"} : p.wait[k] = page[s].wait[k]
  PROVE  Goes
<1> DEFINE r == ListRequest(s, p, i)
           l == ListKind(p.mode)
<1>0. /\ DOMAIN page = Scopes /\ \A o \in Scopes : IsPage(page[o])
      /\ "wait" \in DOMAIN login /\ "wait" \in DOMAIN log /\ Wires
      /\ l \in {"videos", "images"} /\ l \in Kinds
  BY DEF IInv, Shapes, ListKind, Kinds
<1>1. CASE link = "up"
  <2> DEFINE q == Loading(p, i, LastId(n))
  <2>1. /\ IsPage(q)
        /\ q.mode = p.mode /\ q.date = p.date /\ q.channel = p.channel
        /\ q.curPage = Larger(1, i) /\ q.shown = NoList /\ q.loading = TRUE
        /\ q.wait[l] = LastId(n)
        /\ \A k \in Kinds \ {l} : q.wait[k] = p.wait[k]
    <3>1. IsPage(p)
      BY DEF Reloaded
    <3>2. LoadedFrom(q, p, i, LastId(n))
      BY <3>1, Zenon, LoadingFrom
    <3> HIDE DEF q
    <3> QED
      BY <3>2 DEF LoadedFrom
  <2>2. /\ page' = [page EXCEPT ![s] = q]
        /\ Send([j \in 1..n |-> r])
    BY <1>1 DEF Load, IsConnected
  <2>3. Sent(n, r)
    BY <1>0, <2>2, SendCopies
  <2>4. r.about = QueryOf(s, q)
    BY <2>1 DEF ListRequest, QueryOf
  <2>5. r.type = TypeOf(l)
    BY DEF ListRequest, ListKind, TypeOf
  <2> HIDE DEF r, q
  <2>6. page'[s] = q /\ \A o \in Scopes \ {s} : page'[o] = page[o]
    BY <1>0, <2>2
  <2>7. DOMAIN page' = Scopes
    BY <1>0, <2>2
  <2>8. ListAsked(s, n, r)
    BY <2>1, <2>3, <2>4, <2>6 DEF ListAsked, ListNumber
  <2>9. \A o \in Scopes \ {s} : ListKept(o)
    BY <2>6 DEF ListKept, SameControls, SameRows
  <2>10. ASSUME NEW k \in Kinds, NEW o \in Scopes
         PROVE  \/ page'[o].wait[k] = page[o].wait[k]
                \/ page'[o].wait[k] = 0
                \/ k = l /\ o = s /\ page'[o].wait[k] = LastId(n)
    <3>1. p.wait[k] \in {page[s].wait[k], 0}
      BY DEF Reloaded
    <3>2. CASE o = s /\ k # l
      BY <2>1, <2>6, <3>1, <3>2
    <3>3. CASE o = s /\ k = l
      BY <2>1, <2>6, <3>3
    <3>4. CASE o # s
      BY <2>6, <3>4
    <3> QED
      BY <3>2, <3>3, <3>4
  <2>11. \A x \in Slots :
           \/ Number(x)' = Number(x)
           \/ Number(x)' = 0
           \/ /\ x = <<l, s>> /\ Sent(n, r)
              /\ Number(x)' = LastId(n) /\ TypeOf(x[1]) = r.type
    <3>1. ASSUME NEW k \in Kinds, NEW o \in Scopes
          PROVE  Number(<<k, o>>)' = page'[o].wait[k]
      BY DEF Number, Kinds
    <3>2. Number(<<"login", "login">>)' = Number(<<"login", "login">>)
          /\ Number(<<"log", "log">>)' = Number(<<"log", "log">>)
      BY DEF Number
    <3> QED
      BY <2>3, <2>5, <2>10, <3>1, <3>2, SlotForms
  <2>12. Heard
    BY <1>0, <2>1, <2>6 DEF Heard, LoadHears, Number, Kinds
  <2>13. \A o \in Scopes : IsPage(page'[o])
    BY <1>0, <2>1, <2>6
  <2>14. \A o \in Scopes : ListKept(o) \/ ListAsked(o, n, r)
    BY <2>8, <2>9
  <2> DEFINE a == <<l, s>>
  <2>15. \A x \in Slots :
           \/ Number(x)' = Number(x)
           \/ Number(x)' = 0
           \/ /\ x = a /\ Sent(n, r)
              /\ Number(x)' = LastId(n) /\ TypeOf(x[1]) = r.type
    BY <2>11
  <2>16. ClientMove(n, r, a)
    BY <1>0, <2>3, <2>7, <2>12, <2>13, <2>14, <2>15 DEF ClientMove
  <2> HIDE DEF a
  <2> QED
    BY <2>16, ClientMoves
<1>2. CASE link # "up"
  <2>1. page' = [page EXCEPT ![s] = p] /\ UNCHANGED <<nextRequestId, wire>>
    BY <1>2 DEF Load, IsConnected
  <2>2. /\ page'[s] = p /\ \A o \in Scopes \ {s} : page'[o] = page[o]
        /\ DOMAIN page' = Scopes
    BY <1>0, <2>1
  <2>3. ListStale(s) /\ \A o \in Scopes \ {s} : ListKept(o)
    BY <1>2, <2>2
       DEF ListStale, ListKept, SameControls, SameRows, Reloaded
  <2>4. \A k \in Kinds, o \in Scopes :
          page'[o].wait[k] = page[o].wait[k] \/ page'[o].wait[k] = 0
    BY <2>2 DEF Reloaded
  <2>5. \A x \in Slots : Number(x)' = Number(x) \/ Number(x)' = 0
    BY <2>4 DEF Slots, Number
  <2>6. Heard
    BY <1>0, <2>2 DEF Heard, LoadHears, Number, Kinds
  <2> QED
    <3>1. \A o \in Scopes : IsPage(page'[o])
      BY <1>0, <2>2 DEF Reloaded
    <3>2. \A t, a : ClientMove(n, t, a)
      BY <1>0, <2>1, <2>2, <2>3, <2>5, <2>6, <3>1 DEF ClientMove
    <3> QED
      BY <3>2, ClientMoves
<1> QED
  BY <1>1, <1>2

\* A load after a click on a control.
LEMMA ResetLoad ==
  ASSUME IInv, UNCHANGED <<link, inbound, login, log>>,
         NEW s \in Scopes, NEW p, Reset(p, page[s]),
         NEW i, NEW n \in Nat \ {0}, Load(s, p, i, n)
  PROVE  Goes
<1>1. Reloaded(p, page[s]) /\ p.wait = page[s].wait
  BY DEF Reset, Reloaded
<1>2. LoadHears(s, p)
  BY DEF LoadHears
<1> QED
  BY <1>1, <1>2, LoadStep

\* A load of the present day.
LEMMA TodayLoad ==
  ASSUME IInv, UNCHANGED <<link, inbound, login, log>>,
         NEW s \in Scopes, NEW p, Reset(p, page[s]), LoadToday(s, p)
  PROVE  Goes
<1> DEFINE t == [ResetPreview(p) EXCEPT !.date = Today]
           n == IF p.date = Today THEN 1 ELSE 2
<1>1. Load(s, t, 1, n)
  BY DEF LoadToday
<1>2. Reset(t, page[s])
  BY TodayPage
<1>3. n \in Nat \ {0}
  OBVIOUS
<1> HIDE DEF t, n
<1> QED
  BY <1>1, <1>2, <1>3, ResetLoad

\* One slot at most waits for the answer that has come.
LEMMA OneHears ==
  ASSUME IInv, NEW s \in Scopes, NEW kind \in Kinds, Takes(page[s], kind)
  PROVE  \A x \in Slots :
           Number(x) # 0 /\ Number(x) = Answer.id => x = <<kind, s>>
<1> DEFINE a == <<kind, s>>
<1>1. a \in Slots /\ Number(a) = page[s].wait[kind]
  BY SlotForms
<1>2. Number(a) # 0 /\ Number(a) = Answer.id
  BY <1>1 DEF Takes
<1> HIDE DEF a
<1>3. \A x, y \in Slots : Number(x) = Number(y) /\ Number(x) # 0 => x = y
  BY DEF IInv, Numbered
<1>4. \A x \in Slots : Number(x) # 0 /\ Number(x) = Answer.id => x = a
  BY <1>1, <1>2, <1>3
<1> QED
  BY <1>4 DEF a

\* A load that an answer leads to.
LEMMA AnsweredLoad ==
  ASSUME IInv, UNCHANGED <<link, login, log>>,
         inbound # <<>>, inbound' = Tail(inbound),
         NEW s \in Scopes, NEW kind \in {"related", "delete"},
         Takes(page[s], kind), NEW p, Answered(p, page[s], kind),
         NEW i, NEW n \in Nat \ {0}, Load(s, p, i, n)
  PROVE  Goes
<1>1. kind \in Kinds \ {"videos", "images"} /\ IsPage(page[s])
  BY DEF Kinds, IInv, Shapes
<1>2. /\ p.wait[kind] = 0
      /\ \A k \in Kinds \ {kind} : p.wait[k] = page[s].wait[k]
  BY <1>1 DEF Answered, IsPage
<1>3. Reloaded(p, page[s])
  BY <1>1, <1>2 DEF Reloaded, Answered
<1>4. \A k \in {"videos", "images"} : p.wait[k] = page[s].wait[k]
  BY <1>1, <1>2 DEF Kinds
<1>5. ASSUME NEW x \in Slots, Number(x) # 0, Number(x) = Answer.id
      PROVE  /\ x[1] \in Kinds \ {"videos", "images"} /\ x[2] = s
             /\ p.wait[x[1]] = 0
  <2>1. x = <<kind, s>>
    BY <1>1, <1>5, OneHears
  <2> QED
    BY <1>1, <1>2, <2>1
<1>6. LoadHears(s, p)
  BY <1>5 DEF LoadHears
<1>7. link' = link /\ login' = login /\ log' = log
  OBVIOUS
<1> QED
  BY <1>3, <1>4, <1>6, <1>7, LoadStep
-----------------------------------------------------------------------------
(***************************************************************************)
(* The actions of ReviewWidget.                                            *)
(***************************************************************************)
LEMMA LoadClicks ==
  ASSUME IInv, NEW s \in Scopes, UNCHANGED windows,
         \/ PrevPage(s) \/ NextPage(s) \/ ChangeDate(s) \/ ChangeChannel(s)
         \/ SwitchRecordMode(s)
  PROVE  Goes
<1>1. UNCHANGED <<link, inbound, login, log>>
  BY DEF windows, PrevPage, NextPage, ChangeDate, ChangeChannel,
         SwitchRecordMode, Click
<1>2. IsPage(page[s])
  BY DEF IInv, Shapes
<1>3. Reset(page[s], page[s])
  BY <1>2 DEF Reset, SameRows
<1>4. 1 \in Nat \ {0}
  OBVIOUS
<1>5. CASE PrevPage(s)
  <2>1. Load(s, page[s], page[s].curPage - 1, 1)
    BY <1>5 DEF PrevPage
  <2> QED
    BY <1>1, <1>3, <1>4, <2>1, ResetLoad
<1>6. CASE NextPage(s)
  <2>1. Load(s, page[s], page[s].curPage + 1, 1)
    BY <1>6 DEF NextPage
  <2> QED
    BY <1>1, <1>3, <1>4, <2>1, ResetLoad
<1>7. CASE ChangeDate(s)
  <2>1. PICK d : Load(s, [ResetPreview(page[s]) EXCEPT !.date = d], 1, 1)
    BY <1>7, Zenon DEF ChangeDate
  <2> DEFINE p == [ResetPreview(page[s]) EXCEPT !.date = d]
  <2>2. Reset(p, page[s])
    BY <1>2, ControlledPage, Zenon
  <2>3. Load(s, p, 1, 1)
    BY <2>1
  <2> HIDE DEF p
  <2> QED
    BY <1>1, <1>4, <2>2, <2>3, ResetLoad
<1>8. CASE ChangeChannel(s)
  <2>1. PICK c : Load(s, [ResetPreview(page[s]) EXCEPT !.channel = c], 1, 1)
    BY <1>8, Zenon DEF ChangeChannel
  <2> DEFINE p == [ResetPreview(page[s]) EXCEPT !.channel = c]
  <2>2. Reset(p, page[s])
    BY <1>2, ControlledPage, Zenon
  <2>3. Load(s, p, 1, 1)
    BY <2>1
  <2> HIDE DEF p
  <2> QED
    BY <1>1, <1>4, <2>2, <2>3, ResetLoad
<1>9. CASE SwitchRecordMode(s)
  <2>1. PICK mode \in {"video", "image"} :
          LoadToday(s, [page[s] EXCEPT !.mode = mode])
    BY <1>9, Zenon DEF SwitchRecordMode
  <2> DEFINE p == [page[s] EXCEPT !.mode = mode]
  <2>2. Reset(p, page[s])
    BY <1>2, ControlledPage, Zenon
  <2>3. LoadToday(s, p)
    BY <2>1
  <2> HIDE DEF p
  <2> QED
    BY <1>1, <2>2, <2>3, TodayLoad
<1> QED
  BY <1>5, <1>6, <1>7, <1>8, <1>9

\* The clicks that move only the player.
LEMMA PlayerClicks ==
  ASSUME IInv, NEW s \in Scopes, UNCHANGED windows,
         SelectItem(s) \/ Play(s) \/ VideoFrame(s)
  PROVE  Goes
<1>1. UNCHANGED <<link, nextRequestId, wire, inbound, login, log>>
  BY DEF windows, SelectItem, Play, VideoFrame, api
<1>2. /\ DOMAIN page = Scopes /\ IsPage(page[s])
      /\ "wait" \in DOMAIN login /\ "wait" \in DOMAIN log
  BY DEF IInv, Shapes
<1>3. \E q : page' = [page EXCEPT ![s] = q] /\ Untouched(q, page[s])
  <2>1. CASE SelectItem(s)
    <3>1. PICK row : page' = [page EXCEPT
            ![s] = [@ EXCEPT !.path = row.path, !.channelid = row.channel,
                             !.late = page[s].loaded, !.loaded = NoPath,
                             !.frame = NoPath]]
      BY <2>1, Zenon DEF SelectItem
    <3> QED
      BY <1>2, <3>1, MovedPage, Zenon
  <2>2. CASE Play(s)
    <3>1. page' = [page EXCEPT ![s] = [@ EXCEPT !.loaded = page[s].path]]
      BY <2>2, Zenon DEF Play
    <3> QED
      BY <1>2, <3>1, MovedPage, Zenon
  <2>3. CASE VideoFrame(s)
    <3>1. PICK a, b :
            page' = [page EXCEPT ![s] = [@ EXCEPT !.frame = a, !.late = b]]
      BY <2>3, Zenon DEF VideoFrame
    <3> QED
      BY <1>2, <3>1, MovedPage, Zenon
  <2> QED
    BY <2>1, <2>2, <2>3
<1>4. PICK q : page' = [page EXCEPT ![s] = q] /\ Untouched(q, page[s])
  BY <1>3
<1>5. DOMAIN page' = Scopes
  BY <1>2, <1>4
<1>6. \A o \in Scopes : page'[o] = page[o] \/ Untouched(page'[o], page[o])
  BY <1>2, <1>4
<1> QED
  BY <1>1, <1>2, <1>5, <1>6, QuietStep

\* The dialogs that are only opened or closed, and the tabs.
LEMMA DialogClicks ==
  ASSUME IInv, UNCHANGED <<api, page, windows>>
  PROVE  Goes
<1>1. UNCHANGED <<link, nextRequestId, wire, inbound, login, log, page>>
  BY DEF windows, api
<1>2. /\ DOMAIN page = Scopes
      /\ "wait" \in DOMAIN login /\ "wait" \in DOMAIN log
  BY DEF IInv, Shapes
<1> QED
  BY <1>1, <1>2, QuietStep

\* What is asked in another slot than a list's.
LEMMA AskStep ==
  ASSUME IInv, UNCHANGED <<link, inbound, login, log>>,
         NEW s \in Scopes, NEW kind \in {"related", "insert", "delete"},
         NEW r, r.type = TypeOf(kind), Send(<<r>>),
         DOMAIN page' = Scopes, Waits(page'[s], page[s], kind, LastId(1)),
         \A o \in Scopes \ {s} : page'[o] = page[o]
  PROVE  Goes
<1>0. /\ Wires /\ \A o \in Scopes : IsPage(page[o])
      /\ "wait" \in DOMAIN login /\ "wait" \in DOMAIN log
      /\ kind \in Kinds /\ kind \notin {"videos", "images"}
  BY DEF IInv, Shapes, Kinds
<1>1. Sent(1, r)
  BY <1>0, SendOne
<1>2. \A o \in Scopes : IsPage(page'[o])
  BY <1>0 DEF Waits
<1>3. \A o \in Scopes : ListKept(o)
  BY <1>0 DEF ListKept, Waits, SameRows, SameControls, ListNumber, ListKind,
             Kinds
<1> DEFINE a == <<kind, s>>
<1>4. \A x \in Slots :
        \/ Number(x)' = Number(x)
        \/ /\ x = a /\ Sent(1, r)
           /\ Number(x)' = LastId(1) /\ TypeOf(x[1]) = r.type
  <2>1. ASSUME NEW k \in Kinds, NEW o \in Scopes, <<k, o>> # <<kind, s>>
        PROVE  page'[o].wait[k] = page[o].wait[k]
    BY <2>1 DEF Waits
  <2>2. page'[s].wait[kind] = LastId(1)
    BY DEF Waits
  <2> QED
    BY <1>0, <1>1, <2>1, <2>2 DEF Slots, Number, Kinds
<1> HIDE DEF a
<1>5. Heard
  BY DEF Heard
<1>6. ClientMove(1, r, a)
  BY <1>0, <1>1, <1>2, <1>3, <1>4, <1>5 DEF ClientMove
<1> QED
  BY <1>6, ClientMoves

\* What is asked and not waited for, or waited for by LoginWidget or LogWidget.
LEMMA OtherAskStep ==
  ASSUME IInv, UNCHANGED <<link, inbound, page>>,
         NEW r, Send(<<r>>) \/ UNCHANGED <<nextRequestId, wire>>,
         "wait" \in DOMAIN login', "wait" \in DOMAIN log',
         NEW kind \in {"login", "log"},
         \/ login'.wait = login.wait
         \/ /\ kind = "login" /\ r.type = "LOGIN"
            /\ Send(<<r>>) /\ login'.wait = LastId(1),
         \/ log'.wait = log.wait
         \/ /\ kind = "log" /\ r.type = "LOG_LIST"
            /\ Send(<<r>>) /\ log'.wait = LastId(1)
  PROVE  Goes
<1>0. /\ Wires /\ DOMAIN page = Scopes /\ \A o \in Scopes : IsPage(page[o])
      /\ UNCHANGED <<nextRequestId, wire>> \/ Sent(1, r)
  BY SendOne DEF IInv, Shapes
<1>1. Send(<<r>>) => Sent(1, r)
  BY <1>0, SendOne
<1>2. \A o \in Scopes : ListKept(o)
  BY DEF ListKept, SameRows, SameControls
<1>3. /\ TypeOf("login") = "LOGIN" /\ TypeOf("log") = "LOG_LIST"
  BY DEF TypeOf
<1> DEFINE a == <<kind, kind>>
<1>4. ASSUME NEW x \in Slots
      PROVE  \/ Number(x)' = Number(x)
             \/ /\ x = a /\ Sent(1, r)
                /\ Number(x)' = LastId(1) /\ TypeOf(x[1]) = r.type
  <2>1. CASE \E k \in Kinds, s \in Scopes : x = <<k, s>>
    BY <2>1 DEF Number, Kinds
  <2>2. CASE x = <<"login", "login">>
    BY <1>1, <1>3, <2>2 DEF Number
  <2>3. CASE x = <<"log", "log">>
    BY <1>1, <1>3, <2>3 DEF Number
  <2> QED
    BY <2>1, <2>2, <2>3, SlotForms
<1> HIDE DEF a
<1>5. Heard
  BY DEF Heard
<1>6. /\ link' = link /\ inbound' = inbound
      /\ DOMAIN page' = Scopes /\ \A o \in Scopes : IsPage(page'[o])
  BY <1>0
<1>7. ClientMove(1, r, a)
  BY <1>0, <1>2, <1>4, <1>5, <1>6 DEF ClientMove
<1> QED
  BY <1>7, ClientMoves

\* The dialogs of a page are opened by a page.
DialogOfPage ==
  modal.kind \in {"delete", "preview", "save"} => modal.scope \in Scopes

\* The requests made at the end of a dialog.
LEMMA DialogAsks ==
  ASSUME IInv, UNCHANGED windows, DialogOfPage,
         ConfirmDelete \/ AskRelated \/ SaveFrame
  PROVE  Goes
<1> DEFINE s == modal.scope
<1>1. UNCHANGED <<link, inbound, login, log>>
  BY DEF windows, ConfirmDelete, AskRelated, SaveFrame
<1>2. DOMAIN page = Scopes /\ \A o \in Scopes : IsPage(page[o])
  BY DEF IInv, Shapes
<1>3. s \in Scopes
  BY DEF ConfirmDelete, AskRelated, SaveFrame, DialogOfPage
<1> HIDE DEF s
<1>4. ASSUME NEW kind \in {"related", "insert", "delete"}, NEW q,
             Waits(q, page[s], kind, LastId(1)),
             page' = [page EXCEPT ![s] = q],
             NEW r, r.type = TypeOf(kind), Send(<<r>>)
      PROVE  Goes
  <2>1. /\ DOMAIN page' = Scopes /\ Waits(page'[s], page[s], kind, LastId(1))
        /\ \A o \in Scopes \ {s} : page'[o] = page[o]
    BY <1>2, <1>3, <1>4
  <2> QED
    BY <1>1, <1>3, <1>4, <2>1, AskStep
<1>5. \A kind \in {"related", "insert", "delete"} : kind \in Kinds
  BY DEF Kinds
<1>6. CASE ConfirmDelete
  <2> DEFINE q == [page[s] EXCEPT !.pendingDelete = modal.images,
                                  !.wait["delete"] = LastId(1)]
             r == DeleteRequest(modal.images)
  <2>1. page' = [page EXCEPT ![s] = q] /\ Send(<<r>>)
    BY <1>6, Zenon DEF ConfirmDelete, s
  <2>2. Waits(q, page[s], "delete", LastId(1))
    BY <1>2, <1>3, <1>5, WaitingPage, Zenon
  <2>3. r.type = TypeOf("delete")
    BY DEF DeleteRequest, TypeOf
  <2> HIDE DEF q, r
  <2> QED
    BY <1>4, <2>1, <2>2, <2>3
<1>7. CASE AskRelated
  <2>1. PICK image :
          /\ page' = [page EXCEPT
               ![s] = [@ EXCEPT !.pendingTime = image.at,
                                !.wait["related"] = LastId(1)]]
          /\ Send(<<RelatedRequest(s, image)>>)
    BY <1>7, Zenon DEF AskRelated, s
  <2> DEFINE q == [page[s] EXCEPT !.pendingTime = image.at,
                                  !.wait["related"] = LastId(1)]
             r == RelatedRequest(s, image)
  <2>2. page' = [page EXCEPT ![s] = q] /\ Send(<<r>>)
    BY <2>1, Zenon
  <2>3. Waits(q, page[s], "related", LastId(1))
    BY <1>2, <1>3, <1>5, WaitingPage, Zenon
  <2>4. r.type = TypeOf("related")
    BY DEF RelatedRequest, TypeOf
  <2> HIDE DEF q, r
  <2> QED
    BY <1>4, <2>2, <2>3, <2>4
<1>8. CASE SaveFrame /\ link = "up"
  <2> DEFINE q == [page[s] EXCEPT !.wait["insert"] = LastId(1)]
  <2>0. PICK path : InsertFeatureImageRecord(s, path)
    BY <1>8, Zenon DEF SaveFrame, s
  <2> DEFINE r == InsertRequest(page[s], path)
  <2>1. page' = [page EXCEPT ![s] = q] /\ Send(<<r>>)
    BY <1>8, <2>0, Zenon DEF InsertFeatureImageRecord, IsConnected
  <2>2. Waits(q, page[s], "insert", LastId(1))
    BY <1>2, <1>3, <1>5, WaitingPage, Zenon
  <2>3. r.type = TypeOf("insert")
    BY DEF InsertRequest, TypeOf
  <2> HIDE DEF q, r
  <2> QED
    BY <1>4, <2>1, <2>2, <2>3
<1>9. CASE SaveFrame /\ link # "up"
  <2>1. UNCHANGED <<nextRequestId, wire, page>>
    BY <1>9 DEF SaveFrame, InsertFeatureImageRecord, IsConnected
  <2>2. "wait" \in DOMAIN login /\ "wait" \in DOMAIN log
    BY DEF IInv, Shapes
  <2> QED
    BY <1>1, <1>2, <2>1, <2>2, QuietStep
<1> QED
  BY <1>6, <1>7, <1>8, <1>9
-----------------------------------------------------------------------------
(***************************************************************************)
(* The answers, which each page looks at for itself.                       *)
(***************************************************************************)
\* The slot of the page for such answers stops to wait.
Hears(s, kind) ==
  /\ IsPage(page'[s])
  /\ page'[s].wait[kind] = 0
  /\ \A k \in Kinds \ {kind} : page'[s].wait[k] = page[s].wait[k]
  /\ ListKept(s) \/ ListHeard(s)

\* Both pages look at an answer; who waits for its number hears it.
LEMMA PagesHear ==
  ASSUME IInv, UNCHANGED <<link, nextRequestId, wire, login, log>>,
         inbound # <<>>, inbound' = Tail(inbound),
         NEW kind \in Kinds, Answer.type = TypeOf(kind),
         DOMAIN page' = Scopes,
         \A s \in Scopes : IF Takes(page[s], kind) THEN Hears(s, kind)
                           ELSE page'[s] = page[s]
  PROVE  Goes
<1>0. /\ \A o \in Scopes : IsPage(page[o])
      /\ "wait" \in DOMAIN login /\ "wait" \in DOMAIN log
  BY DEF IInv, Shapes
<1>1. \A o \in Scopes : IsPage(page'[o])
  BY <1>0 DEF Hears
<1>2. \A o \in Scopes : ListKept(o) \/ ListHeard(o)
  BY DEF Hears, ListKept, SameRows, SameControls
<1>3. ASSUME NEW k \in Kinds, NEW o \in Scopes
      PROVE  page'[o].wait[k] = page[o].wait[k] \/ page'[o].wait[k] = 0
  BY DEF Hears
<1>4. \A x \in Slots : Number(x)' = Number(x) \/ Number(x)' = 0
  BY <1>3 DEF Slots, Number
<1>5. \A k \in Kinds \cup {"login"} :
        TypeOf(k) = TypeOf(kind) => k = kind
  BY DEF TypeOf, Kinds
<1>6. ASSUME NEW x \in Slots, x[1] # "log", Number(x) # 0,
             Number(x) = Answer.id, TypeOf(x[1]) = Answer.type
      PROVE  Number(x)' # Number(x)
  <2>1. CASE \E k \in Kinds, o \in Scopes : x = <<k, o>>
    <3>1. PICK k \in Kinds, o \in Scopes : x = <<k, o>>
      BY <2>1
    <3>2. k = kind
      BY <1>5, <1>6, <3>1
    <3>3. Number(x) = page[o].wait[kind] /\ Number(x)' = page'[o].wait[kind]
      BY <3>1, <3>2 DEF Number, Kinds
    <3>4. Takes(page[o], kind)
      BY <1>6, <3>3 DEF Takes
    <3> QED
      BY <1>6, <3>3, <3>4 DEF Hears
  <2>2. CASE x = <<"login", "login">>
    BY <1>5, <1>6, <2>2 DEF Kinds
  <2> QED
    BY <1>6, <2>1, <2>2, SlotForms
<1>7. Heard
  BY <1>6 DEF Heard
<1>8. \A r, a : ClientMove(1, r, a)
  BY <1>0, <1>1, <1>2, <1>4, <1>7 DEF ClientMove
<1> QED
  BY <1>8, ClientMoves

\* The answer that is taken is one of the messages.
LEMMA AnswerIsMessage ==
  ASSUME IInv, inbound # <<>>
  PROVE  Answer \in Messages
<1>1. inbound \in Seq(Range(inbound))
  BY DEF IInv, Shapes, Wires
<1> QED
  BY <1>1, TailRange DEF Answer, Messages

\* The lists.
LEMMA ListAnswers ==
  ASSUME IInv, UNCHANGED windows, OnVideoListFinished \/ OnImageListFinished
  PROVE  Goes
<1>1. ASSUME NEW mode \in {"video", "image"},
             UNCHANGED <<link, nextRequestId, wire, login, log>>,
             inbound # <<>>, inbound' = Tail(inbound),
             Answer.type = TypeOf(ListKind(mode)),
             page' = [s \in Scopes |->
                        IF Takes(page[s], ListKind(mode))
                        THEN ListFinished(page[s], mode) ELSE page[s]]
      PROVE  Goes
  <2> DEFINE kind == ListKind(mode)
  <2>1. kind \in Kinds /\ Answer \in Messages
    BY <1>1, AnswerIsMessage DEF ListKind, Kinds
  <2>2. ASSUME NEW s \in Scopes, Takes(page[s], kind)
        PROVE  Hears(s, kind)
    <3> DEFINE q == ListFinished(page[s], mode)
    <3>1. page'[s] = q
      BY <1>1, <2>2
    <3>2. IsPage(page[s])
      BY DEF IInv, Shapes
    <3>3. /\ page[s].mode # mode => Waits(q, page[s], kind, 0)
          /\ page[s].mode = mode =>
               /\ IsPage(q) /\ SameControls(q, page[s]) /\ q.loading = FALSE
               /\ \/ q.shown = NoList
                  \/ q.shown = [query |-> Answer.about, rows |-> Answer.rows]
               /\ q.wait[kind] = 0
               /\ \A k \in Kinds \ {kind} : q.wait[k] = page[s].wait[k]
      BY <3>2, HeardPage, Zenon
    <3> HIDE DEF q
    <3>4. CASE page[s].mode # mode
      <4>1. ListKind(page[s].mode) \in Kinds \ {kind}
        BY <3>2, <3>4 DEF IsPage, ListKind, Kinds
      <4>2. ListKept(s)
        BY <3>1, <3>3, <3>4, <4>1
           DEF ListKept, Waits, ListNumber, SameControls
      <4> QED
        BY <3>1, <3>3, <3>4, <4>2 DEF Hears, Waits
    <3>5. CASE page[s].mode = mode
      <4>1. ListNumber(page[s]) = page[s].wait[kind]
            /\ ListNumber(q) = q.wait[kind]
        BY <3>3, <3>5 DEF ListNumber, SameControls
      <4>2. ListHeard(s)
        BY <2>1, <2>2, <3>1, <3>3, <3>5, <4>1 DEF ListHeard, Takes
      <4> QED
        BY <3>1, <3>3, <3>5, <4>2 DEF Hears
    <3> QED
      BY <3>4, <3>5
  <2>3. /\ DOMAIN page' = Scopes
        /\ \A s \in Scopes : IF Takes(page[s], kind) THEN Hears(s, kind)
                             ELSE page'[s] = page[s]
    BY <1>1, <2>2
  <2> HIDE DEF kind
  <2>4. Answer.type = TypeOf(kind)
    BY <1>1 DEF kind
  <2> QED
    BY <1>1, <2>1, <2>3, <2>4, PagesHear
<1>2. CASE OnVideoListFinished
  <2>1. /\ UNCHANGED <<link, nextRequestId, wire, login, log>>
        /\ inbound # <<>> /\ inbound' = Tail(inbound)
        /\ Answer.type = TypeOf(ListKind("video"))
    BY <1>2 DEF OnVideoListFinished, windows, Taken, Arrived, Answer, TypeOf,
                ListKind
  <2>2. page' = [s \in Scopes |->
                   IF Takes(page[s], ListKind("video"))
                   THEN ListFinished(page[s], "video") ELSE page[s]]
    BY <1>2, Zenon DEF OnVideoListFinished, BothPages, ListKind
  <2> QED
    BY <1>1, <2>1, <2>2
<1>3. CASE OnImageListFinished
  <2>1. /\ UNCHANGED <<link, nextRequestId, wire, login, log>>
        /\ inbound # <<>> /\ inbound' = Tail(inbound)
        /\ Answer.type = TypeOf(ListKind("image"))
    BY <1>3 DEF OnImageListFinished, windows, Taken, Arrived, Answer, TypeOf,
                ListKind
  <2>2. "images" = ListKind("image")
    BY DEF ListKind
  <2>3. page' = [s \in Scopes |->
                   IF Takes(page[s], ListKind("image"))
                   THEN ListFinished(page[s], "image") ELSE page[s]]
    BY <1>3, <2>2, Zenon DEF OnImageListFinished, BothPages
  <2> QED
    BY <1>1, <2>1, <2>3
<1> QED
  BY <1>2, <1>3

\* An answer that is not a list, and not what a list is loaded for.
LEMMA OtherAnswers ==
  ASSUME IInv, UNCHANGED <<link, nextRequestId, wire, login, log>>,
         inbound # <<>>, inbound' = Tail(inbound),
         NEW kind \in {"related", "insert", "delete"},
         Answer.type = TypeOf(kind), DOMAIN page' = Scopes,
         \A s \in Scopes : IF Takes(page[s], kind)
                           THEN Waits(page'[s], page[s], kind, 0)
                           ELSE page'[s] = page[s]
  PROVE  Goes
<1>1. kind \in Kinds
  BY DEF Kinds
<1>2. ASSUME NEW s \in Scopes, Waits(page'[s], page[s], kind, 0)
      PROVE  Hears(s, kind)
  <2>1. ListKind(page[s].mode) \in Kinds \ {kind}
    BY DEF ListKind, Kinds
  <2> QED
    BY <1>2, <2>1 DEF Hears, Waits, ListKept, SameControls, ListNumber
<1>3. \A s \in Scopes : IF Takes(page[s], kind) THEN Hears(s, kind)
                        ELSE page'[s] = page[s]
  BY <1>2
<1> QED
  BY <1>1, <1>3, PagesHear

\* Nobody takes the answer, or it is a refusal.
LEMMA IgnoredAnswers ==
  ASSUME IInv, UNCHANGED windows, Taken, NEW kind \in {"related", "delete"},
         Arrived(TypeOf(kind)), Ignored(kind)
  PROVE  Goes
<1>1. /\ UNCHANGED <<link, nextRequestId, wire, login, log>>
      /\ inbound # <<>> /\ inbound' = Tail(inbound)
      /\ Answer.type = TypeOf(kind)
  BY DEF Ignored, windows, Taken, Arrived, Answer
<1>2. kind \in Kinds /\ \A s \in Scopes : IsPage(page[s])
  BY DEF Kinds, IInv, Shapes
<1>3. page' = [s \in Scopes |->
                 IF Takes(page[s], kind)
                 THEN [page[s] EXCEPT !.wait[kind] = 0,
                                      !.pendingDelete =
                                        IF kind = "delete" THEN {} ELSE @]
                 ELSE page[s]]
  BY Zenon DEF Ignored, BothPages
<1>4. ASSUME NEW s \in Scopes
      PROVE  IF Takes(page[s], kind) THEN Waits(page'[s], page[s], kind, 0)
             ELSE page'[s] = page[s]
  <2> DEFINE a == IF kind = "delete" THEN {} ELSE page[s].pendingDelete
             q == [page[s] EXCEPT !.wait[kind] = 0, !.pendingDelete = a]
  <2>1. page'[s] = IF Takes(page[s], kind) THEN q ELSE page[s]
    BY <1>3, Zenon
  <2> HIDE DEF a
  <2>2. Waits(q, page[s], kind, 0)
    BY <1>2, WaitingPage, Zenon
  <2> HIDE DEF q
  <2> QED
    BY <2>1, <2>2
<1>5. DOMAIN page' = Scopes
  BY <1>3, Zenon
<1> QED
  BY <1>1, <1>4, <1>5, OtherAnswers

\* The answer to a snapshot.
LEMMA InsertAnswer ==
  ASSUME IInv, UNCHANGED windows, OnInsertImageFinished
  PROVE  Goes
<1>1. /\ UNCHANGED <<link, nextRequestId, wire, login, log>>
      /\ inbound # <<>> /\ inbound' = Tail(inbound)
      /\ Answer.type = TypeOf("insert")
  BY DEF OnInsertImageFinished, windows, Taken, Arrived, Answer, TypeOf
<1>2. "insert" \in Kinds /\ \A s \in Scopes : IsPage(page[s])
  BY DEF Kinds, IInv, Shapes
<1>3. page' = [s \in Scopes |->
                 IF Takes(page[s], "insert")
                 THEN [page[s] EXCEPT !.wait["insert"] = 0] ELSE page[s]]
  BY Zenon DEF OnInsertImageFinished, BothPages
<1>4. ASSUME NEW s \in Scopes
      PROVE  IF Takes(page[s], "insert")
             THEN Waits(page'[s], page[s], "insert", 0)
             ELSE page'[s] = page[s]
  <2> DEFINE q == [page[s] EXCEPT !.wait["insert"] = 0]
  <2>1. page'[s] = IF Takes(page[s], "insert") THEN q ELSE page[s]
    BY <1>3, Zenon
  <2>2. Waits(q, page[s], "insert", 0)
    BY <1>2, WaitingPage, Zenon
  <2> HIDE DEF q
  <2> QED
    BY <2>1, <2>2
<1>5. DOMAIN page' = Scopes
  BY <1>3, Zenon
<1> QED
  BY <1>1, <1>4, <1>5, OtherAnswers

\* The page that asked sets its controls or empties its selection, and loads.
LEMMA LoadingAnswers ==
  ASSUME IInv, UNCHANGED windows,
         OnRelatedVideoFinished \/ OnDeleteImagesFinished
  PROVE  Goes
<1>1. /\ UNCHANGED <<link, login, log>>
      /\ inbound # <<>> /\ inbound' = Tail(inbound) /\ Taken
  BY DEF OnRelatedVideoFinished, OnDeleteImagesFinished, windows, Taken,
         Arrived
<1>2. /\ TypeOf("related") = "RELATED" /\ TypeOf("delete") = "DELETE"
      /\ 1 \in Nat \ {0} /\ \A s \in Scopes : IsPage(page[s])
  BY DEF TypeOf, IInv, Shapes
<1>3. CASE OnRelatedVideoFinished
  <2>1. Arrived(TypeOf("related"))
    BY <1>2, <1>3 DEF OnRelatedVideoFinished
  <2>2. CASE Ignored("related")
    BY <1>1, <2>1, <2>2, IgnoredAnswers
  <2>3. CASE \E s \in Scopes :
               /\ Takes(page[s], "related") /\ Answer.ok
               /\ Load(s, ShowingRelated(page[s], Head(Answer.rows)), 1, 1)
    <3>1. PICK s \in Scopes :
            /\ Takes(page[s], "related")
            /\ Load(s, ShowingRelated(page[s], Head(Answer.rows)), 1, 1)
      BY <2>3, Zenon
    <3> DEFINE p == ShowingRelated(page[s], Head(Answer.rows))
    <3>2. Answered(p, page[s], "related")
      BY <1>2, RelatedPage, Zenon
    <3>3. Load(s, p, 1, 1)
      BY <3>1
    <3> HIDE DEF p
    <3> QED
      BY <1>1, <1>2, <3>1, <3>2, <3>3, AnsweredLoad
  <2> QED
    BY <1>3, <2>2, <2>3 DEF OnRelatedVideoFinished
<1>4. CASE OnDeleteImagesFinished
  <2>1. Arrived(TypeOf("delete"))
    BY <1>2, <1>4 DEF OnDeleteImagesFinished
  <2>2. CASE Ignored("delete")
    BY <1>1, <2>1, <2>2, IgnoredAnswers
  <2>3. ASSUME NEW s \in Scopes, Takes(page[s], "delete"),
               Load(s, [page[s] EXCEPT !.wait["delete"] = 0,
                                       !.pendingDelete = {}, !.path = NoPath],
                    page[s].curPage, 1)
        PROVE  Goes
    <3> DEFINE p == [page[s] EXCEPT !.wait["delete"] = 0,
                                    !.pendingDelete = {}, !.path = NoPath]
    <3>1. Answered(p, page[s], "delete")
      BY <1>2, DeletedPage, Zenon
    <3>2. Load(s, p, page[s].curPage, 1)
      BY <2>3
    <3> HIDE DEF p
    <3> QED
      BY <1>1, <1>2, <2>3, <3>1, <3>2, AnsweredLoad
  <2> QED
    BY <1>4, <2>2, <2>3, Zenon DEF OnDeleteImagesFinished
<1> QED
  BY <1>3, <1>4

\* The answers to the login, the log page and the uploads.
LEMMA WindowAnswers ==
  ASSUME IInv, OnLoginFinished \/ OnLogListFinished \/ OnUploadFinished
  PROVE  Goes
<1>0. /\ DOMAIN page = Scopes /\ \A o \in Scopes : IsPage(page[o])
      /\ "wait" \in DOMAIN login /\ "wait" \in DOMAIN log
  BY DEF IInv, Shapes
<1>1. /\ UNCHANGED <<link, nextRequestId, wire, page>>
      /\ inbound # <<>> /\ inbound' = Tail(inbound)
  BY DEF OnLoginFinished, OnLogListFinished, OnUploadFinished, Taken, Arrived,
         review, windows
<1>2. /\ "wait" \in DOMAIN login'
      /\ IF Answer.type = "LOGIN" /\ login.wait # 0 /\ login.wait = Answer.id
         THEN login'.wait = 0 ELSE login'.wait = login.wait
  <2>1. CASE OnLoginFinished
    <3>1. Answer.type = "LOGIN"
      BY <2>1 DEF OnLoginFinished, Arrived, Answer
    <3>2. IF login.wait # 0 /\ login.wait = Answer.id
          THEN login' = [login EXCEPT !.wait = 0]
          ELSE login' = login
      BY <2>1, Zenon DEF OnLoginFinished
    <3> QED
      BY <1>0, <3>1, <3>2
  <2>2. CASE OnLogListFinished \/ OnUploadFinished
    BY <1>0, <2>2 DEF OnLogListFinished, OnUploadFinished, windows, Arrived,
                      Answer
  <2> QED
    BY <2>1, <2>2
<1>3. /\ "wait" \in DOMAIN log'
      /\ log'.wait \in {log.wait, 0}
  <2>1. CASE OnLogListFinished
    <3>1. \/ log' = log
          \/ \E a : log' = [log EXCEPT !.wait = 0, !.prev = a]
          \/ \E a, b, c, d, e :
               log' = [[log EXCEPT !.wait = 0, !.prev = a] EXCEPT
                        !.shown = b, !.totalPage = c, !.next = d,
                        !.disabled = e]
      BY <2>1, Zenon DEF OnLogListFinished
    <3> QED
      BY <1>0, <3>1, Zenon
  <2>2. CASE OnLoginFinished \/ OnUploadFinished
    BY <1>0, <2>2 DEF OnLoginFinished, OnUploadFinished, windows
  <2> QED
    BY <2>1, <2>2
<1>4. \A x \in Slots : Number(x)' = Number(x) \/ Number(x)' = 0
  BY <1>1, <1>2, <1>3 DEF Slots, Number, Kinds
<1>5. \A o \in Scopes : ListKept(o)
  BY <1>1 DEF ListKept, SameRows, SameControls
<1>6. Heard
  <2>1. Answer.type \in {"LOGIN", "LOG_LIST", "INSERT_VIDEO", "SESSION"}
    BY DEF OnLoginFinished, OnLogListFinished, OnUploadFinished, Arrived,
           Answer
  <2>2. /\ \A k \in Kinds :
             TypeOf(k) \notin {"LOGIN", "LOG_LIST", "INSERT_VIDEO", "SESSION"}
        /\ TypeOf("login") = "LOGIN"
    BY DEF TypeOf, Kinds
  <2>3. ASSUME NEW x \in Slots, x[1] # "log", Number(x) # 0,
               Number(x) = Answer.id, TypeOf(x[1]) = Answer.type
        PROVE  Number(x)' # Number(x)
    <3>1. x = <<"login", "login">>
      BY <2>1, <2>2, <2>3, SlotForms
    <3>2. Number(x) = login.wait /\ Number(x)' = login'.wait
      BY <3>1 DEF Number
    <3> QED
      BY <1>2, <2>2, <2>3, <3>1, <3>2
  <2> QED
    BY <2>3 DEF Heard
<1>7. \A r, a : ClientMove(1, r, a)
  BY <1>0, <1>1, <1>2, <1>3, <1>4, <1>5, <1>6 DEF ClientMove
<1> QED
  BY <1>7, ClientMoves
-----------------------------------------------------------------------------
(***************************************************************************)
(* The other windows, the connection and the server.                       *)
(***************************************************************************)
LEMMA LoginAsks ==
  ASSUME IInv, Login
  PROVE  Goes
<1>1. PICK u \in Users : /\ login' = [wait |-> LastId(1), name |-> u]
                         /\ Send(<<LoginRequest(u)>>)
  BY DEF Login
<1> DEFINE r == LoginRequest(u)
<1>2. r.type = "LOGIN"
  BY DEF LoginRequest
<1>3. Send(<<r>>)
  BY <1>1
<1> HIDE DEF r
<1>4. UNCHANGED <<link, inbound, page>> /\ log' = log
  BY DEF Login, review
<1>5. /\ "wait" \in DOMAIN login' /\ login'.wait = LastId(1)
      /\ "wait" \in DOMAIN log'
  BY <1>1, <1>4 DEF IInv, Shapes
<1>6. "login" \in {"login", "log"}
  OBVIOUS
<1> QED
  BY <1>2, <1>3, <1>4, <1>5, <1>6, OtherAskStep

\* The log page loads.
LEMMA LogAsks ==
  ASSUME IInv, UNCHANGED <<link, inbound, page, login>>,
         NEW mode, NEW n, LoadLog(mode, n)
  PROVE  Goes
<1>0. "wait" \in DOMAIN login /\ "wait" \in DOMAIN log
  BY DEF IInv, Shapes
<1> DEFINE r == LogRequest(mode, n)
<1>1. r.type = "LOG_LIST"
  BY DEF LogRequest
<1>2. \/ /\ Send(<<r>>)
         /\ "wait" \in DOMAIN log' /\ log'.wait = LastId(1)
      \/ /\ UNCHANGED <<nextRequestId, wire>>
         /\ "wait" \in DOMAIN log' /\ log'.wait = log.wait
  <2>1. CASE IsConnected
    <3>1. /\ Send(<<r>>)
          /\ log' = [log EXCEPT !.mode = mode, !.disabled = mode,
                                !.curPage = Larger(1, n), !.shown = NoList,
                                !.prev = FALSE, !.next = FALSE,
                                !.wait = LastId(1)]
      BY <2>1, Zenon DEF LoadLog
    <3>2. "wait" \in DOMAIN log' /\ log'.wait = LastId(1)
      BY <1>0, <3>1, Zenon
    <3> QED
      BY <3>1, <3>2
  <2>2. CASE ~IsConnected
    <3>1. /\ UNCHANGED <<nextRequestId, wire>>
          /\ log' = [log EXCEPT !.mode = mode]
      BY <2>2, Zenon DEF LoadLog
    <3>2. "wait" \in DOMAIN log' /\ log'.wait = log.wait
      BY <1>0, <3>1, Zenon
    <3> QED
      BY <3>1, <3>2
  <2> QED
    BY <2>1, <2>2
<1> HIDE DEF r
<1>3. "wait" \in DOMAIN login' /\ login'.wait = login.wait
  BY <1>0
<1>4. "log" \in {"login", "log"}
  OBVIOUS
<1> QED
  BY <1>1, <1>2, <1>3, <1>4, OtherAskStep

\* The tabs that load, the log page and the uploads.
LEMMA WindowClicks ==
  ASSUME IInv,
         \/ \E s \in Scopes : SwitchToReview(s)
         \/ SwitchToLog \/ ClickLog \/ RecordingFinished
  PROVE  Goes
<1>1. ASSUME NEW s \in Scopes, SwitchToReview(s) PROVE Goes
  <2>1. LoadToday(s, page[s]) /\ UNCHANGED <<link, inbound, login, log>>
    BY <1>1 DEF SwitchToReview, RefreshData, windows
  <2>2. Reset(page[s], page[s])
    BY DEF Reset, SameRows, IInv, Shapes
  <2> QED
    BY <2>1, <2>2, TodayLoad
<1>2. CASE SwitchToLog
  <2>1. LoadLog(log.mode, 1) /\ UNCHANGED <<link, inbound, page, login>>
    BY <1>2 DEF SwitchToLog
  <2> QED
    BY <2>1, LogAsks
<1>3. CASE ClickLog
  <2>1. PICK b : LoadLog(b[1], b[2])
    BY <1>3 DEF ClickLog
  <2>2. UNCHANGED <<link, inbound, page, login>>
    BY <1>3 DEF ClickLog, review
  <2> QED
    BY <2>1, <2>2, LogAsks
<1>4. CASE RecordingFinished
  <2>1. PICK u : Upload(u)
    BY <1>4 DEF RecordingFinished
  <2>2. UNCHANGED <<link, inbound, page, login, log>>
    BY <1>4 DEF RecordingFinished
  <2> DEFINE r == UploadRequest(u)
  <2>3. Send(<<r>>) \/ UNCHANGED <<nextRequestId, wire>>
    BY <2>1 DEF Upload
  <2> HIDE DEF r
  <2>4. /\ "wait" \in DOMAIN login' /\ login'.wait = login.wait
        /\ "wait" \in DOMAIN log' /\ log'.wait = log.wait
        /\ "log" \in {"login", "log"}
    BY <2>2 DEF IInv, Shapes
  <2> QED
    BY <2>2, <2>3, <2>4, OtherAskStep
<1> QED
  BY <1>1, <1>2, <1>3, <1>4

\* The connection comes and goes.
LEMMA LinkSteps == ASSUME IInv, LinkUp \/ LinkLost PROVE Goes
<1>1. CASE LinkUp
  <2>1. link = "connecting" /\ link' = "up"
        /\ UNCHANGED <<nextRequestId, wire, inbound, page, login, log>>
    BY <1>1 DEF LinkUp, Connected, review, windows
  <2>2. Shapes' /\ Numbered' /\ Idle'
    BY <2>1 DEF IInv, Shapes, Wires, Numbered, Number, Messages, Idle
  <2>3. \A x \in Slots : Number(x)' = 0
    BY <2>1 DEF IInv, Idle, Number
  <2>4. OnItsWay'
    BY <2>3 DEF OnItsWay
  <2>5. ASSUME NEW s \in Scopes PROVE Matches(s)'
    <3>1. ListKind(page[s].mode) \in Kinds
      BY DEF ListKind, Kinds
    <3>2. ListNumber(page'[s]) = 0
      BY <2>1, <2>3, <3>1, SlotForms DEF ListNumber, Number, Kinds
    <3>3. page'[s].loading = FALSE /\ page'[s].shown = NoList
      BY <2>1 DEF IInv, Idle
    <3> QED
      BY <3>2, <3>3 DEF Matches
  <2>6. Flow
    BY <2>1 DEF Flow, Messages, IInv, Numbered
  <2> QED
    BY <2>2, <2>4, <2>5, <2>6 DEF IInv, Goes
<1>2. CASE LinkLost
  <2>1. /\ link' = "down" /\ inbound' = <<>>
        /\ UNCHANGED <<nextRequestId, wire, page, log>>
        /\ login' = [login EXCEPT !.wait = 0]
    BY <1>2 DEF LinkLost, Disconnected, review
  <2>2. "wait" \in DOMAIN login' /\ login'.wait = 0
    BY <2>1 DEF IInv, Shapes
  <2>3. inbound' \in Seq(Range(inbound')) /\ Messages' \subseteq Messages
    BY <2>1, EmptySeq DEF Messages, Range
  <2>4. Shapes'
    BY <2>1, <2>2, <2>3 DEF IInv, Shapes, Wires
  <2>5. \A x \in Slots : Number(x)' = Number(x)
                         \/ (x = <<"login", "login">> /\ Number(x)' = 0)
    BY <2>1, <2>2 DEF Slots, Number, Kinds
  <2>6. Numbered'
    BY <2>1, <2>3, <2>5 DEF IInv, Numbered
  <2>7. OnItsWay' /\ Idle' /\ \A s \in Scopes : Matches(s)'
    BY <2>1 DEF OnItsWay, Idle, Matches
  <2>8. Flow
    BY <2>1, <2>3 DEF Flow, IInv, Numbered
  <2> QED
    BY <2>4, <2>6, <2>7, <2>8 DEF IInv, Goes
<1> QED
  BY <1>1, <1>2

\* The server answers the first request: by its number, or to the log page
\* without one.
LEMMA ReplyStep ==
  ASSUME IInv, wire # <<>>,
         NEW id, id = Request.id \/ (id = 0 /\ Request.type = "LOG_LIST"),
         NEW ok, NEW rows, NEW total, Reply(id, ok, rows, total)
  PROVE  Goes
<1> DEFINE answer == [id |-> id, type |-> Request.type, ok |-> ok,
                      rows |-> rows, total |-> total,
                      about |-> Request.about]
<1>1. /\ UNCHANGED <<link, nextRequestId, page, login, log>>
      /\ wire' = Tail(wire)
      /\ inbound' = IF link # "up" THEN inbound ELSE Append(inbound, answer)
  BY DEF Reply, review, windows
<1>2. /\ answer.id = id /\ answer.type = Request.type
      /\ answer.about = Request.about
  OBVIOUS
<1> HIDE DEF answer
<1>3. /\ wire' \in Seq(Range(wire'))
      /\ Request \in Range(wire)
      /\ Range(wire) = {Request} \cup Range(wire')
  BY <1>1, TailRange DEF IInv, Shapes, Wires, Request
<1>4. /\ inbound' \in Seq(Range(inbound'))
      /\ link # "up" => Range(inbound') = Range(inbound)
      /\ link = "up" => Range(inbound') = Range(inbound) \cup {answer}
  BY <1>1, AppendRange DEF IInv, Shapes, Wires
<1>5. Shapes'
  BY <1>1, <1>3, <1>4 DEF IInv, Shapes, Wires
<1>6. nextRequestId \in Nat
  BY DEF IInv, Numbered
<1>7. Flow
  <2>1. ASSUME NEW m \in Messages'
        PROVE  \/ m.id = 0
               \/ \E o \in Messages : o.id = m.id /\ o.about = m.about
    <3>1. m \in Messages \/ m = answer
      BY <1>3, <1>4, <2>1 DEF Messages
    <3>2. Request \in Messages
      BY <1>3 DEF Messages
    <3> QED
      BY <1>2, <3>1, <3>2
  <2> QED
    BY <1>1, <1>6, <2>1 DEF Flow
<1>8. \A x \in Slots : Number(x)' = Number(x)
  BY <1>1 DEF Number
<1>9. ASSUME link = "up" PROVE StaysOnItsWay
  <2>1. \A x \in Slots : x[1] # "log" => TypeOf(x[1]) # "LOG_LIST"
    BY SlotForms DEF TypeOf, Kinds
  <2>2. \A o \in Messages : o \in Messages' \/ o = Request
    BY <1>3, <1>4, <1>9 DEF Messages
  <2>3. answer \in Messages'
    BY <1>4, <1>9 DEF Messages
  <2> QED
    BY <1>2, <2>1, <2>2, <2>3 DEF StaysOnItsWay
<1>10. \A x, y \in Slots : ~(Asked(x) /\ Asked(y))
  BY <1>1, <1>6 DEF Asked
<1>11. \A s \in Scopes : ListKept(s)
  BY <1>1 DEF ListKept, SameRows, SameControls
<1> QED
  BY <1>1, <1>5, <1>7, <1>8, <1>9, <1>10, <1>11, PartsStep

\* The handlers of the server.
LEMMA ServerSteps == ASSUME IInv, Server PROVE Goes
<1>1. ASSUME wire # <<>>,
             \E ok, rows, total : Reply(Request.id, ok, rows, total)
      PROVE  Goes
  BY <1>1, ReplyStep
<1>2. CASE HandleLogin
  BY <1>1, <1>2 DEF HandleLogin, Received
<1>3. CASE HandleQuery
  BY <1>1, <1>3 DEF HandleQuery, Received
<1>4. CASE HandleQueryLogList
  <2> DEFINE given == {<<0, TRUE>>, <<0, FALSE>>}
             refusal == <<Request.id, FALSE>>
  <2>1. PICK answer \in Served(given, refusal) :
          Reply(answer[1], answer[2], <<>>, 0)
    BY <1>4, Zenon DEF HandleQueryLogList
  <2>2. answer \in given \/ answer = refusal
    BY <2>1, Zenon DEF Served
  <2>3. refusal[1] = Request.id
    OBVIOUS
  <2>4. \A g \in given : g[1] = 0
    <3>1. <<0, TRUE>>[1] = 0 /\ <<0, FALSE>>[1] = 0
      OBVIOUS
    <3> QED
      BY <3>1, Zenon
  <2> HIDE DEF given, refusal
  <2>5. answer[1] = Request.id \/ answer[1] = 0
    BY <2>2, <2>3, <2>4, Zenon
  <2>6. wire # <<>> /\ Request.type = "LOG_LIST"
    BY <1>4 DEF HandleQueryLogList, Received
  <2> QED
    BY <2>1, <2>5, <2>6, ReplyStep
<1>5. CASE HandleUpload
  BY <1>1, <1>5 DEF HandleUpload, Received
<1>6. CASE HandleInsertImage
  BY <1>1, <1>6 DEF HandleInsertImage, Received
<1>7. CASE HandleDeleteImages
  BY <1>1, <1>7 DEF HandleDeleteImages, Received
<1> QED
  BY <1>2, <1>3, <1>4, <1>5, <1>6, <1>7 DEF Server
-----------------------------------------------------------------------------
(***************************************************************************)
(* The theorems.                                                           *)
(***************************************************************************)
LEMMA DialogStep == ASSUME DialogOfPage, [Next]_vars PROVE DialogOfPage'
<1> USE DEF DialogOfPage
<1>1. CASE UNCHANGED modal
  BY <1>1
<1>0. NoModal.kind = ""
  BY DEF NoModal
<1>2. CASE OpenLogin
  <2>1. modal' = [NoModal EXCEPT !.kind = "login"] /\ "kind" \in DOMAIN NoModal
    BY <1>2, Zenon DEF OpenLogin, NoModal
  <2>2. modal'.kind = "login"
    BY <2>1, Zenon
  <2> QED
    BY <2>2
<1>3. CASE OnLoginFinished
  BY <1>0, <1>1, <1>3 DEF OnLoginFinished
<1>4. ASSUME NEW s \in Scopes, AskDelete(s) \/ OpenPreview(s) \/ AskSave(s)
      PROVE  DialogOfPage'
  BY <1>4 DEF AskDelete, OpenPreview, AskSave, Open
<1>5. CASE CloseDialog \/ ConfirmDelete \/ SaveFrame
  BY <1>0, <1>5 DEF CloseDialog, ConfirmDelete, SaveFrame
<1>6. CASE LinkUp \/ LinkLost \/ RecordingFinished \/ OnLogListFinished
           \/ OnUploadFinished
  BY <1>1, <1>6 DEF LinkUp, LinkLost, RecordingFinished, OnLogListFinished,
                    OnUploadFinished, review
<1>7. CASE Server
  BY <1>1, <1>7 DEF Server, HandleLogin, HandleQuery, HandleQueryLogList,
                    HandleUpload, HandleInsertImage, HandleDeleteImages,
                    Reply, review
<1>8. CASE ReviewAnswer
  BY <1>1, <1>8 DEF ReviewAnswer, OnVideoListFinished, OnImageListFinished,
                    OnInsertImageFinished, OnRelatedVideoFinished,
                    OnDeleteImagesFinished
<1>9. CASE Login \/ SwitchToLog \/ ClickLog \/ AskRelated
           \/ (\E t \in PlainTabs : SwitchTo(t))
           \/ \E s \in Scopes : SwitchToReview(s)
  BY <1>1, <1>9 DEF Login, SwitchToLog, ClickLog, AskRelated, SwitchTo,
                    SwitchToReview, review
<1>10. ASSUME NEW s \in Scopes,
              \/ PrevPage(s) \/ NextPage(s) \/ ChangeDate(s)
              \/ ChangeChannel(s) \/ SwitchRecordMode(s)
              \/ SelectItem(s) \/ Play(s) \/ VideoFrame(s)
       PROVE  DialogOfPage'
  BY <1>1, <1>10 DEF PrevPage, NextPage, ChangeDate, ChangeChannel,
                     SwitchRecordMode, SelectItem, Play, VideoFrame, Click
<1>11. CASE UNCHANGED vars
  BY <1>1, <1>11 DEF vars, review
<1> QED
  BY <1>2, <1>3, <1>4, <1>5, <1>6, <1>7, <1>8, <1>9, <1>10, <1>11
     DEF Next, UserStep, Answers, ReviewStep, ReviewClick

\* The invariant is kept by every step.
LEMMA IInvStep == ASSUME IInv, DialogOfPage, [Next]_vars PROVE Goes
<1>1. CASE LinkUp \/ LinkLost
  BY <1>1, LinkSteps
<1>2. CASE Server
  BY <1>2, ServerSteps
<1>3. CASE RecordingFinished \/ SwitchToLog \/ ClickLog
           \/ \E s \in Scopes : SwitchToReview(s)
  BY <1>3, WindowClicks
<1>4. CASE OnLoginFinished \/ OnLogListFinished \/ OnUploadFinished
  BY <1>4, WindowAnswers
<1>5. CASE ReviewAnswer
  BY <1>5, ListAnswers, InsertAnswer, LoadingAnswers DEF ReviewAnswer
<1>6. CASE Login
  BY <1>6, LoginAsks
<1>7. CASE ReviewStep
  <2>1. ASSUME NEW s \in Scopes, ReviewClick(s), UNCHANGED windows
        PROVE  Goes
    <3>1. CASE AskDelete(s) \/ OpenPreview(s) \/ AskSave(s)
      BY <2>1, <3>1, DialogClicks DEF AskDelete, OpenPreview, AskSave, Open
    <3> QED
      BY <2>1, <3>1, LoadClicks, PlayerClicks DEF ReviewClick
  <2>2. CASE CloseDialog /\ UNCHANGED windows
    BY <2>2, DialogClicks DEF CloseDialog
  <2>3. CASE (ConfirmDelete \/ AskRelated \/ SaveFrame) /\ UNCHANGED windows
    BY <2>3, DialogAsks
  <2> QED
    BY <1>7, <2>1, <2>2, <2>3 DEF ReviewStep
<1>8. CASE OpenLogin \/ \E t \in PlainTabs : SwitchTo(t)
  BY <1>8, DialogClicks DEF OpenLogin, SwitchTo
<1>9. CASE UNCHANGED vars
  BY <1>9, DialogClicks DEF vars, review
<1> QED
  BY <1>1, <1>2, <1>3, <1>4, <1>5, <1>6, <1>7, <1>8, <1>9
     DEF Next, UserStep, Answers

\* So it holds always.
LEMMA IInvHolds == Spec => [](IInv /\ DialogOfPage)
<1>1. Init => DialogOfPage
  <2>1. NoModal.kind = ""
    BY DEF NoModal
  <2> QED
    BY <2>1 DEF Init, DialogOfPage
<1>2. (IInv /\ DialogOfPage) /\ [Next]_vars => (IInv /\ DialogOfPage)'
  BY IInvStep, DialogStep DEF Goes
<1> QED
  BY <1>1, <1>2, InitIInv, PTL DEF Spec

\* A list is the answer to what the controls of its page say: whatever the
\* user asked before, on either page, in either mode, and in whatever order
\* answers, clicks and the request for a related video come, for as long as
\* the connection holds (loadVideoPageData, onVideoListFinished and
\* onImageListFinished).
THEOREM ListsMatch == Spec => []ListMatchesControls
<1>1. IInv => ListMatchesControls
  BY DEF IInv, Matches, ListMatchesControls, QueryOf
<1> QED
  BY <1>1, IInvHolds, PTL

\* An answer has one taker at most, of both pages and all windows; while the
\* connection holds, what a page or the login waits for is on its way; and a
\* list's page buttons are disabled exactly as long as its answer is awaited
\* (makeRequest, and the slots that compare the number).
THEOREM AnswersHaveTakers == Spec => []AnswersFindTheirPage
<1>1. IInv => AnswersFindTheirPage
  <2> SUFFICES ASSUME IInv PROVE AnswersFindTheirPage
    OBVIOUS
  <2> DEFINE W(x) == [kind |-> x[1], of |-> x[2], id |-> Number(x)]
  <2>1. ASSUME NEW w \in Waiters
        PROVE  \E x \in Slots : w = W(x) /\ Number(x) # 0
    <3>0. w.id # 0
      BY <2>1 DEF Waiters
    <3>1. \A x \in Slots : w = W(x) => w.id = Number(x)
      OBVIOUS
    <3>2. CASE \E s \in Scopes, k \in Kinds :
                 w = [kind |-> k, of |-> s, id |-> page[s].wait[k]]
      <4>1. PICK s \in Scopes, k \in Kinds :
              w = [kind |-> k, of |-> s, id |-> page[s].wait[k]]
        BY <3>2
      <4> DEFINE x == <<k, s>>
      <4>2. x \in Slots /\ Number(x) = page[s].wait[k]
            /\ x[1] = k /\ x[2] = s
        BY SlotForms
      <4> HIDE DEF x
      <4>3. w = W(x)
        BY <4>1, <4>2
      <4> QED
        BY <3>0, <3>1, <4>2, <4>3
    <3>3. CASE w = [kind |-> "login", of |-> "login", id |-> login.wait]
      <4> DEFINE x == <<"login", "login">>
      <4>1. w = W(x) /\ x \in Slots
        BY <3>3, SlotForms
      <4> QED
        BY <3>0, <3>1, <4>1
    <3>4. CASE w = [kind |-> "log", of |-> "log", id |-> log.wait]
      <4> DEFINE x == <<"log", "log">>
      <4>1. w = W(x) /\ x \in Slots
        BY <3>4, SlotForms
      <4> QED
        BY <3>0, <3>1, <4>1
    <3> QED
      BY <2>1, <3>2, <3>3, <3>4 DEF Waiters
  <2>2. OneTaker
    <3>1. \A x, y \in Slots : Number(x) = Number(y) /\ Number(x) # 0 => x = y
      BY DEF IInv, Numbered
    <3>2. ASSUME NEW v \in Waiters, NEW w \in Waiters, v.id = w.id
          PROVE  v = w
      <4>1. PICK x \in Slots : v = W(x) /\ Number(x) # 0
        BY <2>1
      <4>2. PICK y \in Slots : w = W(y) /\ Number(y) # 0
        BY <2>1
      <4>3. Number(x) = Number(y)
        BY <3>2, <4>1, <4>2
      <4>4. x = y
        BY <3>1, <4>1, <4>3
      <4> QED
        BY <4>1, <4>2, <4>4
    <3> QED
      BY <3>2 DEF OneTaker
  <2>3. ASSUME link = "up", NEW w \in Waiters, w.kind # "log"
        PROVE  \E m \in Messages : m.id = w.id /\ m.type = TypeOf(w.kind)
    <3>1. PICK x \in Slots : w = W(x) /\ Number(x) # 0
      BY <2>1
    <3>2. w.kind = x[1] /\ w.id = Number(x)
      BY <3>1
    <3> QED
      BY <2>3, <3>1, <3>2 DEF IInv, OnItsWay
  <2>4. ASSUME link = "up", NEW s \in Scopes
        PROVE  page[s].loading
               <=> page[s].wait[ListKind(page[s].mode)] # 0
    BY <2>4 DEF IInv, Matches, ListNumber
  <2> QED
    BY <2>2, <2>3, <2>4 DEF AnswersFindTheirPage
<1> QED
  BY <1>1, IInvHolds, PTL
-----------------------------------------------------------------------------
(***************************************************************************)
(* The gate: who is let in, and whom the server hears.                     *)
(***************************************************************************)
\* Nobody gets past the live view, or is heard by the server with anything but
\* a login, who has not logged in: on no way through dialogs, answers and
\* recordings that leads to a request.
OnlyUsersAsk ==
  user = NoUser => tab = "monitor" /\ \A m \in Messages : m.type = "LOGIN"

\* The name of a login that is awaited was typed in; who has not logged in has
\* no dialog of a page; and a token that is sent is there when it is needed.
GateInv ==
  /\ OnlyUsersAsk
  /\ login.wait # 0 => login.name \in Users
  /\ user = NoUser => modal.kind \in {"", "login"}
  /\ SendsToken =>
       /\ user # NoUser => token # ""
       /\ \A m \in Range(wire) : m.type # "LOGIN" => m.token # ""

\* What a step puts on the wire has the token there is, and is of a user or a
\* login.
Requests ==
  \A m \in Range(wire') :
    \/ m \in Range(wire)
    \/ m.token = token /\ (m.type = "LOGIN" \/ user # NoUser)

\* A batch of requests for a user, or of logins.
LEMMA SentRequests ==
  ASSUME NEW n \in Nat \ {0}, NEW r, Sent(n, r),
         r.type = "LOGIN" \/ user # NoUser
  PROVE  Requests
<1>1. \A i \in 1..n : Message(i, r).token = token
                      /\ Message(i, r).type = r.type
  BY DEF Message
<1>2. \A m \in Range(wire') :
        m \in Range(wire) \/ \E i \in 1..n : m = Message(i, r)
  BY DEF Sent
<1> QED
  BY <1>1, <1>2 DEF Requests

\* The same for a single request.
LEMMA OneSent ==
  ASSUME Wires, NEW r, Send(<<r>>), r.type = "LOGIN" \/ user # NoUser
  PROVE  Requests
<1>1. Sent(1, r) /\ 1 \in Nat \ {0}
  BY SendOne
<1> QED
  BY <1>1, SentRequests

\* Loading a page, for a user.
LEMMA LoadRequests ==
  ASSUME Wires, user # NoUser, NEW s, NEW p, NEW i, NEW n \in Nat \ {0},
         Load(s, p, i, n)
  PROVE  Requests
<1>1. CASE IsConnected
  <2> DEFINE r == ListRequest(s, p, i)
  <2>1. Send([j \in 1..n |-> r])
    BY <1>1 DEF Load
  <2> HIDE DEF r
  <2>2. Sent(n, r)
    BY <2>1, SendCopies
  <2> QED
    BY <2>2, SentRequests
<1>2. CASE ~IsConnected
  BY <1>2 DEF Load, Requests
<1> QED
  BY <1>1, <1>2

\* Loading the page of today, for a user.
LEMMA TodayRequests ==
  ASSUME Wires, user # NoUser, NEW s, NEW p, LoadToday(s, p)
  PROVE  Requests
<1> DEFINE t == [ResetPreview(p) EXCEPT !.date = Today]
           n == IF p.date = Today THEN 1 ELSE 2
<1>1. Load(s, t, 1, n) /\ n \in Nat \ {0}
  BY DEF LoadToday
<1> HIDE DEF t, n
<1> QED
  BY <1>1, LoadRequests

\* The clicks that ask are clicks of users: they are made on a page, in one of
\* its dialogs or on the way to it.
LEMMA ClicksAsk ==
  ASSUME IInv, GateInv, UserStep
  PROVE  Requests
<1>0. Wires /\ 1 \in Nat \ {0} /\ "monitor" \notin Scopes \cup {"log"}
  BY DEF IInv, Shapes, Scopes
<1>1. CASE wire' = wire
  BY <1>1 DEF Requests
<1>2. CASE OpenLogin \/ \E t \in PlainTabs : SwitchTo(t)
  BY <1>1, <1>2 DEF OpenLogin, SwitchTo, api
<1>3. CASE Login
  <2>1. PICK u : Send(<<LoginRequest(u)>>)
    BY <1>3 DEF Login
  <2>2. LoginRequest(u).type = "LOGIN"
    BY DEF LoginRequest
  <2> QED
    BY <1>0, <2>1, <2>2, OneSent
<1>4. ASSUME NEW s \in Scopes, SwitchToReview(s) PROVE Requests
  <2>1. user # NoUser /\ LoadToday(s, page[s])
    BY <1>0, <1>4 DEF SwitchToReview, MayEnter, RefreshData
  <2> QED
    BY <1>0, <2>1, TodayRequests
<1>5. ASSUME user # NoUser, NEW mode, NEW n, LoadLog(mode, n) PROVE Requests
  <2>1. Send(<<LogRequest(mode, n)>>) \/ wire' = wire
    BY <1>5 DEF LoadLog
  <2> QED
    BY <1>0, <1>1, <1>5, <2>1, OneSent
<1>6. CASE SwitchToLog
  <2>1. user # NoUser /\ LoadLog(log.mode, 1)
    BY <1>6 DEF SwitchToLog, MayEnter
  <2> QED
    BY <1>5, <2>1
<1>7. CASE ClickLog
  <2>1. user # NoUser
    BY <1>7 DEF ClickLog, At, GateInv, OnlyUsersAsk
  <2>2. PICK b : LoadLog(b[1], b[2])
    BY <1>7 DEF ClickLog
  <2> QED
    BY <1>5, <2>1, <2>2
<1>8. CASE ReviewStep
  <2>1. ASSUME NEW s \in Scopes,
               \/ PrevPage(s) \/ NextPage(s) \/ ChangeDate(s)
               \/ ChangeChannel(s) \/ SwitchRecordMode(s)
        PROVE  Requests
    <3>1. user # NoUser
      <4>1. At(s)
        BY <2>1 DEF PrevPage, NextPage, ChangeDate, ChangeChannel,
                    SwitchRecordMode, Click
      <4> QED
        BY <1>0, <4>1 DEF At, GateInv, OnlyUsersAsk
    <3>2. (\E p, i : Load(s, p, i, 1)) \/ \E p : LoadToday(s, p)
      BY <2>1, Zenon DEF PrevPage, NextPage, ChangeDate, ChangeChannel,
                         SwitchRecordMode
    <3> QED
      BY <1>0, <3>1, <3>2, LoadRequests, TodayRequests
  <2>2. ASSUME NEW s \in Scopes,
               \/ SelectItem(s) \/ Play(s) \/ VideoFrame(s)
               \/ AskDelete(s) \/ OpenPreview(s) \/ AskSave(s)
        PROVE  Requests
    BY <1>1, <2>2 DEF SelectItem, Play, VideoFrame, AskDelete, OpenPreview,
                      AskSave, Open, api
  <2>3. CASE CloseDialog
    BY <1>1, <2>3 DEF CloseDialog, api
  <2>4. CASE ConfirmDelete \/ AskRelated \/ SaveFrame
    <3>1. user # NoUser
      BY <2>4 DEF ConfirmDelete, AskRelated, SaveFrame, GateInv
    <3>2. (\E r : Send(<<r>>)) \/ wire' = wire
      BY <2>4, Zenon DEF ConfirmDelete, AskRelated, SaveFrame,
                         InsertFeatureImageRecord
    <3> QED
      BY <1>0, <1>1, <3>1, <3>2, OneSent
  <2> QED
    BY <1>8, <2>1, <2>2, <2>3, <2>4 DEF ReviewStep, ReviewClick
<1> QED
  BY <1>2, <1>3, <1>4, <1>6, <1>7, <1>8 DEF UserStep

\* An answer that leads to a request is not that to a login, and so a user's.
LEMMA AnswersAsk ==
  ASSUME IInv, GateInv, Answers
  PROVE  Requests
<1>0. Wires /\ 1 \in Nat \ {0}
  BY DEF IInv, Shapes
<1>1. CASE wire' = wire
  BY <1>1 DEF Requests
<1>2. CASE \/ OnVideoListFinished \/ OnImageListFinished
           \/ OnInsertImageFinished \/ OnLoginFinished \/ OnLogListFinished
           \/ OnUploadFinished
  BY <1>1, <1>2
     DEF OnVideoListFinished, OnImageListFinished, OnInsertImageFinished,
         OnLoginFinished, OnLogListFinished, OnUploadFinished
<1>3. CASE OnRelatedVideoFinished \/ OnDeleteImagesFinished
  <2>1. inbound # <<>> /\ Answer.type # "LOGIN"
    BY <1>3 DEF OnRelatedVideoFinished, OnDeleteImagesFinished, Arrived,
                Answer
  <2>2. user # NoUser
    BY <2>1, AnswerIsMessage DEF GateInv, OnlyUsersAsk
  <2>3. wire' = wire \/ \E s, p, i : Load(s, p, i, 1)
    BY <1>3, Zenon
       DEF OnRelatedVideoFinished, OnDeleteImagesFinished, Ignored
  <2> QED
    BY <1>0, <1>1, <2>2, <2>3, LoadRequests
<1> QED
  BY <1>2, <1>3 DEF Answers, ReviewAnswer

\* No step asks for anything but for a user, or to become one.
LEMMA RequestsStep ==
  ASSUME IInv, GateInv, [Next]_vars
  PROVE  Requests
<1>0. Wires /\ 1 \in Nat \ {0}
  BY DEF IInv, Shapes
<1>1. CASE wire' = wire
  BY <1>1 DEF Requests
<1>2. CASE LinkUp \/ LinkLost \/ UNCHANGED vars
  BY <1>1, <1>2 DEF LinkUp, LinkLost, Disconnected, vars, api
<1>3. CASE RecordingFinished
  <2>1. user # NoUser /\ ((\E r : Send(<<r>>)) \/ wire' = wire)
    BY <1>3, Zenon DEF RecordingFinished, Upload
  <2> QED
    BY <1>0, <1>1, <2>1, OneSent
<1>4. CASE Server
  <2>1. wire # <<>> /\ wire' = Tail(wire)
    BY <1>4 DEF Server, HandleLogin, HandleQuery, HandleQueryLogList,
                HandleUpload, HandleInsertImage, HandleDeleteImages,
                Received, Reply
  <2> QED
    BY <1>0, <2>1, TailRange DEF Wires, Requests
<1> QED
  BY <1>2, <1>3, <1>4, ClicksAsk, AnswersAsk DEF Next

\* What a step puts on the way back: an answer to a request, that is a success
\* if it was let in, and without a number then if it is for the log page.  The
\* tables are changed by who was let in.
Told ==
  \A a \in Range(inbound') :
    \/ a \in Range(inbound)
    \/ \E r \in Range(wire) : /\ a.type = r.type
                              /\ a.ok = TRUE => Authorized(r)
                              /\ a.ok = TRUE /\ r.type = "LOG_LIST" =>
                                   a.id = 0

Stored ==
  \/ UNCHANGED <<videos, images>>
  \/ \E r \in Range(wire) : r.type # "LOGIN" /\ Authorized(r)

\* A reply that succeeds only for who is let in.
LEMMA ReplyTells ==
  ASSUME Wires, wire # <<>>, NEW id, NEW ok, NEW rows, NEW total,
         Reply(id, ok, rows, total),
         ok = TRUE => Authorized(Request),
         ok = TRUE /\ Request.type = "LOG_LIST" => id = 0
  PROVE  Told
<1> DEFINE answer == [id |-> id, type |-> Request.type, ok |-> ok,
                      rows |-> rows, total |-> total,
                      about |-> Request.about]
<1>1. inbound' = IF link # "up" THEN inbound ELSE Append(inbound, answer)
  BY DEF Reply
<1>2. answer.id = id /\ answer.type = Request.type /\ answer.ok = ok
  OBVIOUS
<1> HIDE DEF answer
<1>3. Request \in Range(wire)
  BY TailRange DEF Wires, Request
<1>4. \A a \in Range(inbound') : a \in Range(inbound) \/ a = answer
  BY <1>1, AppendRange DEF Wires
<1> QED
  BY <1>2, <1>3, <1>4 DEF Told

\* A handler that refuses leaves everything as it was.
LEMMA ServerTells ==
  ASSUME Wires, Server
  PROVE  Told /\ Stored
<1>0. wire # <<>>
  BY DEF Server, HandleLogin, HandleQuery, HandleQueryLogList,
         HandleUpload, HandleInsertImage, HandleDeleteImages, Received
<1>1. Request \in Range(wire)
  BY <1>0, TailRange DEF Wires, Request
<1>2. CASE HandleLogin
  <2>1. Request.type = "LOGIN" /\ \E ok : Reply(Request.id, ok, <<>>, 0)
    BY <1>2 DEF HandleLogin, Received
  <2>2. Told
    BY <1>0, <2>1, ReplyTells DEF Authorized
  <2> QED
    BY <1>2, <2>2 DEF HandleLogin, server, Stored
<1>3. CASE HandleQuery
  <2>1. PICK a \in Served(Found(Request), Refused) :
          Reply(Request.id, a.ok, a.rows, a.total)
    BY <1>3 DEF HandleQuery
  <2>2. a.ok = TRUE => Authorized(Request)
    BY <2>1 DEF Served, Refused
  <2>3. Request.type # "LOG_LIST"
    BY <1>3 DEF HandleQuery, Received
  <2>4. Told
    BY <1>0, <2>1, <2>2, <2>3, ReplyTells
  <2> QED
    BY <1>3, <2>4 DEF HandleQuery, server, Stored
<1>4. CASE HandleQueryLogList
  <2> DEFINE given == {<<0, TRUE>>, <<0, FALSE>>}
             refusal == <<Request.id, FALSE>>
  <2>1. PICK answer \in Served(given, refusal) :
          Reply(answer[1], answer[2], <<>>, 0)
    BY <1>4, Zenon DEF HandleQueryLogList
  <2>2. IF Authorized(Request) THEN answer \in given ELSE answer = refusal
    BY <2>1 DEF Served
  <2>3. refusal[2] = FALSE
    OBVIOUS
  <2>4. \A g \in given : g[1] = 0
    <3>1. <<0, TRUE>>[1] = 0 /\ <<0, FALSE>>[1] = 0
      OBVIOUS
    <3> QED
      BY <3>1, Zenon
  <2> HIDE DEF given, refusal
  <2>5. answer[2] = TRUE => Authorized(Request) /\ answer[1] = 0
    BY <2>2, <2>3, <2>4
  <2>6. Told
    BY <1>0, <2>1, <2>5, ReplyTells
  <2> QED
    BY <1>4, <2>6 DEF HandleQueryLogList, server, Stored
<1>5. ASSUME NEW e, NEW outcomes, NEW table,
             e \in Served(outcomes, [ok |-> FALSE, table |-> table]),
             Reply(Request.id, e.ok, <<>>, 0),
             Request.type \notin {"LOGIN", "LOG_LIST"},
             e.table = table => UNCHANGED <<videos, images>>
      PROVE  Told /\ Stored
  <2>1. \/ Authorized(Request)
        \/ e.ok = FALSE /\ e.table = table
    BY <1>5 DEF Served
  <2>2. Told
    BY <1>0, <1>5, <2>1, ReplyTells
  <2> QED
    BY <1>1, <1>5, <2>1, <2>2 DEF Stored
<1>6. CASE HandleUpload
  <2>1. PICK e \in Served(Edits(<<videos, images>>,
                                <<videos \cup {Request.about.video},
                                  images \cup Request.about.images>>),
                          [ok |-> FALSE, table |-> <<videos, images>>]) :
          /\ videos' = e.table[1] /\ images' = e.table[2]
          /\ Reply(Request.id, e.ok, <<>>, 0)
    BY <1>6, Zenon DEF HandleUpload
  <2>2. e.table = <<videos, images>> => UNCHANGED <<videos, images>>
    BY <2>1
  <2>3. Request.type \notin {"LOGIN", "LOG_LIST"}
    BY <1>6 DEF HandleUpload, Received
  <2> QED
    BY <1>5, <2>1, <2>2, <2>3, Zenon
<1>7. CASE HandleInsertImage
  <2>1. PICK e \in Served(InsertImage(images, SnapshotRow(Request.about)),
                          [ok |-> FALSE, table |-> images]) :
          images' = e.table /\ Reply(Request.id, e.ok, <<>>, 0)
    BY <1>7, Zenon DEF HandleInsertImage
  <2>2. e.table = images => UNCHANGED <<videos, images>>
    BY <1>7, <2>1 DEF HandleInsertImage
  <2>3. Request.type \notin {"LOGIN", "LOG_LIST"}
    BY <1>7 DEF HandleInsertImage, Received
  <2> QED
    BY <1>5, <2>1, <2>2, <2>3, Zenon
<1>8. CASE HandleDeleteImages
  <2>1. PICK e \in Served(DeleteImages(images, Request.about.ids),
                          [ok |-> FALSE, table |-> images]) :
          images' = e.table /\ Reply(Request.id, e.ok, <<>>, 0)
    BY <1>8, Zenon DEF HandleDeleteImages
  <2>2. e.table = images => UNCHANGED <<videos, images>>
    BY <1>8, <2>1 DEF HandleDeleteImages
  <2>3. Request.type \notin {"LOGIN", "LOG_LIST"}
    BY <1>8 DEF HandleDeleteImages, Received
  <2> QED
    BY <1>5, <2>1, <2>2, <2>3, Zenon
<1> QED
  BY <1>2, <1>3, <1>4, <1>6, <1>7, <1>8 DEF Server

\* What the client does is to take answers, or to lose them.
TakesOnly ==
  /\ UNCHANGED server
  /\ \/ inbound' = inbound
     \/ inbound' = <<>>
     \/ inbound # <<>> /\ inbound' = Tail(inbound)

\* The user takes nothing from the connection, and a recording neither.
LEMMA UserTakesNothing ==
  ASSUME UserStep \/ RecordingFinished
  PROVE  UNCHANGED <<server, inbound>>
<1>1. CASE OpenLogin \/ Login \/ SwitchToLog \/ ClickLog
           \/ (\E t \in PlainTabs : SwitchTo(t))
           \/ (\E s \in Scopes : SwitchToReview(s))
           \/ RecordingFinished
  BY <1>1 DEF OpenLogin, Login, SwitchToLog, ClickLog, SwitchTo,
              SwitchToReview, RecordingFinished, api
<1>2. CASE ReviewStep
  <2>1. UNCHANGED server
    BY <1>2 DEF ReviewStep
  <2>2. inbound' = inbound
    <3>1. ASSUME NEW s \in Scopes, ReviewClick(s) PROVE inbound' = inbound
      BY <3>1 DEF ReviewClick, PrevPage, NextPage, ChangeDate,
         ChangeChannel, SwitchRecordMode, Click, SelectItem, Play,
         VideoFrame, AskDelete, OpenPreview, AskSave, Open, api
    <3>2. CASE CloseDialog \/ ConfirmDelete \/ AskRelated \/ SaveFrame
      BY <3>2 DEF CloseDialog, ConfirmDelete, AskRelated, SaveFrame, api
    <3> QED
      BY <1>2, <3>1, <3>2 DEF ReviewStep
  <2> QED
    BY <2>1, <2>2
<1> QED
  BY <1>1, <1>2 DEF UserStep

\* So does every other step but those of the server.
LEMMA ClientTakes ==
  ASSUME [Next]_vars, ~Server
  PROVE  TakesOnly
<1>1. CASE LinkUp \/ LinkLost \/ UNCHANGED vars
  BY <1>1 DEF TakesOnly, LinkUp, LinkLost, Disconnected, vars, api
<1>2. CASE Answers
  BY <1>2 DEF TakesOnly, Answers, ReviewAnswer, OnVideoListFinished,
     OnImageListFinished, OnInsertImageFinished, OnRelatedVideoFinished,
     OnDeleteImagesFinished, OnLoginFinished, OnLogListFinished,
     OnUploadFinished, Taken, Arrived
<1> QED
  BY <1>1, <1>2, UserTakesNothing DEF Next, TakesOnly

\* The answers and the tables after any step of the program.
LEMMA AnswersStep ==
  ASSUME IInv, [Next]_vars
  PROVE  Told /\ Stored
<1>0. Wires
  BY DEF IInv, Shapes
<1>1. CASE Server
  BY <1>0, <1>1, ServerTells
<1>2. CASE ~Server
  <2>1. TakesOnly
    BY <1>2, ClientTakes
  <2>2. CASE inbound' = <<>>
    BY <2>1, <2>2 DEF TakesOnly, Told, Stored, server, Range
  <2>3. CASE inbound # <<>> /\ inbound' = Tail(inbound)
    BY <1>0, <2>1, <2>3, TailRange
       DEF TakesOnly, Told, Stored, server, Wires
  <2> QED
    BY <2>1, <2>2, <2>3 DEF TakesOnly, Told, Stored, server
<1> QED
  BY <1>1, <1>2

\* What a step does to who is in: a login that is awaited lets in the name that
\* was typed, and keeps the token; pages and dialogs are brought up for users.
Entry ==
  /\ \/ user' = user /\ token' \in {token, "given"}
     \/ /\ login.wait # 0 /\ user' = login.name
        /\ SendsToken => token' = "given"
  /\ ~SendsToken => token' = token
  /\ \/ login'.wait = 0
     \/ login' = login
     \/ login'.name \in Users
  /\ tab' \in {tab, "monitor"} \/ user # NoUser
  /\ modal'.kind \in {modal.kind, "", "login"} \/ user # NoUser

\* Who is in after any step of the program.
LEMMA EntryStep ==
  ASSUME IInv, GateInv, [Next]_vars
  PROVE  Entry
<1>0. "wait" \in DOMAIN login /\ "monitor" \notin Scopes
  BY DEF IInv, Shapes, Scopes
<1>1. NoModal.kind = ""
  BY DEF NoModal
<1>2. ASSUME UNCHANGED <<user, token, login>>,
             tab' = tab \/ tab' = "monitor" \/ user # NoUser,
             modal' = modal \/ modal' = NoModal \/ user # NoUser
      PROVE  Entry
  BY <1>1, <1>2 DEF Entry
<1>3. CASE LinkUp \/ OnLogListFinished \/ OnUploadFinished
           \/ RecordingFinished \/ UNCHANGED vars
  BY <1>2, <1>3 DEF LinkUp, OnLogListFinished, OnUploadFinished,
     RecordingFinished, vars, api, review, windows
<1>4. CASE LinkLost
  <2>1. login' = [login EXCEPT !.wait = 0]
        /\ UNCHANGED <<user, token, tab, modal>>
    BY <1>4 DEF LinkLost, Disconnected, review
  <2>2. login'.wait = 0
    BY <1>0, <2>1
  <2> QED
    BY <2>1, <2>2 DEF Entry
<1>5. CASE OpenLogin
  <2>1. modal' = [NoModal EXCEPT !.kind = "login"] /\ "kind" \in DOMAIN NoModal
    BY <1>5, Zenon DEF OpenLogin, NoModal
  <2>2. modal'.kind = "login"
    BY <2>1, Zenon
  <2>3. UNCHANGED <<user, token, login, tab>>
    BY <1>5 DEF OpenLogin, api, windows
  <2> QED
    BY <2>2, <2>3 DEF Entry
<1>6. CASE Login
  <2>1. login'.name \in Users /\ UNCHANGED <<user, token, tab, modal>>
    BY <1>6 DEF Login, review
  <2> QED
    BY <2>1 DEF Entry
<1>7. CASE OnLoginFinished
  <2>1. /\ tab' = tab /\ modal'.kind \in {modal.kind, ""}
        /\ token' = IF SendsToken /\ Answer.ok THEN "given" ELSE token
    BY <1>1, <1>7 DEF OnLoginFinished, Keep
  <2>2. \/ login' = login /\ user' = user
        \/ /\ login.wait # 0 /\ login' = [login EXCEPT !.wait = 0]
           /\ user' = IF Answer.ok THEN login.name ELSE user
    BY <1>7, Zenon DEF OnLoginFinished
  <2>3. login' = login \/ login'.wait = 0
    BY <1>0, <2>2
  <2> QED
    BY <2>1, <2>2, <2>3 DEF Entry
<1>8. ASSUME NEW t \in PlainTabs, SwitchTo(t) PROVE Entry
  <2>1. UNCHANGED <<user, token, login, modal>> /\ tab' = t
        /\ (t = "monitor" \/ user # NoUser)
    BY <1>8 DEF SwitchTo, MayEnter, api, windows
  <2> QED
    BY <1>2, <2>1
<1>9. ASSUME NEW s \in Scopes, SwitchToReview(s) PROVE Entry
  <2>1. UNCHANGED <<user, token, login, modal>> /\ user # NoUser
    BY <1>0, <1>9 DEF SwitchToReview, MayEnter, windows
  <2> QED
    BY <1>2, <2>1
<1>10. CASE SwitchToLog \/ ClickLog
  BY <1>2, <1>10 DEF SwitchToLog, MayEnter, ClickLog, review
<1>11. CASE ReviewStep
  <2>1. UNCHANGED <<user, login>>
    BY <1>11 DEF ReviewStep, windows
  <2>2. ASSUME NEW s \in Scopes, ReviewClick(s) PROVE Entry
    <3>1. CASE PrevPage(s) \/ NextPage(s) \/ ChangeDate(s)
               \/ ChangeChannel(s) \/ SwitchRecordMode(s)
      BY <1>2, <2>1, <3>1, Zenon DEF PrevPage, NextPage, ChangeDate,
         ChangeChannel, SwitchRecordMode, Click
    <3>2. CASE SelectItem(s) \/ Play(s) \/ VideoFrame(s)
      BY <1>2, <2>1, <3>2 DEF SelectItem, Play, VideoFrame, api
    <3>3. CASE AskDelete(s) \/ OpenPreview(s) \/ AskSave(s)
      <4>1. At(s) /\ UNCHANGED <<token, tab>>
        BY <3>3 DEF AskDelete, OpenPreview, AskSave, Open, api
      <4>2. user # NoUser
        BY <1>0, <4>1 DEF At, GateInv, OnlyUsersAsk
      <4> QED
        BY <1>2, <2>1, <4>1, <4>2
    <3> QED
      BY <2>2, <3>1, <3>2, <3>3 DEF ReviewClick
  <2>3. CASE CloseDialog \/ ConfirmDelete \/ AskRelated \/ SaveFrame
    BY <1>2, <2>1, <2>3
       DEF CloseDialog, ConfirmDelete, AskRelated, SaveFrame, api
  <2> QED
    BY <1>11, <2>2, <2>3 DEF ReviewStep
<1>12. CASE ReviewAnswer
  BY <1>2, <1>12 DEF ReviewAnswer, OnVideoListFinished,
     OnImageListFinished, OnInsertImageFinished, OnRelatedVideoFinished,
     OnDeleteImagesFinished, windows
<1>13. CASE Server
  <2>1. UNCHANGED <<token, review, windows>>
    BY <1>13 DEF Server, HandleLogin, HandleQuery, HandleQueryLogList,
       HandleUpload, HandleInsertImage, HandleDeleteImages, Reply
  <2> QED
    BY <1>2, <2>1 DEF review, windows
<1> QED
  BY <1>3, <1>4, <1>5, <1>6, <1>7, <1>8, <1>9, <1>10, <1>11, <1>12, <1>13
     DEF Next, UserStep, Answers

\* The gate holds at the beginning, and every step leaves it.
LEMMA GateStep ==
  ASSUME IInv, GateInv, [Next]_vars
  PROVE  GateInv'
<1>1. Requests /\ Told /\ Entry
  BY RequestsStep, AnswersStep, EntryStep
<1>2. NoUser \notin Users /\ SendsToken \in BOOLEAN
  BY PagesAssumption, ApiAssumption
<1>3. user' = NoUser => user = NoUser /\ user' = user
  BY <1>1, <1>2 DEF Entry, GateInv
<1>4. login'.wait # 0 => login'.name \in Users
  BY <1>1 DEF Entry, GateInv
<1>5. user' = NoUser => tab' = "monitor" /\ modal'.kind \in {"", "login"}
  BY <1>1, <1>3 DEF Entry, GateInv, OnlyUsersAsk
<1>6. ASSUME user' = NoUser, NEW m \in Messages' PROVE m.type = "LOGIN"
  <2>1. \A r \in Messages : r.type = "LOGIN"
    BY <1>3, <1>6 DEF GateInv, OnlyUsersAsk
  <2>2. CASE m \in Range(wire')
    BY <1>1, <1>3, <1>6, <2>1, <2>2 DEF Requests, Messages
  <2>3. CASE m \in Range(inbound')
    BY <1>1, <2>1, <2>3 DEF Told, Messages
  <2> QED
    BY <1>6, <2>2, <2>3 DEF Messages
<1>7. ASSUME SendsToken
      PROVE  /\ user' # NoUser => token' # ""
             /\ \A m \in Range(wire') : m.type # "LOGIN" => m.token # ""
  <2>1. user' # NoUser => token' # ""
    BY <1>1, <1>7 DEF Entry, GateInv
  <2>2. /\ user # NoUser => token # ""
        /\ \A m \in Range(wire) : m.type # "LOGIN" => m.token # ""
    BY <1>7 DEF GateInv
  <2>3. \A m \in Range(wire') : m.type # "LOGIN" => m.token # ""
    BY <1>1, <2>2 DEF Requests
  <2> QED
    BY <2>1, <2>3
<1>8. OnlyUsersAsk'
  BY <1>5, <1>6 DEF OnlyUsersAsk
<1> QED
  BY <1>4, <1>5, <1>7, <1>8 DEF GateInv

\* The gate holds always.
LEMMA GateHolds == Spec => []GateInv
<1>1. Init => GateInv
  <2> SUFFICES ASSUME Init PROVE GateInv
    OBVIOUS
  <2>1. /\ wire = <<>> /\ inbound = <<>> /\ user = NoUser /\ tab = "monitor"
        /\ login.wait = 0 /\ modal = NoModal
    BY DEF Init, ApiInit
  <2>2. Range(wire) = {} /\ Messages = {}
    BY <2>1 DEF Messages, Range
  <2>3. user = NoUser /\ tab = "monitor" /\ login.wait = 0 /\ modal.kind = ""
    BY <2>1 DEF NoModal
  <2> QED
    BY <2>2, <2>3 DEF GateInv, OnlyUsersAsk
<1>2. IInv /\ GateInv /\ [Next]_vars => GateInv'
  BY GateStep
<1> QED
  BY <1>1, <1>2, IInvHolds, PTL DEF Spec

\* Nobody who has not logged in gets past the live view, or sends anything but
\* a login, whatever is clicked, answered and recorded (isLoggedIn of
\* MainWidget, before each of its pages).
THEOREM UsersAsk == Spec => []OnlyUsersAsk
<1>1. GateInv => OnlyUsersAsk
  BY DEF GateInv
<1> QED
  BY <1>1, GateHolds, PTL

\* All that keeps the server from serving who has logged in is that the client
\* does not send the token: if it did, every request after the login would
\* have one that is valid (makeRequest and isValidToken).
THEOREM TokenOpensGate ==
  ASSUME SendsToken
  PROVE  Spec => []LoggedInIsAuthorized
<1>1. GateInv => LoggedInIsAuthorized
  BY DEF GateInv, LoggedInIsAuthorized, Authorized
<1> QED
  BY <1>1, GateHolds, PTL
-----------------------------------------------------------------------------
(***************************************************************************)
(* What an answer moves.                                                   *)
(***************************************************************************)
\* A page or a window waits for the answer that has come.
Awaited(of) == \E w \in Waiters : w.of = of /\ w.id = Answer.id

\* An answer moves only what waits for its number: of two pages that asked for
\* the same thing the other one stays as it is, a late answer changes nothing,
\* and no file is deleted but for a page that waits for it.
OnlyTakersMove ==
  [][inbound # <<>> /\ inbound' = Tail(inbound) =>
       /\ \A s \in Scopes : ~Awaited(s) => page'[s] = page[s]
       /\ ~Awaited("login") => user' = user
       /\ ~Awaited("log") => log' = log
       /\ (\A s \in Scopes : ~Awaited(s)) => files' = files]_vars

\* A page that takes the answer waits for it.
LEMMA TakenIsAwaited ==
  ASSUME NEW s \in Scopes, NEW kind \in Kinds, Takes(page[s], kind)
  PROVE  Awaited(s)
<1> DEFINE w == [kind |-> kind, of |-> s, id |-> page[s].wait[kind]]
<1>1. w.of = s /\ w.id = Answer.id /\ w.id # 0
  BY DEF Takes
<1>2. w \in Waiters
  BY <1>1 DEF Waiters
<1> QED
  BY <1>1, <1>2 DEF Awaited

\* A window whose number is the one of the answer waits for it.
LEMMA WindowIsAwaited ==
  /\ login.wait # 0 /\ login.wait = Answer.id => Awaited("login")
  /\ log.wait # 0 /\ log.wait = Answer.id => Awaited("log")
<1> DEFINE u == [kind |-> "login", of |-> "login", id |-> login.wait]
           v == [kind |-> "log", of |-> "log", id |-> log.wait]
<1>1. ASSUME login.wait # 0, login.wait = Answer.id PROVE Awaited("login")
  <2>1. u.of = "login" /\ u.id = Answer.id /\ u \in Waiters
    BY <1>1 DEF Waiters
  <2> QED
    BY <2>1 DEF Awaited
<1>2. ASSUME log.wait # 0, log.wait = Answer.id PROVE Awaited("log")
  <2>1. v.of = "log" /\ v.id = Answer.id /\ v \in Waiters
    BY <1>2 DEF Waiters
  <2> QED
    BY <2>1 DEF Awaited
<1> QED
  BY <1>1, <1>2

\* The two ways in which pages take an answer: each looks at it for itself, ...
LEMMA BothLook ==
  ASSUME NEW kind \in Kinds, NEW heard,
         page' = [s \in Scopes |-> IF Takes(page[s], kind) THEN heard[s]
                                   ELSE page[s]]
  PROVE  \A s \in Scopes : ~Awaited(s) => page'[s] = page[s]
BY TakenIsAwaited

\* ... or one that waits for it loads.
LEMMA OneLoads ==
  ASSUME NEW s \in Scopes, NEW p, NEW i, NEW n, Load(s, p, i, n),
         DOMAIN page = Scopes, Awaited(s)
  PROVE  \A o \in Scopes : ~Awaited(o) => page'[o] = page[o]
<1>1. \E q : page' = [page EXCEPT ![s] = q]
  BY Zenon DEF Load
<1> QED
  BY <1>1

\* What an action may do that takes an answer.
TakersMove ==
  /\ \A s \in Scopes : ~Awaited(s) => page'[s] = page[s]
  /\ ~Awaited("login") => user' = user
  /\ ~Awaited("log") => log' = log
  /\ (\A s \in Scopes : ~Awaited(s)) => files' = files

\* The answers the review pages take.
LEMMA ReviewAnswersMove ==
  ASSUME IInv, ReviewAnswer
  PROVE  TakersMove
<1>0. DOMAIN page = Scopes
  BY DEF IInv, Shapes
<1>1. \A kind \in {"videos", "images", "insert", "related", "delete"} :
        kind \in Kinds
  BY DEF Kinds
<1>2. ASSUME NEW kind \in Kinds, NEW heard,
             page' = [s \in Scopes |-> IF Takes(page[s], kind) THEN heard[s]
                                       ELSE page[s]],
             UNCHANGED <<user, log, files>>
      PROVE  TakersMove
  BY <1>2, BothLook DEF TakersMove
<1>3. ASSUME NEW s \in Scopes, NEW kind \in Kinds, Takes(page[s], kind),
             NEW p, NEW i, Load(s, p, i, 1), UNCHANGED <<user, log>>
      PROVE  TakersMove
  BY <1>0, <1>3, TakenIsAwaited, OneLoads DEF TakersMove
<1>4. UNCHANGED <<user, log>>
  BY DEF ReviewAnswer, windows
<1>5. CASE OnVideoListFinished
  <2> DEFINE heard == [s \in Scopes |-> ListFinished(page[s], "video")]
  <2>1. page' = [s \in Scopes |-> IF Takes(page[s], "videos") THEN heard[s]
                                  ELSE page[s]]
    BY <1>5, Zenon DEF OnVideoListFinished, BothPages
  <2>2. UNCHANGED files
    BY <1>5 DEF OnVideoListFinished, disk
  <2> HIDE DEF heard
  <2> QED
    BY <1>1, <1>2, <1>4, <2>1, <2>2
<1>6. CASE OnImageListFinished
  <2> DEFINE heard == [s \in Scopes |-> ListFinished(page[s], "image")]
  <2>1. page' = [s \in Scopes |-> IF Takes(page[s], "images") THEN heard[s]
                                  ELSE page[s]]
    BY <1>6, Zenon DEF OnImageListFinished, BothPages
  <2>2. UNCHANGED files
    BY <1>6 DEF OnImageListFinished, disk
  <2> HIDE DEF heard
  <2> QED
    BY <1>1, <1>2, <1>4, <2>1, <2>2
<1>7. CASE OnInsertImageFinished
  <2> DEFINE heard == [s \in Scopes |-> [page[s] EXCEPT !.wait["insert"] = 0]]
  <2>1. page' = [s \in Scopes |-> IF Takes(page[s], "insert") THEN heard[s]
                                  ELSE page[s]]
    BY <1>7, Zenon DEF OnInsertImageFinished, BothPages
  <2>2. UNCHANGED files
    BY <1>7 DEF OnInsertImageFinished, disk
  <2> HIDE DEF heard
  <2> QED
    BY <1>1, <1>2, <1>4, <2>1, <2>2
<1>8. ASSUME NEW kind \in Kinds, Ignored(kind) PROVE TakersMove
  <2> DEFINE heard == [s \in Scopes |->
                         [page[s] EXCEPT !.wait[kind] = 0,
                                         !.pendingDelete =
                                           IF kind = "delete" THEN {}
                                           ELSE @]]
  <2>1. page' = [s \in Scopes |-> IF Takes(page[s], kind) THEN heard[s]
                                  ELSE page[s]]
    BY <1>8, Zenon DEF Ignored, BothPages
  <2>2. UNCHANGED files
    BY <1>8 DEF Ignored, disk
  <2> HIDE DEF heard
  <2> QED
    BY <1>2, <1>4, <2>1, <2>2
<1>9. CASE OnRelatedVideoFinished
  <2>1. \/ Ignored("related")
        \/ \E s \in Scopes : Takes(page[s], "related")
                             /\ \E p, i : Load(s, p, i, 1)
    BY <1>9, Zenon DEF OnRelatedVideoFinished
  <2> QED
    BY <1>1, <1>3, <1>4, <1>8, <2>1
<1>10. CASE OnDeleteImagesFinished
  <2>1. \/ Ignored("delete")
        \/ \E s \in Scopes : Takes(page[s], "delete")
                             /\ \E p, i : Load(s, p, i, 1)
    BY <1>10, Zenon DEF OnDeleteImagesFinished
  <2> QED
    BY <1>1, <1>3, <1>4, <1>8, <2>1
<1> QED
  BY <1>5, <1>6, <1>7, <1>9, <1>10 DEF ReviewAnswer

\* An answer moves the page or the window that waits for its number, and
\* nothing else: not the other page, and nothing at all if it comes too late
\* (the comparisons with m_videoListRequestId and the like).
THEOREM AnswersMoveTakers == Spec => OnlyTakersMove
<1>1. ASSUME IInv, [Next]_vars, inbound # <<>>, inbound' = Tail(inbound)
      PROVE  TakersMove
  <2>1. inbound' # inbound
    BY <1>1, HeadTailProperties DEF IInv, Shapes, Wires
  <2>2. ~(UserStep \/ RecordingFinished \/ LinkUp \/ UNCHANGED vars)
    BY <2>1, UserTakesNothing DEF LinkUp, vars, api
  <2>3. CASE LinkLost \/ OnUploadFinished
    BY <2>3 DEF TakersMove, LinkLost, OnUploadFinished, review, windows, disk
  <2>4. CASE Server
    <3>1. UNCHANGED <<review, windows>>
      BY <2>4 DEF Server, HandleLogin, HandleQuery, HandleQueryLogList,
         HandleUpload, HandleInsertImage, HandleDeleteImages, Reply
    <3> QED
      BY <3>1 DEF TakersMove, review, windows, disk
  <2>5. CASE OnLoginFinished
    <3>1. UNCHANGED <<page, log, files>>
      BY <2>5 DEF OnLoginFinished, disk
    <3>2. (login.wait # 0 /\ login.wait = Answer.id) \/ user' = user
      BY <2>5 DEF OnLoginFinished
    <3> QED
      BY <3>1, <3>2, WindowIsAwaited DEF TakersMove
  <2>6. CASE OnLogListFinished
    <3>1. UNCHANGED <<page, user, files>>
      BY <2>6 DEF OnLogListFinished, review, disk
    <3>2. (log.wait # 0 /\ log.wait = Answer.id) \/ log' = log
      BY <2>6, Zenon DEF OnLogListFinished
    <3> QED
      BY <3>1, <3>2, WindowIsAwaited DEF TakersMove
  <2>7. CASE ReviewAnswer
    BY <1>1, <2>7, ReviewAnswersMove
  <2> QED
    BY <1>1, <2>2, <2>3, <2>4, <2>5, <2>6, <2>7 DEF Next, Answers
<1>2. IInv /\ [Next]_vars =>
        [inbound # <<>> /\ inbound' = Tail(inbound) =>
           /\ \A s \in Scopes : ~Awaited(s) => page'[s] = page[s]
           /\ ~Awaited("login") => user' = user
           /\ ~Awaited("log") => log' = log
           /\ (\A s \in Scopes : ~Awaited(s)) => files' = files]_vars
  BY <1>1 DEF TakersMove
<1> QED
  BY <1>2, IInvHolds, PTL DEF Spec, OnlyTakersMove
-----------------------------------------------------------------------------
(***************************************************************************)
(* What comes to be shown.                                                 *)
(***************************************************************************)
\* The list of a page is filled by a list that came, and the log page by an
\* answer with a number; otherwise they may only be emptied.
Fills(types) ==
  inbound # <<>> /\ Answer.ok = TRUE /\ Answer.type \in types

Shows ==
  /\ \A s \in Scopes : \/ page'[s].shown \in {page[s].shown, NoList}
                       \/ Fills({"VIDEO_LIST", "IMAGE_LIST"})
  /\ \/ log'.shown \in {log.shown, NoList}
     \/ Fills({"LOG_LIST"}) /\ Answer.id # 0

\* A page that changes, under the same list or an empty one.
LEMMA OneShows ==
  ASSUME IInv, NEW s \in Scopes, NEW q,
         q.shown \in {page[s].shown, NoList},
         page' = [page EXCEPT ![s] = q]
  PROVE  \A o \in Scopes : page'[o].shown \in {page[o].shown, NoList}
<1>1. DOMAIN page = Scopes
  BY DEF IInv, Shapes
<1> QED
  BY <1>1

\* Loading a page empties its list.
LEMMA LoadShows ==
  ASSUME IInv, NEW s \in Scopes, NEW p, IsPage(p), SameRows(p, page[s]),
         NEW i, NEW n, Load(s, p, i, n)
  PROVE  \A o \in Scopes : page'[o].shown \in {page[o].shown, NoList}
<1> DEFINE q == Loading(p, i, LastId(n))
<1>0. LoadedFrom(q, p, i, LastId(n))
  BY LoadingFrom, Zenon
<1> HIDE DEF q
<1>1. q.shown = NoList
  BY <1>0 DEF LoadedFrom
<1>2. \/ page' = [page EXCEPT ![s] = q]
      \/ page' = [page EXCEPT ![s] = p]
  BY Zenon DEF Load, q
<1>3. p.shown \in {page[s].shown, NoList} /\ q.shown \in {page[s].shown, NoList}
  BY <1>1 DEF SameRows
<1> QED
  BY <1>2, <1>3, OneShows

\* Loading the page of today does too.
LEMMA TodayShows ==
  ASSUME IInv, NEW s \in Scopes, NEW p, Reset(p, page[s]), LoadToday(s, p)
  PROVE  \A o \in Scopes : page'[o].shown \in {page[o].shown, NoList}
<1> DEFINE t == [ResetPreview(p) EXCEPT !.date = Today]
           n == IF p.date = Today THEN 1 ELSE 2
<1>1. Load(s, t, 1, n)
  BY DEF LoadToday
<1>2. Reset(t, page[s])
  BY TodayPage
<1> HIDE DEF t, n
<1> QED
  BY <1>1, <1>2, LoadShows DEF Reset

\* The clicks of a review page.
LEMMA ClicksShow ==
  ASSUME IInv, DialogOfPage, ReviewStep
  PROVE  \A o \in Scopes : page'[o].shown \in {page[o].shown, NoList}
<1>0. \A s \in Scopes : IsPage(page[s]) /\ Reset(page[s], page[s])
  BY DEF IInv, Shapes, Reset, SameRows
<1>1. CASE page' = page
  BY <1>1
<1>2. ASSUME NEW s \in Scopes, NEW p, Reset(p, page[s]), NEW i,
             Load(s, p, i, 1)
      PROVE  \A o \in Scopes : page'[o].shown \in {page[o].shown, NoList}
  BY <1>2, LoadShows DEF Reset
<1>3. ASSUME NEW s \in Scopes, NEW q, SameRows(q, page[s]),
             page' = [page EXCEPT ![s] = q]
      PROVE  \A o \in Scopes : page'[o].shown \in {page[o].shown, NoList}
  BY <1>3, OneShows DEF SameRows
<1>4. ASSUME NEW s \in Scopes, ReviewClick(s)
      PROVE  \A o \in Scopes : page'[o].shown \in {page[o].shown, NoList}
  <2>1. CASE PrevPage(s) \/ NextPage(s)
    <3>1. \E i : Load(s, page[s], i, 1)
      BY <2>1, Zenon DEF PrevPage, NextPage
    <3> QED
      BY <1>0, <1>2, <3>1
  <2>2. CASE ChangeDate(s)
    <3>1. PICK d : Load(s, [ResetPreview(page[s]) EXCEPT !.date = d], 1, 1)
      BY <2>2, Zenon DEF ChangeDate
    <3> DEFINE p == [ResetPreview(page[s]) EXCEPT !.date = d]
    <3>2. Reset(p, page[s]) /\ Load(s, p, 1, 1)
      BY <1>0, <3>1, ControlledPage, Zenon
    <3> HIDE DEF p
    <3> QED
      BY <1>2, <3>2
  <2>3. CASE ChangeChannel(s)
    <3>1. PICK c : Load(s, [ResetPreview(page[s]) EXCEPT !.channel = c], 1, 1)
      BY <2>3, Zenon DEF ChangeChannel
    <3> DEFINE p == [ResetPreview(page[s]) EXCEPT !.channel = c]
    <3>2. Reset(p, page[s]) /\ Load(s, p, 1, 1)
      BY <1>0, <3>1, ControlledPage, Zenon
    <3> HIDE DEF p
    <3> QED
      BY <1>2, <3>2
  <2>4. CASE SwitchRecordMode(s)
    <3>1. PICK mode \in {"video", "image"} :
            LoadToday(s, [page[s] EXCEPT !.mode = mode])
      BY <2>4, Zenon DEF SwitchRecordMode
    <3> DEFINE p == [page[s] EXCEPT !.mode = mode]
    <3>2. Reset(p, page[s]) /\ LoadToday(s, p)
      BY <1>0, <3>1, ControlledPage, Zenon
    <3> HIDE DEF p
    <3> QED
      BY <3>2, TodayShows
  <2>5. CASE SelectItem(s) \/ Play(s) \/ VideoFrame(s)
    <3>1. CASE SelectItem(s)
      <4>1. PICK row : page' = [page EXCEPT
              ![s] = [@ EXCEPT !.path = row.path, !.channelid = row.channel,
                               !.late = page[s].loaded, !.loaded = NoPath,
                               !.frame = NoPath]]
        BY <3>1, Zenon DEF SelectItem
      <4>2. \E q : page' = [page EXCEPT ![s] = q] /\ Untouched(q, page[s])
        BY <1>0, <4>1, MovedPage, Zenon
      <4> QED
        BY <1>3, <4>2 DEF Untouched
    <3>2. CASE Play(s)
      <4>1. page' = [page EXCEPT ![s] = [@ EXCEPT !.loaded = page[s].path]]
        BY <3>2, Zenon DEF Play
      <4>2. \E q : page' = [page EXCEPT ![s] = q] /\ Untouched(q, page[s])
        BY <1>0, <4>1, MovedPage, Zenon
      <4> QED
        BY <1>3, <4>2 DEF Untouched
    <3>3. CASE VideoFrame(s)
      <4>1. PICK a, b :
              page' = [page EXCEPT ![s] = [@ EXCEPT !.frame = a, !.late = b]]
        BY <3>3, Zenon DEF VideoFrame
      <4>2. \E q : page' = [page EXCEPT ![s] = q] /\ Untouched(q, page[s])
        BY <1>0, <4>1, MovedPage, Zenon
      <4> QED
        BY <1>3, <4>2 DEF Untouched
    <3> QED
      BY <2>5, <3>1, <3>2, <3>3
  <2>6. CASE AskDelete(s) \/ OpenPreview(s) \/ AskSave(s)
    BY <1>1, <2>6 DEF AskDelete, OpenPreview, AskSave, Open
  <2> QED
    BY <1>4, <2>1, <2>2, <2>3, <2>4, <2>5, <2>6 DEF ReviewClick
<1>5. CASE CloseDialog
  BY <1>1, <1>5 DEF CloseDialog
<1>6. CASE ConfirmDelete \/ AskRelated \/ SaveFrame
  <2> DEFINE s == modal.scope
  <2>1. s \in Scopes
    BY <1>6 DEF ConfirmDelete, AskRelated, SaveFrame, DialogOfPage
  <2>2. "delete" \in Kinds /\ "related" \in Kinds /\ "insert" \in Kinds
    BY DEF Kinds
  <2>3. \/ page' = page
        \/ \E q, kind : /\ page' = [page EXCEPT ![s] = q]
                        /\ Waits(q, page[s], kind, LastId(1))
    <3>1. CASE ConfirmDelete
      <4>1. page' = [page EXCEPT
                      ![s] = [@ EXCEPT !.pendingDelete = modal.images,
                                       !.wait["delete"] = LastId(1)]]
        BY <3>1, Zenon DEF ConfirmDelete
      <4> QED
        BY <1>0, <2>1, <2>2, <4>1, WaitingPage, Zenon
    <3>2. CASE AskRelated
      <4>1. PICK image :
              page' = [page EXCEPT
                        ![s] = [@ EXCEPT !.pendingTime = image.at,
                                         !.wait["related"] = LastId(1)]]
        BY <3>2, Zenon DEF AskRelated
      <4> QED
        BY <1>0, <2>1, <2>2, <4>1, WaitingPage, Zenon
    <3>3. CASE SaveFrame
      <4>1. \/ page' = page
            \/ page' = [page EXCEPT
                         ![s] = [@ EXCEPT !.wait["insert"] = LastId(1)]]
        BY <3>3, Zenon DEF SaveFrame, InsertFeatureImageRecord
      <4> QED
        BY <1>0, <2>1, <2>2, <4>1, WaitingPage, Zenon
    <3> QED
      BY <1>6, <3>1, <3>2, <3>3
  <2> HIDE DEF s
  <2> QED
    BY <1>1, <1>3, <2>1, <2>3 DEF Waits
<1> QED
  BY <1>4, <1>5, <1>6 DEF ReviewStep

\* A list is filled by an answer that is a success.
LEMMA HeardShows ==
  ASSUME NEW p, IsPage(p), NEW mode \in {"video", "image"}
  PROVE  \/ ListFinished(p, mode).shown \in {p.shown, NoList}
         \/ Answer.ok = TRUE
<1> DEFINE heard == [p EXCEPT !.wait[ListKind(mode)] = 0]
           q == ListFinished(p, mode)
<1>0. ListKind(mode) \in Kinds
  BY DEF ListKind, Kinds
<1>1. Waits(heard, p, ListKind(mode), 0)
  BY <1>0, WaitingPage, Zenon
<1>2. CASE p.mode # mode
  <2>1. q = heard
    BY <1>2, Zenon DEF ListFinished
  <2> QED
    BY <1>1, <2>1 DEF Waits, SameRows
<1>3. CASE p.mode = mode
  <2>1. q = [heard EXCEPT
               !.loading = FALSE,
               !.shown = IF Answer.ok
                         THEN [query |-> Answer.about, rows |-> Answer.rows]
                         ELSE NoList,
               !.detail = IF Answer.ok /\ mode = "image"
                          THEN Range(Answer.rows) ELSE {},
               !.totalPage = IF Answer.ok THEN PageCount(Answer.total)
                             ELSE p.curPage]
    BY <1>3, Zenon DEF ListFinished
  <2> HIDE DEF heard, q
  <2>2. \A f \in PageFields : f \in DOMAIN heard
    BY <1>1, Fields DEF Waits
  <2>3. q.shown = IF Answer.ok
                  THEN [query |-> Answer.about, rows |-> Answer.rows]
                  ELSE NoList
    BY <2>1, <2>2, Zenon DEF PageFields
  <2>4. q.shown = NoList \/ Answer.ok = TRUE
    BY <2>3
  <2> QED
    BY <2>4 DEF q
<1> QED
  BY <1>2, <1>3

\* The answers the review pages take.
LEMMA AnswersShow ==
  ASSUME IInv, ReviewAnswer
  PROVE  \A s \in Scopes : \/ page'[s].shown \in {page[s].shown, NoList}
                           \/ Fills({"VIDEO_LIST", "IMAGE_LIST"})
<1>0. \A s \in Scopes : IsPage(page[s])
  BY DEF IInv, Shapes
<1>1. "related" \in Kinds /\ "delete" \in Kinds /\ "insert" \in Kinds
  BY DEF Kinds
<1>2. CASE OnVideoListFinished
  <2>1. inbound # <<>> /\ Answer.type = "VIDEO_LIST"
    BY <1>2 DEF OnVideoListFinished, Arrived, Answer
  <2>2. \A s \in Scopes :
          page'[s] \in {page[s], ListFinished(page[s], "video")}
    BY <1>2, Zenon DEF OnVideoListFinished, BothPages
  <2> QED
    BY <1>0, <2>1, <2>2, HeardShows DEF Fills
<1>3. CASE OnImageListFinished
  <2>1. inbound # <<>> /\ Answer.type = "IMAGE_LIST"
    BY <1>3 DEF OnImageListFinished, Arrived, Answer
  <2>2. \A s \in Scopes :
          page'[s] \in {page[s], ListFinished(page[s], "image")}
    BY <1>3, Zenon DEF OnImageListFinished, BothPages
  <2> QED
    BY <1>0, <2>1, <2>2, HeardShows DEF Fills
<1>4. ASSUME NEW s \in Scopes, NEW kind \in Kinds,
             page'[s] = page[s] \/ Waits(page'[s], page[s], kind, 0)
      PROVE  page'[s].shown \in {page[s].shown, NoList}
  BY <1>4 DEF Waits, SameRows
<1>5. CASE OnInsertImageFinished
  <2>1. \A s \in Scopes :
          \/ page'[s] = page[s]
          \/ page'[s] = [page[s] EXCEPT !.wait["insert"] = 0]
    BY <1>5, Zenon DEF OnInsertImageFinished, BothPages
  <2>2. \A s \in Scopes :
          Waits([page[s] EXCEPT !.wait["insert"] = 0], page[s], "insert", 0)
    BY <1>0, <1>1, WaitingPage
  <2> QED
    BY <1>1, <1>4, <2>1, <2>2
<1>6. ASSUME NEW kind \in Kinds, Ignored(kind), NEW s \in Scopes
      PROVE  page'[s].shown \in {page[s].shown, NoList}
  <2> DEFINE a == IF kind = "delete" THEN {} ELSE page[s].pendingDelete
             q == [page[s] EXCEPT !.wait[kind] = 0, !.pendingDelete = a]
  <2>1. page' = [o \in Scopes |->
                   IF Takes(page[o], kind)
                   THEN [page[o] EXCEPT !.wait[kind] = 0,
                                        !.pendingDelete =
                                          IF kind = "delete" THEN {} ELSE @]
                   ELSE page[o]]
    BY <1>6, Zenon DEF Ignored, BothPages
  <2>2. page'[s] = q \/ page'[s] = page[s]
    BY <2>1, Zenon
  <2> HIDE DEF a
  <2>3. Waits(q, page[s], kind, 0)
    BY <1>0, WaitingPage, Zenon
  <2> HIDE DEF q
  <2> QED
    BY <1>4, <2>2, <2>3
<1>7. CASE OnRelatedVideoFinished
  <2>1. CASE Ignored("related")
    BY <1>1, <1>6, <2>1
  <2>2. ASSUME NEW s \in Scopes,
               Load(s, ShowingRelated(page[s], Head(Answer.rows)), 1, 1)
        PROVE  \A o \in Scopes : page'[o].shown \in {page[o].shown, NoList}
    <3> DEFINE p == ShowingRelated(page[s], Head(Answer.rows))
    <3>1. Answered(p, page[s], "related")
      BY <1>0, RelatedPage, Zenon
    <3>2. Load(s, p, 1, 1)
      BY <2>2
    <3> HIDE DEF p
    <3> QED
      BY <3>1, <3>2, LoadShows DEF Answered
  <2> QED
    BY <1>7, <2>1, <2>2, Zenon DEF OnRelatedVideoFinished
<1>8. CASE OnDeleteImagesFinished
  <2>1. CASE Ignored("delete")
    BY <1>1, <1>6, <2>1
  <2>2. ASSUME NEW s \in Scopes,
               Load(s, [page[s] EXCEPT !.wait["delete"] = 0,
                                       !.pendingDelete = {}, !.path = NoPath],
                    page[s].curPage, 1)
        PROVE  \A o \in Scopes : page'[o].shown \in {page[o].shown, NoList}
    <3> DEFINE p == [page[s] EXCEPT !.wait["delete"] = 0,
                                    !.pendingDelete = {}, !.path = NoPath]
    <3>1. Answered(p, page[s], "delete")
      BY <1>0, DeletedPage, Zenon
    <3>2. Load(s, p, page[s].curPage, 1)
      BY <2>2
    <3> HIDE DEF p
    <3> QED
      BY <3>1, <3>2, LoadShows DEF Answered
  <2> QED
    BY <1>8, <2>1, <2>2, Zenon DEF OnDeleteImagesFinished
<1> QED
  BY <1>2, <1>3, <1>5, <1>7, <1>8 DEF ReviewAnswer

\* What is shown after any step of the program.
LEMMA ShowsStep ==
  ASSUME IInv, DialogOfPage, "shown" \in DOMAIN log, [Next]_vars
  PROVE  Shows /\ "shown" \in DOMAIN log'
<1>1. CASE page' = page /\ log' = log
  BY <1>1 DEF Shows
<1>2. CASE \/ LinkUp \/ LinkLost \/ OpenLogin \/ Login \/ OnLoginFinished
           \/ OnUploadFinished \/ RecordingFinished \/ UNCHANGED vars
           \/ \E t \in PlainTabs : SwitchTo(t)
  BY <1>1, <1>2 DEF LinkUp, LinkLost, OpenLogin, Login, OnLoginFinished,
     OnUploadFinished, RecordingFinished, SwitchTo, vars, review, windows
<1>3. CASE Server
  <2>1. UNCHANGED <<review, windows>>
    BY <1>3 DEF Server, HandleLogin, HandleQuery, HandleQueryLogList,
       HandleUpload, HandleInsertImage, HandleDeleteImages, Reply
  <2> QED
    BY <1>1, <2>1 DEF review, windows
<1>4. ASSUME NEW s \in Scopes, SwitchToReview(s)
      PROVE  Shows /\ "shown" \in DOMAIN log'
  <2>1. LoadToday(s, page[s]) /\ log' = log
    BY <1>4 DEF SwitchToReview, RefreshData, windows
  <2>2. Reset(page[s], page[s])
    BY DEF IInv, Shapes, Reset, SameRows
  <2> QED
    BY <2>1, <2>2, TodayShows DEF Shows
<1>5. CASE SwitchToLog \/ ClickLog
  <2>1. page' = page
    BY <1>5 DEF SwitchToLog, ClickLog, review
  <2>2. PICK mode, n : LoadLog(mode, n)
    BY <1>5, Zenon DEF SwitchToLog, ClickLog
  <2>3. \/ log' = [log EXCEPT !.mode = mode]
        \/ log' = [log EXCEPT !.mode = mode, !.disabled = mode,
                              !.curPage = Larger(1, n), !.shown = NoList,
                              !.prev = FALSE, !.next = FALSE,
                              !.wait = LastId(1)]
    BY <2>2, Zenon DEF LoadLog
  <2>4. log'.shown \in {log.shown, NoList} /\ "shown" \in DOMAIN log'
    BY <2>3, Zenon
  <2> QED
    BY <2>1, <2>4 DEF Shows
<1>6. CASE OnLogListFinished
  <2>1. page' = page /\ inbound # <<>> /\ Answer.type = "LOG_LIST"
    BY <1>6 DEF OnLogListFinished, review, Arrived, Answer
  <2>2. \/ log' = log
        \/ \E a : log' = [log EXCEPT !.wait = 0, !.prev = a]
        \/ /\ log.wait # 0 /\ log.wait = Answer.id /\ Answer.ok
           /\ \E a, b, c, d, e :
                log' = [[log EXCEPT !.wait = 0, !.prev = a] EXCEPT
                         !.shown = b, !.totalPage = c, !.next = d,
                         !.disabled = e]
    BY <1>6, Zenon DEF OnLogListFinished
  <2>3. "shown" \in DOMAIN log'
    BY <2>2, Zenon
  <2>4. \/ log'.shown = log.shown
        \/ log.wait # 0 /\ log.wait = Answer.id /\ Answer.ok
    BY <2>2, Zenon
  <2> QED
    BY <2>1, <2>3, <2>4 DEF Shows, Fills
<1>7. CASE ReviewStep
  BY <1>7, ClicksShow DEF ReviewStep, windows, Shows
<1>8. CASE ReviewAnswer
  BY <1>8, AnswersShow DEF ReviewAnswer, windows, Shows
<1> QED
  BY <1>2, <1>3, <1>4, <1>5, <1>6, <1>7, <1>8
     DEF Next, UserStep, Answers
-----------------------------------------------------------------------------
(***************************************************************************)
(* What the missing token costs, and the missing number.                   *)
(***************************************************************************)
\* The tables are as they were, and no list of a page has a row.
NobodyServed ==
  /\ videos = StoredVideos /\ images = StoredImages
  /\ \A s \in Scopes : page[s].shown = NoList

\* No request has a token, so none but a login is answered with a success.
ShutInv ==
  /\ NobodyServed
  /\ token = ""
  /\ \A m \in Range(wire) : m.token = ""
  /\ \A a \in Range(inbound) : a.ok = TRUE => a.type = "LOGIN"

\* The log page has no entries, and no answer to it is a success with a number.
EmptyLogInv ==
  /\ log.shown = NoList /\ "shown" \in DOMAIN log
  /\ \A a \in Range(inbound) :
       a.ok = TRUE /\ a.type = "LOG_LIST" => a.id = 0

\* The answer that is taken is one of those on their way.
LEMMA AnswerOnItsWay ==
  ASSUME IInv, inbound # <<>>
  PROVE  Answer \in Range(inbound)
<1>1. inbound \in Seq(Range(inbound))
  BY DEF IInv, Shapes, Wires
<1> QED
  BY <1>1, TailRange DEF Answer

\* The log page stays empty.
LEMMA EmptyLogStep ==
  ASSUME IInv, DialogOfPage, EmptyLogInv, [Next]_vars
  PROVE  EmptyLogInv'
<1>1. Shows /\ "shown" \in DOMAIN log'
  BY ShowsStep DEF EmptyLogInv
<1>2. ~(Fills({"LOG_LIST"}) /\ Answer.id # 0)
  BY AnswerOnItsWay DEF Fills, EmptyLogInv
<1>3. log'.shown = NoList
  BY <1>1, <1>2 DEF Shows, EmptyLogInv
<1>4. Told
  BY AnswersStep
<1>5. ASSUME NEW a \in Range(inbound'), a.ok = TRUE, a.type = "LOG_LIST"
      PROVE  a.id = 0
  BY <1>4, <1>5 DEF Told, EmptyLogInv
<1> QED
  BY <1>1, <1>3, <1>5 DEF EmptyLogInv

\* The gate stays shut.
LEMMA ShutStep ==
  ASSUME ~SendsToken, IInv, DialogOfPage, GateInv, EmptyLogInv, ShutInv,
         [Next]_vars
  PROVE  ShutInv'
<1>1. /\ Shows /\ Told /\ Stored /\ Requests /\ Entry
  BY ShowsStep, AnswersStep, RequestsStep, EntryStep DEF EmptyLogInv
<1>2. \A r \in Range(wire) : Authorized(r) => r.type = "LOGIN"
  BY DEF ShutInv, Authorized
<1>3. UNCHANGED <<videos, images>>
  BY <1>1, <1>2 DEF Stored
<1>4. ~Fills({"VIDEO_LIST", "IMAGE_LIST"})
  BY AnswerOnItsWay DEF Fills, ShutInv
<1>5. \A s \in Scopes : page'[s].shown = NoList
  BY <1>1, <1>4 DEF Shows, ShutInv, NobodyServed
<1>6. token' = "" /\ \A m \in Range(wire') : m.token = ""
  BY <1>1 DEF Entry, Requests, ShutInv
<1>7. ASSUME NEW a \in Range(inbound'), a.ok = TRUE PROVE a.type = "LOGIN"
  BY <1>1, <1>2, <1>7 DEF Told, ShutInv
<1> QED
  BY <1>3, <1>5, <1>6, <1>7 DEF ShutInv, NobodyServed

\* No entries, always.
LEMMA EmptyLogHolds == Spec => []EmptyLogInv
<1>1. Init => EmptyLogInv
  <2> SUFFICES ASSUME Init PROVE EmptyLogInv
    OBVIOUS
  <2>1. inbound = <<>>
    BY DEF Init, ApiInit
  <2>2. Range(inbound) = {}
    BY <2>1 DEF Range
  <2>3. log.shown = NoList /\ "shown" \in DOMAIN log
    BY DEF Init
  <2> QED
    BY <2>2, <2>3 DEF EmptyLogInv
<1>2. IInv /\ DialogOfPage /\ EmptyLogInv /\ [Next]_vars => EmptyLogInv'
  BY EmptyLogStep
<1> QED
  BY <1>1, <1>2, IInvHolds, PTL DEF Spec

\* No log entry is ever shown, token or not: queryExceptionLogs and
\* queryOperationLogs answer without the number of the request, and the page
\* takes no other answer (log_service.cpp, onLogListFinished).
THEOREM LogStaysEmpty == Spec => [](log.shown = NoList)
<1>1. EmptyLogInv => log.shown = NoList
  BY DEF EmptyLogInv
<1> QED
  BY <1>1, EmptyLogHolds, PTL

\* As the client is, without a token, nothing is ever recorded or shown: the
\* server refuses all but logins (isValidToken), however long it goes on.
THEOREM GateStaysShut ==
  ASSUME ~SendsToken
  PROVE  Spec => []NobodyServed
<1>1. Init => ShutInv
  <2> SUFFICES ASSUME Init PROVE ShutInv
    OBVIOUS
  <2>1. inbound = <<>> /\ wire = <<>> /\ token = ""
        /\ videos = StoredVideos /\ images = StoredImages
        /\ page = [s \in Scopes |-> FreshPage]
    BY DEF Init, ApiInit
  <2>2. Range(inbound) = {} /\ Range(wire) = {}
    <3>1. \A s : s = <<>> => Range(s) = {}
      BY DEF Range
    <3> QED
      BY <2>1, <3>1
  <2>3. \A s \in Scopes : page[s] = FreshPage
    BY <2>1
  <2>4. \A s \in Scopes : page[s].shown = NoList
    BY <2>3, FreshIsPage
  <2> QED
    BY <2>1, <2>2, <2>4 DEF ShutInv, NobodyServed
<1>2. IInv /\ DialogOfPage /\ GateInv /\ EmptyLogInv /\ ShutInv /\ [Next]_vars
        => ShutInv'
  BY ShutStep
<1>3. ShutInv => NobodyServed
  BY DEF ShutInv
<1> QED
  BY <1>1, <1>2, <1>3, IInvHolds, GateHolds, EmptyLogHolds, PTL DEF Spec
=============================================================================
