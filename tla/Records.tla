------------------------------- MODULE Records -------------------------------
(***************************************************************************)
(* The handlers of the server that read and edit the record tables         *)
(* (VideoService, ImageService, LogService), as functions of a table.      *)
(*                                                                         *)
(* A table is a set of rows.  MySQL is external: a query may be refused, a *)
(* statement whose connection is lost may have been made or not, and rows  *)
(* of equal time come in any order, because no ORDER BY here has a second  *)
(* key.  So a handler has a set of answers.  Times are seconds; abstracted *)
(* are SQL text, escaping, names, and the clamping of pages and page sizes *)
(* the client never sends (page >= 1, sizes 20 and 8).                     *)
(***************************************************************************)
EXTENDS Integers, Sequences, FiniteSets, SequencesExt

CONSTANTS
  DayLength,  \* seconds of a day
  PageSize    \* rows of a page of the review pages

ASSUME RecordsAssumption == DayLength \in Nat \ {0} /\ PageSize \in Nat \ {0}

Scopes == {"normal", "anomaly"}
AllChannels == 0

Day(time) == time \div DayLength
-----------------------------------------------------------------------------
\* WHERE: the day, the channel if one is chosen, and exception_id (not) NULL.
Selected(row, query) ==
  /\ Day(row.at) = query.date
  /\ query.channel = AllChannels \/ row.channel = query.channel
  /\ row.anomaly = (query.scope = "anomaly")

Filtered(rows, query) == {row \in rows : Selected(row, query)}

\* ORDER BY ... DESC: every order MySQL may choose.
NewestFirst(rows) ==
  {list \in SetToSeqs(rows) :
     \A i, j \in 1..Len(list) : i < j => list[i].at >= list[j].at}

Limit(list, offset, size) ==
  SubSeq(list, offset + 1, Min({offset + size, Len(list)}))

\* Bug: the page number is the number of the first row.
PageShifted(list, page, size) == Limit(list, page * size, size)

\* The LIMIT of a page.
Page(list, page, size) == Limit(list, (page - 1) * size, size)

Refused == [ok |-> FALSE, rows |-> <<>>, total |-> 0]

\* A page and the number of rows behind all pages, which is counted by a
\* second query and is 0 if that one is refused.
PageAnswers(rows, page, size) ==
  {[ok |-> TRUE, rows |-> Page(list, page, size), total |-> total] :
     list \in NewestFirst(rows), total \in {0, Cardinality(rows)}}
  \cup {Refused}

QueryVideoList(videos, query) ==
  PageAnswers(Filtered(videos, query), query.page, PageSize)

QueryImageList(images, query) ==
  PageAnswers(Filtered(images, query), query.page, PageSize)
-----------------------------------------------------------------------------
\* Bug: the end of the recording is not looked at.
CoversOpenEnd(video, channel, time) ==
  video.channel = channel /\ video.at <= time

\* The recording of the channel that was running at that time.
Covers(video, channel, time) ==
  /\ video.channel = channel
  /\ video.at <= time
  /\ video.until >= time

\* The newest one of the scope, if there is one.
FindRelatedVideo(videos, scope, channel, time) ==
  LET found == {v \in videos : /\ Covers(v, channel, time)
                               /\ v.anomaly = (scope = "anomaly")}
  IN {[ok |-> TRUE, rows |-> <<Head(list)>>, total |-> 1] :
        list \in NewestFirst(found) \ {<<>>}}
     \cup {Refused}
-----------------------------------------------------------------------------
\* The edits: the answer and the table behind it.  Refused may hide that the
\* statement was made.
Edits(before, after) ==
  {[ok |-> TRUE, table |-> after]}
  \cup {[ok |-> FALSE, table |-> table] : table \in {before, after}}

\* A row without a channel is refused before any statement.
InsertImage(images, row) ==
  IF row.channel <= 0
  THEN {[ok |-> FALSE, table |-> images]}
  ELSE Edits(images, images \cup {row})

\* Deleting what is not there is a success too.
DeleteImages(images, ids) ==
  Edits(images, {row \in images : row.id \notin ids})
=============================================================================
