--------------------------- MODULE DownloadEvents ---------------------------
(***************************************************************************)
(* The downloads the extension reports to sessions.  A download belongs to *)
(* the session that owned its tab when it began; its progress is filed     *)
(* with that session, which may read it while it owns the tab.  The        *)
(* downloads, the sessions and the events of a session are all bounded,    *)
(* and the oldest make room.                                               *)
(***************************************************************************)
EXTENDS Integers, SequencesExt

CONSTANTS DownloadIds,     \* downloads, by the identifier of the browser
          DownloadTab,     \* the tab a download happens in
          PageTabs, Readers, NoReader,
          EventLimit,      \* events kept for a session
          DownloadLimit,   \* downloads remembered
          ReaderLimit,     \* sessions with events
          MaxMoves         \* tabs that change hands, at most

VARIABLES tabOwner,    \* the session that owns each tab
          downloads,   \* the downloads remembered, oldest first
          filed,       \* the sessions with events and their events, oldest session first
          began,       \* whose each download was when it first began
          forgotten,   \* the downloads that made room
          moves

downloadVars == <<tabOwner, downloads, filed, began, forgotten, moves>>

Final == {"complete", "canceled"}
Starting == {"started", "opened_inline"}
Status == Starting \cup {"in_progress"} \cup Final

DownloadTypeOK ==
  /\ tabOwner \in [PageTabs -> Readers \cup {NoReader}]
  /\ Len(downloads) <= DownloadLimit /\ Len(filed) <= ReaderLimit
  /\ \A i \in 1 .. Len(downloads) :
       downloads[i] \in [id: DownloadIds, reader: Readers, status: Status]
  /\ \A i \in 1 .. Len(filed) : Len(filed[i].events) <= EventLimit
  /\ began \in [DownloadIds -> Readers \cup {NoReader}]
  /\ forgotten \subseteq DownloadIds

DownloadInit ==
  /\ tabOwner \in [PageTabs -> Readers]
  /\ downloads = <<>> /\ filed = <<>>
  /\ began = [d \in DownloadIds |-> NoReader]
  /\ forgotten = {} /\ moves = 0

Known(d) == \E i \in 1 .. Len(downloads) : downloads[i].id = d
IndexOf(d) == CHOOSE i \in 1 .. Len(downloads) : downloads[i].id = d
HasEvents(r) == \E i \in 1 .. Len(filed) : filed[i].reader = r
EventsOf(r) ==
  IF HasEvents(r) THEN filed[CHOOSE i \in 1 .. Len(filed) : filed[i].reader = r].events ELSE <<>>
Newest(seq, n) == SubSeq(seq, IF Len(seq) > n THEN Len(seq) - n + 1 ELSE 1, Len(seq))

(***************************************************************************)
(* An event is filed with the session; a session too many takes the one    *)
(* filed first, and its downloads, with it.                                *)
(***************************************************************************)
File_Present(rows, download) ==
  LET reader == tabOwner[DownloadTab[download.id]]
      event == [id |-> download.id, status |-> download.status]
      put == [reader |-> reader, events |-> Newest(Append(EventsOf(reader), event), EventLimit)]
  IN /\ filed' = IF HasEvents(reader)
                 THEN [i \in 1 .. Len(filed) |-> IF filed[i].reader = reader THEN put ELSE filed[i]]
                 ELSE Newest(Append(filed, put), ReaderLimit)
     /\ downloads' = rows
     /\ forgotten' = forgotten
File(rows, download) ==
  LET event == [id |-> download.id, status |-> download.status]
      put == [reader |-> download.reader,
              events |-> Newest(Append(EventsOf(download.reader), event), EventLimit)]
      now == IF HasEvents(download.reader)
             THEN [i \in 1 .. Len(filed) |-> IF filed[i].reader = download.reader THEN put ELSE filed[i]]
             ELSE Append(filed, put)
      Kept(row) == Len(now) <= ReaderLimit \/ row.reader # now[1].reader
  IN /\ filed' = Newest(now, ReaderLimit)
     /\ downloads' = SelectSeq(rows, Kept)
     /\ forgotten' = forgotten \cup ({downloads[i].id : i \in 1 .. Len(downloads)}
                                     \ {downloads'[i].id : i \in 1 .. Len(downloads')})

\* A page announces a download, perhaps again, or the agent opens one inline; it is
\* taken once, for the owner of the tab.
Begin(d, status) ==
  LET reader == tabOwner[DownloadTab[d]]
      download == [id |-> d, reader |-> reader, status |-> status]
  IN /\ status \in Starting /\ ~ Known(d) /\ reader # NoReader
     /\ File(Newest(Append(downloads, download), DownloadLimit), download)
     /\ began' = [began EXCEPT ![d] = IF @ = NoReader THEN reader ELSE @]
     /\ UNCHANGED <<tabOwner, moves>>

\* Progress of a download that is known and has not ended.
Progress(d, status) ==
  /\ began[d] # NoReader /\ Known(d) /\ status \notin Starting
  /\ downloads[IndexOf(d)].status \notin Final
  /\ LET row == [downloads[IndexOf(d)] EXCEPT !.status = status]
     IN File([downloads EXCEPT ![IndexOf(d)] = row], row)
  /\ UNCHANGED <<tabOwner, began, moves>>

Readable(r, event) == tabOwner[DownloadTab[event.id]] = r
Read(r) == SelectSeq(EventsOf(r), LAMBDA event : Readable(r, event))

\* A session clears what it may read; the downloads stay known.
Clear(r) ==
  /\ Read(r) # <<>>
  /\ filed' = [i \in 1 .. Len(filed) |->
                 IF filed[i].reader # r THEN filed[i]
                 ELSE [filed[i] EXCEPT !.events = SelectSeq(@, LAMBDA e : ~ Readable(r, e))]]
  /\ UNCHANGED <<tabOwner, downloads, began, forgotten, moves>>

TabMoves(t, r) ==
  /\ moves < MaxMoves /\ moves' = moves + 1
  /\ r # tabOwner[t] /\ tabOwner' = [tabOwner EXCEPT ![t] = r]
  /\ UNCHANGED <<downloads, filed, began, forgotten>>

DownloadNext ==
  \/ \E d \in DownloadIds, status \in Status : Begin(d, status) \/ Progress(d, status)
  \/ \E r \in Readers : Clear(r)
  \/ \E t \in PageTabs, r \in Readers \cup {NoReader} : TabMoves(t, r)

(***************************************************************************)
(* Properties                                                              *)
(***************************************************************************)

\* A session reads of no download but those that began in a tab it owned then, and
\* reads of nothing after the end, unless the download was dropped to make room.
ReadsItsOwn ==
  \A r \in Readers : \A i, j \in 1 .. Len(Read(r)) :
    LET events == Read(r)
    IN events[i].id \notin forgotten =>
         /\ began[events[i].id] = r
         /\ i < j /\ events[i].id = events[j].id => events[i].status \notin Final

\* Not true: a download that made room begins anew when it is announced again, and
\* then belongs to whoever owns the tab by then.
NeverClaimed ==
  \A r \in Readers : \A i \in 1 .. Len(Read(r)) : began[Read(r)[i].id] = r
=============================================================================
