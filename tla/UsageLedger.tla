---------------------------- MODULE UsageLedger ----------------------------
(***************************************************************************)
(* What decisions have cost (native-host/src/decisions/usage.ts and        *)
(* usage-ledger.ts).  Every process appends a row to usage.jsonl after a   *)
(* decision; the host folds the file into a bucket for each day and        *)
(* service, reading only what was appended since, and answers reports from *)
(* the buckets.  The user may clear or remove the file.                    *)
(*                                                                         *)
(* A row is written as two pieces, the second of which ends the line: a    *)
(* write may be cut between them.  Times are counted in parts of a day.    *)
(***************************************************************************)
EXTENDS Integers, Sequences, FiniteSets, FiniteSetsExt, SequencesExt, Functions

CONSTANTS UsageRows, RowOf,        \* row -> its time, service and milliseconds
          Earlier,                 \* rows the file has at the beginning, in order
          UsageWriters, NoRow,
          Services, NoService, ModelService,   \* row -> what its model tells of an unnamed service
          DayLength, Now, LastYear,  \* LastYear: its first day and the day after it
          ChunkSize,               \* pieces in one read
          DailyMax,                \* entries of a report (366)
          MaxClears                \* bound on clearing and removing

VARIABLES usageFile,    \* the file: its pieces, inode and modification time
          toWrite,      \* rows of decisions that are still to be recorded
          writing,      \* writer -> the row it has written the first piece of
          ledger,       \* ledgers.get(location)
          reading,      \* the read that is under way, or the last one
          clears

usageLedgerVars == <<usageFile, toWrite, writing, ledger, reading, clears>>

Periods == {"7d", "30d", "last-week", "last-year", "all"}
DayOf(at) == at \div DayLength
Keys == {DayOf(RowOf[r].at) : r \in UsageRows} \X (Services \cup {NoService})

empty == [calls |-> 0, time |-> 0, last |-> 0, at |-> 0]
NoLedger == [known |-> FALSE, offset |-> 0, pending |-> <<>>, inode |-> 0, mtime |-> 0,
             buckets |-> [k \in Keys |-> empty], made |-> {}]

-----------------------------------------------------------------------------
(* recordDecision: a row is appended, in one write or in two.              *)
Written(pieces) ==
    LET new == IF usageFile.there THEN 0 ELSE 1
    IN \E inode \in {usageFile.inode, usageFile.inode + new} :   \* a removed file's inode may be used again
           usageFile' = [usageFile EXCEPT !.there = TRUE, !.inode = inode, !.mtime = @ + 1, !.pieces = @ \o pieces]

recordDecision(w, r) ==
    /\ r \in toWrite /\ writing[w].row = NoRow
    /\ toWrite' = toWrite \ {r}
    /\ \/ Written(<<<<r, 1>>, <<r, 2>>>>) /\ UNCHANGED writing
       \/ Written(<<<<r, 1>>>>) /\ writing' = [writing EXCEPT ![w] = [row |-> r, linked |-> TRUE]]
    /\ UNCHANGED <<ledger, reading, clears>>

(* The rest of a write that was cut short.                                 *)
Continue(w) ==
    /\ writing[w].row # NoRow
    /\ IF writing[w].linked THEN Written(<<<<writing[w].row, 2>>>>) ELSE UNCHANGED usageFile
    /\ writing' = [writing EXCEPT ![w] = [row |-> NoRow, linked |-> TRUE]]
    /\ UNCHANGED <<toWrite, ledger, reading, clears>>

(* It is never written: the process ends, or the disk is full.             *)
Interrupt(w) ==
    /\ writing[w].row # NoRow
    /\ writing' = [writing EXCEPT ![w] = [row |-> NoRow, linked |-> TRUE]]
    /\ UNCHANGED <<usageFile, toWrite, ledger, reading, clears>>

Clear ==
    /\ usageFile.there /\ clears > 0 /\ clears' = clears - 1
    /\ usageFile' = [usageFile EXCEPT !.pieces = <<>>, !.mtime = @ + 1, !.made = @ + 1]
    /\ UNCHANGED <<toWrite, writing, ledger, reading>>

(* Whoever has the file open keeps it.                                     *)
Unlink ==
    /\ usageFile.there /\ clears > 0 /\ clears' = clears - 1
    /\ usageFile' = [usageFile EXCEPT !.there = FALSE, !.pieces = <<>>, !.made = @ + 1]
    /\ writing' = [w \in UsageWriters |-> [writing[w] EXCEPT !.linked = FALSE]]
    /\ reading' = IF reading.at = "reading" /\ reading.linked
                  THEN [reading EXCEPT !.linked = FALSE, !.left = usageFile.pieces] ELSE reading
    /\ UNCHANGED <<toWrite, ledger>>

-----------------------------------------------------------------------------
(* readLedger: the buckets of the file are kept while it only grows.       *)
Kept(ino, size, mtime) ==
    /\ ledger.known /\ ino = ledger.inode /\ size >= ledger.offset
    /\ ~ (size = ledger.offset /\ mtime # ledger.mtime)

readLedger ==
    /\ reading.at # "reading"
    /\ LET size == Len(usageFile.pieces) IN
       IF ~ usageFile.there
       THEN ledger' = NoLedger /\ reading' = [reading EXCEPT !.at = "none"]
       ELSE /\ ledger' = IF Kept(usageFile.inode, size, usageFile.mtime) THEN ledger
                         ELSE [NoLedger EXCEPT !.known = TRUE, !.inode = usageFile.inode, !.mtime = usageFile.mtime]
            /\ reading' = [at |-> "reading", size |-> size, mtime |-> usageFile.mtime,
                           made |-> usageFile.made, linked |-> TRUE, left |-> <<>>]
    /\ UNCHANGED <<usageFile, toWrite, writing, clears>>

\* The lines that end among the pieces, and those of them that are rows.
Ends(pieces) == {i \in DOMAIN pieces : pieces[i][2] = 2}
WholeRow(pieces, i) ==
    /\ i > 1 /\ pieces[i - 1] = <<pieces[i][1], 1>>
    /\ i - 2 \in {0} \cup Ends(pieces)
RowsIn(pieces) ==
    LET whole == SetToSortSeq({i \in Ends(pieces) : WholeRow(pieces, i)}, <)
    IN [n \in DOMAIN whole |-> pieces[whole[n]][1]]

\* A row without a service is of the one its model tells, or of none.
identity(r) == IF RowOf[r].service # NoService THEN RowOf[r].service ELSE ModelService[r]
KeyOf(r) == <<DayOf(RowOf[r].at), identity(r)>>

aggregate_LastRead(buckets, r) ==
    LET row == RowOf[r]
        it == buckets[KeyOf(r)]
    IN [buckets EXCEPT ![KeyOf(r)] = [calls |-> it.calls + 1, time |-> it.time + row.ms, last |-> row.ms, at |-> row.at]]
aggregate(buckets, r) ==
    LET row == RowOf[r]
        it == buckets[KeyOf(r)]
        later == it.calls = 0 \/ row.at >= it.at
    IN [buckets EXCEPT ![KeyOf(r)] =
           [calls |-> it.calls + 1, time |-> it.time + row.ms,
            last |-> IF later THEN row.ms ELSE it.last, at |-> IF later THEN row.at ELSE it.at]]

Unended_Dropped(pieces) == <<>>
Unended(pieces) == SubSeq(pieces, Max(Ends(pieces) \cup {0}) + 1, Len(pieces))

readSync ==
    /\ reading.at = "reading"
    /\ LET contents == IF reading.linked THEN usageFile.pieces ELSE reading.left
           upTo == Min({Len(contents), reading.size, ledger.offset + ChunkSize})
           pieces == ledger.pending \o SubSeq(contents, ledger.offset + 1, upTo)
       IN IF ledger.offset < upTo
          THEN /\ ledger' = [ledger EXCEPT !.offset = upTo, !.pending = Unended(pieces),
                                           !.buckets = FoldLeft(aggregate, @, RowsIn(pieces)),
                                           !.made = @ \cup {IF reading.linked THEN usageFile.made ELSE reading.made}]
               /\ UNCHANGED reading
          ELSE /\ ledger' = [ledger EXCEPT !.mtime = reading.mtime]
               /\ reading' = [reading EXCEPT !.at = "read", !.mtime = 0, !.left = <<>>, !.linked = TRUE]
    /\ UNCHANGED <<usageFile, toWrite, writing, clears>>

-----------------------------------------------------------------------------
(* usageReport.  Days are whole, but today ends now; day 0 is a Thursday.  *)
Today == DayOf(Now)
Monday == Today - ((Today + 3) % 7)
range(period) ==
    CASE period = "7d" -> <<(Today - 6) * DayLength, Now + 1>>
      [] period = "30d" -> <<(Today - 29) * DayLength, Now + 1>>
      [] period = "last-week" -> <<(Monday - 7) * DayLength, Monday * DayLength>>
      [] period = "last-year" -> <<LastYear[1] * DayLength, LastYear[2] * DayLength>>
      [] OTHER -> <<0, Now + 1>>

Within(at, period) == range(period)[1] <= at /\ at < range(period)[2]
Calls(keys) == FoldSet(LAMBDA k, n : n + ledger.buckets[k].calls, 0, keys)

Reported(period, service) ==
    {k \in Keys : /\ ledger.buckets[k].calls > 0 /\ Within(ledger.buckets[k].at, period)
                  /\ service \in {"all", k[2]}}

\* One entry for each day of the period, or for each day that has calls; when
\* they are too many, one for several days in a row.
DaysIn(period) == {DayOf(at) : at \in {a \in range(period)[1]..range(period)[2] - 1 : a % DayLength = 0}}
DaysOf(period, service) ==
    {k[1] : k \in Reported(period, service)} \cup (IF period = "all" THEN {} ELSE DaysIn(period))
daily(period, service) ==
    LET days == DaysOf(period, service)
        Before(d) == Cardinality({e \in days : e < d})
        span == Max({1, (Cardinality(days) + DailyMax - 1) \div DailyMax})
        group(i) == {d \in days : Before(d) \div span = i - 1}
    IN [i \in 1..((Cardinality(days) + span - 1) \div span) |->
           [days |-> group(i), calls |-> Calls({k \in Reported(period, service) : k[1] \in group(i)})]]

-----------------------------------------------------------------------------
UsageLedgerInit ==
    /\ usageFile = [there |-> TRUE, inode |-> 1, mtime |-> 0, made |-> 0,
                    pieces |-> FlattenSeq([n \in DOMAIN Earlier |-> <<<<Earlier[n], 1>>, <<Earlier[n], 2>>>>])]
    /\ toWrite = UsageRows \ Range(Earlier)
    /\ writing = [w \in UsageWriters |-> [row |-> NoRow, linked |-> TRUE]]
    /\ ledger = NoLedger
    /\ reading = [at |-> "none", size |-> 0, mtime |-> 0, made |-> 0, linked |-> TRUE, left |-> <<>>]
    /\ clears = MaxClears

UsageLedgerNext ==
    \/ \E w \in UsageWriters : (\E r \in UsageRows : recordDecision(w, r)) \/ Continue(w) \/ Interrupt(w)
    \/ Clear \/ Unlink
    \/ readLedger \/ readSync

UsageLedgerTypeOK ==
    /\ ledger.offset \in Nat /\ ledger.known \in BOOLEAN
    /\ \A k \in Keys : ledger.buckets[k].calls \in 0..Cardinality(UsageRows)
    /\ reading.at \in {"none", "reading", "read"}
    /\ toWrite \subseteq UsageRows /\ clears \in 0..MaxClears

-----------------------------------------------------------------------------
\* The bytes the buckets are of are those of the file that was opened.
OfOneFile == usageFile.made = reading.made /\ ledger.made \subseteq {reading.made}

\* What a fold of all whole rows of the file would give.
Taken == SubSeq(usageFile.pieces, 1, reading.size)
RowsAt(k) == {i \in Ends(Taken) : WholeRow(Taken, i) /\ KeyOf(Taken[i][1]) = k}
Counted(k) ==
    LET at(i) == RowOf[Taken[i][1]].at
        ms(i) == RowOf[Taken[i][1]].ms
        latest == {i \in RowsAt(k) : \A j \in RowsAt(k) : at(j) < at(i) \/ (at(j) = at(i) /\ j <= i)}
    IN IF RowsAt(k) = {} THEN empty
       ELSE LET i == CHOOSE i \in latest : TRUE
            IN [calls |-> Cardinality(RowsAt(k)), time |-> FoldSet(LAMBDA j, n : n + ms(j), 0, RowsAt(k)),
                last |-> ms(i), at |-> at(i)]

\* usage-ledger.ts:43-64: read in pieces and continued from read to read, around
\* partial and interrupted appends, the file is counted as if it were read whole:
\* every whole row once, for its day and service, with the latest call's time.
CountedOnce ==
    reading.at = "read" /\ OfOneFile =>
        /\ ledger.offset = reading.size
        /\ \A k \in Keys : ledger.buckets[k] = Counted(k)

\* usage-ledger.ts:68-103: from rows that are not of the future, a report counts
\* those of its period and service, and its entries, not more than it may have,
\* count each of them once.
ReportsItsPeriod ==
    reading.at = "read" /\ OfOneFile /\ (\A r \in UsageRows : RowOf[r].at <= Now) =>
        \A period \in Periods, service \in Services \cup {NoService, "all"} :
            LET rows == {i \in Ends(Taken) : /\ WholeRow(Taken, i) /\ Within(RowOf[Taken[i][1]].at, period)
                                             /\ service \in {"all", identity(Taken[i][1])}}
                entries == daily(period, service)
            IN /\ Calls(Reported(period, service)) = Cardinality(rows)
               /\ Len(entries) <= DailyMax
               /\ FoldLeft(LAMBDA n, e : n + e.calls, 0, entries) = Cardinality(rows)

UsageLedgerSound == CountedOnce /\ ReportsItsPeriod

\* Not true: that buckets are given up when the file is not theirs any more.  A
\* file that was cleared and has grown past the offset keeps them (usage-ledger.ts:46-48).
BucketsAreOfTheFile == reading.at = "read" /\ usageFile.made = reading.made => ledger.made \subseteq {reading.made}

\* Not true: that every row that was written whole is counted.  One that follows an
\* interrupted append is part of its line, which is malformed (usage-ledger.ts:59).
WholeRowsCount ==
    reading.at = "read" /\ OfOneFile =>
        \A i \in DOMAIN Taken : Taken[i][2] = 2 /\ i > 1 /\ Taken[i - 1] = <<Taken[i][1], 1>> =>
            i \in RowsAt(KeyOf(Taken[i][1]))

\* Not true: that a report counts what is of its period when a clock was ahead: the
\* bucket of the day is of its latest call, and left out as a whole (usage-ledger.ts:85).
PastIsReported ==
    reading.at = "read" /\ OfOneFile =>
        \A r \in UsageRows :
            RowOf[r].at <= Now /\ ledger.buckets[KeyOf(r)].calls > 0 => KeyOf(r) \in Reported("all", "all")
=============================================================================
