----------------------------- MODULE EmbedQueue -----------------------------
(***************************************************************************)
(* How the rows of the page memory get their embeddings                    *)
(* (native-host/src/memory/embed.ts, store-maintenance.ts).                *)
(*                                                                         *)
(* Recorded rows wait in a bounded queue, are embedded batch by batch, and *)
(* are tried again after a failure.  A rebuild embeds every row once more. *)
(* Both use the model selected at the time, one call at a time, and the    *)
(* model of the last result becomes the profile that searches look under.  *)
(***************************************************************************)
EXTENDS Naturals, Sequences, FiniteSets, FiniteSetTheorems, SequenceTheorems, TLAPS

CONSTANTS MemoryRows, Models, NoModel,
          Capacity,      \* WRITER_QUEUE_CAPACITY
          BatchSize,     \* EMBED_BATCH_SIZE
          MaxAttempts,   \* MEMORY_EMBED_MAX_ATTEMPTS
          MaxChanges     \* records, model changes and restarts (a bound)

VARIABLES index,      \* row -> "absent", "bare", or the model it is embedded under
          profile,    \* meta.embedding_profile
          setting,    \* the model selected
          writes,     \* the queue
          timer,      \* whether the flush timer runs
          batch,      \* what the queue is embedding
          retrying,   \* items whose retry timer runs
          rebuild,    \* the rebuild under way: whether, what is left, its batch
          service,    \* who holds the model, and which model answers
          lost,       \* rows given up, dropped, or left out at the start
          host,       \* whether the native host runs
          changes

embedVars == <<index, profile, setting, writes, timer, batch, retrying, rebuild, service, lost,
               host, changes>>
storeVars == <<index, profile, setting>>

NoRebuild == [on |-> FALSE, left |-> {}, part |-> {}]
NoCall == [by |-> "none", model |-> NoModel]
Present == {k \in MemoryRows : index[k] # "absent"}
Items(seq) == {seq[i] : i \in DOMAIN seq}
RowsOf(items) == {item.row : item \in items}
Smaller(a, b) == IF a < b THEN a ELSE b

EmbedInit ==
    /\ index = [k \in MemoryRows |-> "absent"] /\ profile = NoModel /\ setting \in Models
    /\ writes = <<>> /\ timer = FALSE /\ batch = {} /\ retrying = {}
    /\ rebuild = NoRebuild /\ service = NoCall /\ lost = {} /\ host = "open" /\ changes = 0

Change == host = "open" /\ changes < MaxChanges /\ changes' = changes + 1

-----------------------------------------------------------------------------
\* Take the next batch, or go on without one.
Splice(q) == /\ batch' = Items(SubSeq(q, 1, Smaller(BatchSize, Len(q))))
             /\ writes' = SubSeq(q, Smaller(BatchSize, Len(q)) + 1, Len(q))

\* push: an item already waiting is kept, a full queue drops it.  A full batch
\* starts the queue unless it runs already, anything less starts the timer.
Push(item) ==
    IF item.row \in RowsOf(Items(writes)) THEN UNCHANGED <<writes, timer, batch, lost>>
    ELSE IF Len(writes) >= Capacity THEN lost' = lost \cup {item.row} /\ UNCHANGED <<writes, timer, batch>>
    ELSE LET q == Append(writes, item) IN
         /\ lost' = lost \ {item.row}
         /\ IF Len(q) < BatchSize THEN writes' = q /\ timer' = TRUE /\ UNCHANGED batch
            ELSE IF batch # {} THEN writes' = q /\ UNCHANGED <<timer, batch>>
            ELSE Splice(q) /\ timer' = FALSE

\* A step or a recipe is recorded, for the first time or again.
Record(k) ==
    /\ Change
    /\ index' = IF index[k] = "absent" THEN [index EXCEPT ![k] = "bare"] ELSE index
    /\ Push([row |-> k, attempts |-> 0])
    /\ UNCHANGED <<profile, setting, retrying, rebuild, service, host>>

TimerFires ==
    /\ host = "open" /\ timer /\ timer' = FALSE
    /\ IF batch = {} THEN Splice(writes) ELSE UNCHANGED <<writes, batch>>
    /\ UNCHANGED <<storeVars, retrying, rebuild, service, lost, host, changes>>

RetryFires(item) ==
    /\ host = "open" /\ item \in retrying
    /\ retrying' = retrying \ {item}
    /\ Push(item)
    /\ UNCHANGED <<storeVars, rebuild, service, host, changes>>

-----------------------------------------------------------------------------
\* The model is asked by one batch at a time, of the queue or of a rebuild.
Acquire(by) ==
    /\ host = "open" /\ service = NoCall
    /\ service' = [by |-> by, model |-> setting]
    /\ UNCHANGED <<storeVars, writes, timer, retrying, lost, host, changes>>

EmbedBatch == batch # {} /\ Acquire("queue") /\ UNCHANGED <<batch, rebuild>>

RebuildBatch ==
    /\ rebuild.on /\ rebuild.left # {} /\ Acquire("rebuild") /\ UNCHANGED batch
    /\ \E part \in SUBSET rebuild.left :
          /\ Cardinality(part) = Smaller(BatchSize, Cardinality(rebuild.left))
          /\ rebuild' = [rebuild EXCEPT !.left = @ \ part, !.part = part]

\* applyEmbeddings: rows deleted meanwhile are not brought back.
Apply(rows) ==
    /\ index' = [k \in MemoryRows |-> IF k \in rows \cap Present THEN service.model ELSE index[k]]
    /\ profile' = service.model
    /\ lost' = lost \ rows

Embedded ==
    /\ service.by = "queue" /\ service' = NoCall
    /\ Apply(RowsOf(batch)) /\ Splice(writes)
    /\ UNCHANGED <<setting, timer, retrying, rebuild, host, changes>>

EmbedFails_Dropped ==
    /\ service.by = "queue" /\ service' = NoCall
    /\ UNCHANGED <<retrying, lost>>
    /\ Splice(writes)
    /\ UNCHANGED <<storeVars, timer, rebuild, host, changes>>
EmbedFails_Forever ==
    /\ service.by = "queue" /\ service' = NoCall
    /\ retrying' = retrying \cup batch /\ UNCHANGED lost
    /\ Splice(writes)
    /\ UNCHANGED <<storeVars, timer, rebuild, host, changes>>
EmbedFails ==
    /\ service.by = "queue" /\ service' = NoCall
    /\ LET again == {[item EXCEPT !.attempts = @ + 1] : item \in batch}
           kept == {item \in again : item.attempts < MaxAttempts}
       IN retrying' = retrying \cup kept /\ lost' = lost \cup RowsOf(again \ kept)
    /\ Splice(writes)
    /\ UNCHANGED <<storeVars, timer, rebuild, host, changes>>

Rebuilt ==
    /\ service.by = "rebuild" /\ service' = NoCall
    /\ Apply(rebuild.part)
    /\ rebuild' = IF rebuild.left = {} THEN NoRebuild ELSE [rebuild EXCEPT !.part = {}]
    /\ UNCHANGED <<setting, writes, timer, batch, retrying, host, changes>>

RebuildFails ==
    /\ service.by = "rebuild" /\ service' = NoCall
    /\ rebuild' = NoRebuild
    /\ UNCHANGED <<storeVars, writes, timer, batch, retrying, lost, host, changes>>

\* A rebuild asked for by the user, or by a search that finds the index under
\* another model than its query.  It takes the rows there are.
StartRebuild == /\ ~rebuild.on /\ Present # {} /\ rebuild' = [NoRebuild EXCEPT !.on = TRUE, !.left = Present]
                /\ UNCHANGED <<storeVars, writes, timer, batch, retrying, service, lost, host>>

Reindex == Change /\ StartRebuild

\* Only rows of the active profile are candidates, and without one the search
\* ends before the query is embedded.
Candidates == {k \in Present : profile = NoModel \/ index[k] = profile}
Search == /\ host = "open" /\ Candidates # {} /\ setting # profile
          /\ StartRebuild /\ UNCHANGED changes

-----------------------------------------------------------------------------
SetSettings(m) ==
    /\ Change /\ m # setting /\ setting' = m
    /\ UNCHANGED <<index, profile, writes, timer, batch, retrying, rebuild, service, lost, host>>

PruneRow(k) ==
    /\ host = "open" /\ k \in Present
    /\ index' = [index EXCEPT ![k] = "absent"] /\ lost' = lost \ {k}
    /\ UNCHANGED <<profile, setting, writes, timer, batch, retrying, rebuild, service, host, changes>>

\* The host ends with all it had in hand; the next one queues bare rows again.
CloseHost ==
    /\ Change
    /\ host' = "closed" /\ writes' = <<>> /\ timer' = FALSE /\ batch' = {} /\ retrying' = {}
    /\ rebuild' = NoRebuild /\ service' = NoCall
    /\ UNCHANGED <<storeVars, lost>>

RecoverEmbeddings ==
    /\ host = "closed" /\ host' = "open"
    /\ LET bare == {k \in MemoryRows : index[k] = "bare"} IN
       \E n \in 0..Capacity : \E pick \in [1..n -> bare] :
          /\ n = Smaller(Capacity, Cardinality(bare)) /\ \A i, j \in 1..n : pick[i] = pick[j] => i = j
          /\ lost' = bare \ {pick[i] : i \in 1..n}
          /\ LET q == [i \in 1..n |-> [row |-> pick[i], attempts |-> 0]] IN
             IF n < BatchSize THEN writes' = q /\ timer' = (n > 0) /\ UNCHANGED batch
             ELSE Splice(q) /\ timer' = (BatchSize > 1 /\ n > BatchSize)
    /\ UNCHANGED <<storeVars, retrying, rebuild, service, changes>>

EmbedNext ==
    \/ \E k \in MemoryRows : Record(k) \/ PruneRow(k)
    \/ \E m \in Models : SetSettings(m)
    \/ TimerFires \/ \E item \in retrying : RetryFires(item)
    \/ EmbedBatch \/ Embedded \/ EmbedFails
    \/ RebuildBatch \/ Rebuilt \/ RebuildFails
    \/ Reindex \/ Search \/ CloseHost \/ RecoverEmbeddings

EmbedSpec == EmbedInit /\ [][EmbedNext]_embedVars

\* Timers fire and calls of the model end, well or badly; the semaphore serves
\* in the order of arrival, so that a rebuild cannot keep the queue out for ever.
EmbedFairness ==
    /\ WF_embedVars(TimerFires)
    /\ \A item \in [row : MemoryRows, attempts : 1..MaxAttempts] : WF_embedVars(RetryFires(item))
    /\ SF_embedVars(EmbedBatch)
    /\ WF_embedVars(Embedded \/ EmbedFails) /\ WF_embedVars(Rebuilt \/ RebuildFails)

-----------------------------------------------------------------------------
EmbedTypeOK ==
    /\ index \in [MemoryRows -> {"absent", "bare"} \cup Models]
    /\ profile \in Models \cup {NoModel} /\ setting \in Models
    /\ Len(writes) <= Capacity /\ timer \in BOOLEAN /\ host \in {"open", "closed"}
    /\ Items(writes) \cup batch \cup retrying \subseteq [row : MemoryRows, attempts : 0..MaxAttempts]
    /\ rebuild \in [on : BOOLEAN, left : SUBSET MemoryRows, part : SUBSET MemoryRows]
    /\ service \in [by : {"none", "queue", "rebuild"}, model : Models \cup {NoModel}]
    /\ lost \subseteq MemoryRows /\ changes \in 0..MaxChanges

\* A row without an embedding is on its way to one, unless it was dropped or
\* given up; and what waits will be looked at, by the timer or by the drain.
NothingForgotten ==
    host = "open" =>
        /\ \A k \in MemoryRows : index[k] = "bare" =>
                k \in lost \cup RowsOf(Items(writes) \cup batch \cup retrying)
        /\ writes # <<>> => timer \/ batch # {}

\* Every row recorded is embedded in the end, or known to be lost.
EmbeddedOrLost ==
    \A k \in MemoryRows :
        host = "open" /\ index[k] = "bare" ~> index[k] # "bare" \/ k \in lost \/ host = "closed"

\* Once a search under the model selected finds nothing to rebuild, all rows
\* are embedded under that model or waiting.
SearchSeesAll ==
    host = "open" /\ profile = setting /\ ~rebuild.on =>
        \A k \in MemoryRows : index[k] \in {"absent", "bare", profile}

-----------------------------------------------------------------------------
(***************************************************************************)
(* Proofs, for any rows, models and limits.  Whatever moves an item - the  *)
(* queue, a batch, a retry - hands on its row.                             *)
(***************************************************************************)
Item == [row : MemoryRows, attempts : 0..MaxAttempts]

\* What the proofs assume of the constants: a batch holds something, and no model is
\* called as the mark of a row without an embedding.
Limits == /\ Capacity \in Nat /\ BatchSize \in Nat \ {0} /\ MaxAttempts \in Nat /\ MaxChanges \in Nat
          /\ "bare" \notin Models /\ IsFiniteSet(MemoryRows)

EmbedInv == /\ EmbedTypeOK /\ NothingForgotten
            /\ writes \in Seq(Item)
            /\ service.by # "none" => service.model \in Models

LEMMA SmallerFacts ==
  ASSUME NEW a \in Nat, NEW b \in Nat
  PROVE  /\ Smaller(a, b) \in 0..b /\ Smaller(a, b) <= a
         /\ a # 0 /\ b # 0 => Smaller(a, b) # 0
BY DEF Smaller

LEMMA AppendItems ==
  ASSUME NEW q \in Seq(Item), NEW e \in Item
  PROVE  /\ Append(q, e) \in Seq(Item) /\ Len(Append(q, e)) = Len(q) + 1
         /\ Items(Append(q, e)) = Items(q) \cup {e}
<1>1. /\ Append(q, e) \in Seq(Item) /\ Len(Append(q, e)) = Len(q) + 1 /\ Len(q) \in Nat
      /\ \A i \in 1..Len(q) : Append(q, e)[i] = q[i]
      /\ Append(q, e)[Len(q) + 1] = e
  BY AppendProperties, LenProperties
<1>2. DOMAIN q = 1..Len(q) /\ DOMAIN Append(q, e) = 1..(Len(q) + 1)
  BY <1>1, LenProperties
<1>3. 1..(Len(q) + 1) = 1..Len(q) \cup {Len(q) + 1}
  BY <1>1
<1> QED BY <1>1, <1>2, <1>3 DEF Items

\* A sequence of items is what its first n and the others hold.
LEMMA SplitItems ==
  ASSUME NEW q \in Seq(Item), NEW n \in 0..Len(q)
  PROVE  /\ SubSeq(q, n + 1, Len(q)) \in Seq(Item) /\ Len(SubSeq(q, n + 1, Len(q))) = Len(q) - n
         /\ Items(q) = Items(SubSeq(q, 1, n)) \cup Items(SubSeq(q, n + 1, Len(q)))
         /\ n # 0 => Items(SubSeq(q, 1, n)) # {}
<1> DEFINE head == SubSeq(q, 1, n)
           rest == SubSeq(q, n + 1, Len(q))
<1>1. /\ Len(q) \in Nat /\ DOMAIN q = 1..Len(q) /\ \A i \in 1..Len(q) : q[i] \in Item
      /\ n \in Nat /\ n <= Len(q)
  BY LenProperties, ElementOfSeq
<1>2. Len(head) = n /\ head \in Seq(Item) /\ \A i \in 1..n : head[i] = q[i]
  <2>1. \A i \in 1..n : q[i] \in Item
    BY <1>1
  <2>2. /\ head \in Seq(Item)
        /\ Len(head) = IF 1 <= n THEN n - 1 + 1 ELSE 0
        /\ \A i \in 1..(n - 1 + 1) : head[i] = q[1 + i - 1]
    BY <1>1, <2>1, SubSeqProperties
  <2>3. n - 1 + 1 = n /\ (~(1 <= n) => n = 0) /\ \A i \in 1..n : 1 + i - 1 = i
    BY <1>1
  <2>4. \A i \in 1..n : head[i] = q[i]
    <3> HIDE DEF head
    <3> QED BY <2>2, <2>3
  <2>5. Len(head) = n
    <3> HIDE DEF head
    <3> QED BY <2>2, <2>3
  <2> QED BY <2>2, <2>4, <2>5
<1>3. Len(rest) = Len(q) - n /\ rest \in Seq(Item) /\ \A i \in 1..(Len(q) - n) : rest[i] = q[i + n]
  <2>1. n + 1 \in Int /\ Len(q) \in Int
    BY <1>1
  <2>2. \A i \in (n + 1)..Len(q) : q[i] \in Item
    BY <1>1
  <2>3. /\ rest \in Seq(Item)
        /\ Len(rest) = IF n + 1 <= Len(q) THEN Len(q) - (n + 1) + 1 ELSE 0
        /\ \A i \in 1..(Len(q) - (n + 1) + 1) : rest[i] = q[(n + 1) + i - 1]
    BY <2>1, <2>2, SubSeqProperties
  <2>4. Len(q) - (n + 1) + 1 = Len(q) - n /\ \A i \in 1..(Len(q) - n) : (n + 1) + i - 1 = i + n
    BY <1>1
  <2>5. ~(n + 1 <= Len(q)) => Len(q) - n = 0
    <3>1. \A l, i \in Nat : i <= l /\ ~(i + 1 <= l) => l - i = 0
      OBVIOUS
    <3> QED BY <1>1, <3>1
  <2>6. Len(rest) = Len(q) - n
    <3> HIDE DEF rest
    <3> QED BY <2>3, <2>4, <2>5
  <2>7. \A i \in 1..(Len(q) - n) : rest[i] = q[i + n]
    <3> HIDE DEF rest
    <3> QED BY <2>3, <2>4
  <2> QED BY <2>3, <2>6, <2>7
<1>4. DOMAIN head = 1..n /\ DOMAIN rest = 1..(Len(q) - n)
  BY <1>2, <1>3, LenProperties
<1>5. /\ \A i \in 1..n : i \in 1..Len(q)
      /\ \A i \in 1..(Len(q) - n) : i + n \in 1..Len(q)
      /\ \A i \in 1..Len(q) : i \in 1..n \/ (i - n \in 1..(Len(q) - n) /\ (i - n) + n = i)
      /\ n # 0 => 1 \in 1..n
  BY <1>1
<1> HIDE DEF head, rest
<1>6. Items(q) = Items(head) \cup Items(rest)
  <2>1. ASSUME NEW e \in Items(q) PROVE e \in Items(head) \cup Items(rest)
    <3>1. PICK i \in 1..Len(q) : e = q[i]
      BY <1>1, <2>1 DEF Items
    <3>2. CASE i \in 1..n
      BY <1>2, <1>4, <3>1, <3>2 DEF Items
    <3>3. CASE i - n \in 1..(Len(q) - n) /\ (i - n) + n = i
      BY <1>3, <1>4, <3>1, <3>3 DEF Items
    <3> QED BY <1>5, <3>2, <3>3
  <2>2. ASSUME NEW e \in Items(head) \cup Items(rest) PROVE e \in Items(q)
    <3>1. CASE e \in Items(head)
      <4>1. PICK i \in 1..n : e = head[i]
        BY <1>4, <3>1 DEF Items
      <4> QED BY <1>1, <1>2, <1>5, <4>1 DEF Items
    <3>2. CASE e \in Items(rest)
      <4>1. PICK i \in 1..(Len(q) - n) : e = rest[i]
        BY <1>4, <3>2 DEF Items
      <4>2. e = q[i + n] /\ i + n \in 1..Len(q)
        BY <1>3, <1>5, <4>1
      <4> QED BY <1>1, <4>2 DEF Items
    <3> QED BY <2>2, <3>1, <3>2
  <2> QED BY <2>1, <2>2
<1>7. n # 0 => Items(head) # {}
  BY <1>4, <1>5 DEF Items
<1> QED BY <1>3, <1>6, <1>7 DEF head, rest

LEMMA ItemsType ==
  ASSUME NEW q \in Seq(Item)
  PROVE  Items(q) \subseteq Item /\ Len(q) \in Nat /\ (Len(q) = 0 <=> q = <<>>)
BY LenProperties, ElementOfSeq, EmptySeq DEF Items

\* Going on with the next batch takes nothing out of hand.
LEMMA SpliceFacts ==
  ASSUME Limits, NEW q \in Seq(Item), Splice(q)
  PROVE  /\ writes' \in Seq(Item) /\ Len(writes') <= Len(q)
         /\ batch' \subseteq Item /\ Items(q) = batch' \cup Items(writes')
         /\ q # <<>> => batch' # {}
         /\ writes' # <<>> => batch' # {}
<1> DEFINE n == Smaller(BatchSize, Len(q))
<1>1. Len(q) \in Nat /\ Items(q) \subseteq Item /\ (q # <<>> => Len(q) # 0)
  BY ItemsType
<1>2. n \in 0..Len(q) /\ n \in Nat /\ (Len(q) # 0 => n # 0)
  <2>1. BatchSize \in Nat /\ BatchSize # 0
    BY DEF Limits
  <2>2. n \in 0..Len(q) /\ (Len(q) # 0 => n # 0)
    BY <1>1, <2>1, SmallerFacts
  <2> HIDE DEF n
  <2> QED BY <1>1, <2>2
<1> HIDE DEF n
<1>3. writes' = SubSeq(q, n + 1, Len(q)) /\ batch' = Items(SubSeq(q, 1, n))
  BY DEF Splice, n
<1>4. /\ writes' \in Seq(Item) /\ Len(writes') = Len(q) - n
      /\ Items(q) = batch' \cup Items(writes')
      /\ n # 0 => batch' # {}
  BY <1>2, <1>3, SplitItems
<1>5. Len(writes') <= Len(q) /\ (Len(writes') # 0 => Len(q) # 0)
  BY <1>1, <1>2, <1>4
<1>6. writes' # <<>> => Len(writes') # 0
  BY <1>4, ItemsType
<1> QED BY <1>1, <1>2, <1>4, <1>5, <1>6

\* push keeps what waits, and the row pushed waits now or is known to be lost.
LEMMA PushFacts ==
  ASSUME Limits, EmbedInv, host = "open", NEW item \in Item, Push(item)
  PROVE  /\ writes' \in Seq(Item) /\ Len(writes') <= Capacity
         /\ batch' \subseteq Item /\ timer' \in BOOLEAN /\ lost' \subseteq MemoryRows
         /\ item.row \in lost' \cup RowsOf(Items(writes') \cup batch')
         /\ lost \cup RowsOf(Items(writes) \cup batch) \subseteq lost' \cup RowsOf(Items(writes') \cup batch')
         /\ writes' # <<>> => timer' \/ batch' # {}
<1> DEFINE q == Append(writes, item)
<1>1. /\ writes \in Seq(Item) /\ Len(writes) <= Capacity /\ Len(writes) \in Nat /\ batch \subseteq Item
      /\ timer \in BOOLEAN /\ lost \subseteq MemoryRows /\ item.row \in MemoryRows
      /\ writes # <<>> => timer \/ batch # {}
  BY ItemsType DEF EmbedInv, EmbedTypeOK, NothingForgotten, Item
<1>2. q \in Seq(Item) /\ Len(q) = Len(writes) + 1 /\ Items(q) = Items(writes) \cup {item}
  BY <1>1, AppendItems
<1>3. CASE item.row \in RowsOf(Items(writes))
  BY <1>1, <1>3 DEF Push, RowsOf
<1>4. CASE item.row \notin RowsOf(Items(writes)) /\ Len(writes) >= Capacity
  BY <1>1, <1>4 DEF Push, RowsOf
<1>5. CASE item.row \notin RowsOf(Items(writes)) /\ ~(Len(writes) >= Capacity)
  <2>1. /\ lost' = lost \ {item.row}
        /\ \/ writes' = q /\ timer' = TRUE /\ UNCHANGED batch
           \/ batch # {} /\ writes' = q /\ UNCHANGED <<timer, batch>>
           \/ batch = {} /\ Splice(q) /\ timer' = FALSE
    BY <1>5 DEF Push
  <2>2. Len(q) <= Capacity
    BY <1>1, <1>2, <1>5 DEF Limits
  <2> HIDE DEF q
  <2>3. CASE writes' = q /\ batch' = batch /\ (timer' = TRUE \/ (batch # {} /\ timer' = timer))
    BY <1>1, <1>2, <2>1, <2>2, <2>3 DEF RowsOf
  <2>4. CASE batch = {} /\ Splice(q) /\ timer' = FALSE
    <3>1. /\ writes' \in Seq(Item) /\ Len(writes') <= Len(q)
          /\ batch' \subseteq Item /\ Items(q) = batch' \cup Items(writes')
          /\ writes' # <<>> => batch' # {}
      BY <1>2, <2>4, SpliceFacts
    <3>2. Len(writes') <= Capacity
      BY <1>1, <1>2, <2>2, <3>1, ItemsType DEF Limits
    <3>3. /\ item.row \in RowsOf(Items(writes') \cup batch')
          /\ RowsOf(Items(writes) \cup batch) \subseteq RowsOf(Items(writes') \cup batch')
      BY <1>2, <2>4, <3>1 DEF RowsOf
    <3>4. lost' \subseteq MemoryRows /\ lost \subseteq lost' \cup {item.row}
      BY <1>1, <2>1
    <3> QED BY <2>4, <3>1, <3>2, <3>3, <3>4
  <2> QED BY <2>1, <2>3, <2>4
<1> QED BY <1>3, <1>4, <1>5

LEMMA EmbedInitInv == Limits /\ EmbedInit => EmbedInv
<1> SUFFICES ASSUME Limits, EmbedInit PROVE EmbedInv
  OBVIOUS
<1>1. writes \in Seq(Item) /\ Len(writes) <= Capacity /\ Items(writes) = {}
  <2>1. writes = <<>> /\ Len(writes) = 0 /\ Items(<<>>) = {}
    BY DEF EmbedInit, Items
  <2>2. <<>> \in Seq(Item)
    BY EmptySeq
  <2> QED BY <2>1, <2>2 DEF Limits
<1>2. EmbedTypeOK
  <2>1. /\ index \in [MemoryRows -> {"absent", "bare"} \cup Models] /\ setting \in Models
        /\ Items(writes) \cup batch \cup retrying = {}
        /\ rebuild \in [on : BOOLEAN, left : SUBSET MemoryRows, part : SUBSET MemoryRows]
        /\ service \in [by : {"none", "queue", "rebuild"}, model : Models \cup {NoModel}]
    BY <1>1 DEF EmbedInit, NoRebuild, NoCall
  <2>2. changes \in 0..MaxChanges
    BY DEF EmbedInit, Limits
  <2> QED BY <1>1, <2>1, <2>2 DEF EmbedInit, EmbedTypeOK
<1>3. NothingForgotten
  BY DEF EmbedInit, NothingForgotten
<1> QED BY <1>1, <1>2, <1>3 DEF EmbedInv, EmbedInit, NoCall

\* What an action leaves alone keeps its type.
LEMMA EmbedTypes ==
  ASSUME EmbedInv, Limits
  PROVE  /\ index \in [MemoryRows -> {"absent", "bare"} \cup Models]
         /\ profile \in Models \cup {NoModel} /\ setting \in Models
         /\ writes \in Seq(Item) /\ Len(writes) <= Capacity /\ Len(writes) \in Nat
         /\ Items(writes) \subseteq Item /\ batch \subseteq Item /\ retrying \subseteq Item
         /\ timer \in BOOLEAN /\ host \in {"open", "closed"}
         /\ rebuild \in [on : BOOLEAN, left : SUBSET MemoryRows, part : SUBSET MemoryRows]
         /\ service \in [by : {"none", "queue", "rebuild"}, model : Models \cup {NoModel}]
         /\ service.by # "none" => service.model \in Models
         /\ lost \subseteq MemoryRows /\ changes \in 0..MaxChanges
BY ItemsType DEF EmbedInv, EmbedTypeOK, Item

LEMMA PrimedType ==
  ASSUME writes' \in Seq(Item), Len(writes') <= Capacity,
         index' \in [MemoryRows -> {"absent", "bare"} \cup Models],
         profile' \in Models \cup {NoModel}, setting' \in Models,
         batch' \subseteq Item, retrying' \subseteq Item,
         timer' \in BOOLEAN, host' \in {"open", "closed"},
         rebuild' \in [on : BOOLEAN, left : SUBSET MemoryRows, part : SUBSET MemoryRows],
         service' \in [by : {"none", "queue", "rebuild"}, model : Models \cup {NoModel}],
         service'.by # "none" => service'.model \in Models,
         lost' \subseteq MemoryRows, changes' \in 0..MaxChanges,
         NothingForgotten'
  PROVE  EmbedInv'
<1>1. Items(writes)' \subseteq Item
  BY ItemsType DEF Items
<1>2. EmbedTypeOK'
  BY <1>1 DEF EmbedTypeOK, Item
<1> QED BY <1>2 DEF EmbedInv

\* Steps that neither move what waits nor leave a row bare.
LEMMA StillWaiting ==
  ASSUME EmbedInv, UNCHANGED <<writes, timer, batch, retrying, lost, host>>,
         \A k \in MemoryRows : index'[k] = "bare" => index[k] = "bare"
  PROVE  NothingForgotten'
BY DEF EmbedInv, NothingForgotten, Items

LEMMA RecordInv == ASSUME Limits, EmbedInv, NEW k \in MemoryRows, Record(k) PROVE EmbedInv'
<1> DEFINE item == [row |-> k, attempts |-> 0]
<1>1. /\ host = "open" /\ changes' \in 0..MaxChanges /\ Push(item)
      /\ index' = IF index[k] = "absent" THEN [index EXCEPT ![k] = "bare"] ELSE index
      /\ UNCHANGED <<profile, setting, retrying, rebuild, service, host>>
  BY EmbedTypes DEF Record, Change, Limits
<1>2. item \in Item /\ item.row = k
  BY DEF Item, Limits
<1> HIDE DEF item
<1>3. /\ writes' \in Seq(Item) /\ Len(writes') <= Capacity
      /\ batch' \subseteq Item /\ timer' \in BOOLEAN /\ lost' \subseteq MemoryRows
      /\ item.row \in lost' \cup RowsOf(Items(writes') \cup batch')
      /\ lost \cup RowsOf(Items(writes) \cup batch) \subseteq lost' \cup RowsOf(Items(writes') \cup batch')
      /\ writes' # <<>> => timer' \/ batch' # {}
  BY <1>1, <1>2, PushFacts
<1>4. index' \in [MemoryRows -> {"absent", "bare"} \cup Models]
  BY <1>1, EmbedTypes
<1>5. NothingForgotten'
  <2>1. ASSUME NEW j \in MemoryRows, index'[j] = "bare"
        PROVE  j \in lost' \cup RowsOf(Items(writes') \cup batch' \cup retrying')
    <3>1. CASE j = k
      BY <1>2, <1>3, <3>1 DEF RowsOf
    <3>2. CASE j # k
      <4>1. index[j] = "bare"
        BY <1>1, <2>1, <3>2, EmbedTypes
      <4>2. j \in lost \cup RowsOf(Items(writes) \cup batch \cup retrying)
        BY <1>1, <4>1 DEF EmbedInv, NothingForgotten
      <4> QED BY <1>1, <1>3, <4>2 DEF RowsOf
    <3> QED BY <3>1, <3>2
  <2> QED BY <1>1, <1>3, <2>1 DEF NothingForgotten, Items
<1> QED BY <1>1, <1>3, <1>4, <1>5, EmbedTypes, PrimedType

LEMMA RetryFiresInv == ASSUME Limits, EmbedInv, NEW item \in retrying, RetryFires(item) PROVE EmbedInv'
<1>1. /\ host = "open" /\ Push(item) /\ item \in Item /\ retrying' = retrying \ {item}
      /\ UNCHANGED <<storeVars, rebuild, service, host, changes>>
  BY EmbedTypes DEF RetryFires
<1>3. /\ writes' \in Seq(Item) /\ Len(writes') <= Capacity
      /\ batch' \subseteq Item /\ timer' \in BOOLEAN /\ lost' \subseteq MemoryRows
      /\ item.row \in lost' \cup RowsOf(Items(writes') \cup batch')
      /\ lost \cup RowsOf(Items(writes) \cup batch) \subseteq lost' \cup RowsOf(Items(writes') \cup batch')
      /\ writes' # <<>> => timer' \/ batch' # {}
  BY <1>1, PushFacts
<1>5. NothingForgotten'
  <2>1. ASSUME NEW j \in MemoryRows, index'[j] = "bare"
        PROVE  j \in lost' \cup RowsOf(Items(writes') \cup batch' \cup retrying')
    <3>1. j \in lost \cup RowsOf(Items(writes) \cup batch \cup retrying)
      BY <1>1, <2>1 DEF EmbedInv, NothingForgotten, storeVars
    <3> QED BY <1>1, <1>3, <3>1 DEF RowsOf
  <2> QED BY <1>1, <1>3, <2>1 DEF NothingForgotten, Items
<1> QED BY <1>1, <1>3, <1>5, EmbedTypes, PrimedType DEF storeVars

LEMMA TimerFiresInv == ASSUME Limits, EmbedInv, TimerFires PROVE EmbedInv'
<1>1. /\ UNCHANGED <<index, profile, setting, retrying, rebuild, service, lost, host, changes>>
      /\ host = "open" /\ timer' = FALSE
      /\ IF batch = {} THEN Splice(writes) ELSE UNCHANGED <<writes, batch>>
  BY DEF TimerFires, storeVars
<1>2. /\ writes' \in Seq(Item) /\ Len(writes') <= Capacity /\ batch' \subseteq Item
      /\ Items(writes) \cup batch = Items(writes') \cup batch'
      /\ writes' # <<>> => batch' # {}
  <2>1. CASE batch = {}
    <3>1. /\ writes' \in Seq(Item) /\ Len(writes') <= Len(writes)
          /\ batch' \subseteq Item /\ Items(writes) = batch' \cup Items(writes')
          /\ writes' # <<>> => batch' # {}
      BY <1>1, <2>1, EmbedTypes, SpliceFacts
    <3>2. Len(writes') <= Capacity
      BY <3>1, ItemsType, EmbedTypes DEF Limits
    <3> QED BY <2>1, <3>1, <3>2
  <2>2. CASE batch # {}
    BY <1>1, <2>2, EmbedTypes
  <2> QED BY <2>1, <2>2
<1>3. NothingForgotten'
  <2>1. \A j \in MemoryRows : index'[j] = "bare"
           => j \in lost' \cup RowsOf(Items(writes') \cup batch' \cup retrying')
    BY <1>1, <1>2 DEF EmbedInv, NothingForgotten
  <2> QED BY <1>1, <1>2, <2>1 DEF NothingForgotten, Items
<1> QED BY <1>1, <1>2, <1>3, EmbedTypes, PrimedType

\* After a batch the queue goes on with the next.
LEMMA NextBatch ==
  ASSUME Limits, EmbedInv, Splice(writes)
  PROVE  /\ writes' \in Seq(Item) /\ Len(writes') <= Capacity /\ batch' \subseteq Item
         /\ Items(writes) = Items(writes') \cup batch'
         /\ writes' # <<>> => batch' # {}
<1>1. /\ writes' \in Seq(Item) /\ Len(writes') <= Len(writes)
      /\ batch' \subseteq Item /\ Items(writes) = batch' \cup Items(writes')
      /\ writes' # <<>> => batch' # {}
  BY EmbedTypes, SpliceFacts
<1>2. Len(writes') <= Capacity
  BY <1>1, ItemsType, EmbedTypes DEF Limits
<1> QED BY <1>1, <1>2

\* The rows of a batch are embedded, if they still are there, and no longer lost.
LEMMA ApplyFacts ==
  ASSUME Limits, EmbedInv, NEW rows \in SUBSET MemoryRows, Apply(rows), service.by # "none"
  PROVE  /\ index' \in [MemoryRows -> {"absent", "bare"} \cup Models]
         /\ profile' \in Models /\ lost' \subseteq MemoryRows
         /\ \A k \in MemoryRows : index'[k] = "bare" => index[k] = "bare" /\ k \notin rows
         /\ lost' = lost \ rows
<1>1. service.model \in Models /\ service.model # "bare"
  BY EmbedTypes DEF Limits
<1> QED BY <1>1, EmbedTypes DEF Apply, Present

LEMMA EmbeddedInv == ASSUME Limits, EmbedInv, Embedded PROVE EmbedInv'
<1>1. /\ service.by = "queue" /\ service' = NoCall /\ Apply(RowsOf(batch)) /\ Splice(writes)
      /\ UNCHANGED <<setting, timer, retrying, rebuild, host, changes>>
  BY DEF Embedded
<1>2. RowsOf(batch) \in SUBSET MemoryRows
  BY EmbedTypes DEF RowsOf, Item
<1>3. /\ index' \in [MemoryRows -> {"absent", "bare"} \cup Models]
      /\ profile' \in Models /\ lost' \subseteq MemoryRows
      /\ \A k \in MemoryRows : index'[k] = "bare" => index[k] = "bare" /\ k \notin RowsOf(batch)
      /\ lost' = lost \ RowsOf(batch)
  BY <1>1, <1>2, ApplyFacts
<1>4. /\ writes' \in Seq(Item) /\ Len(writes') <= Capacity /\ batch' \subseteq Item
      /\ Items(writes) = Items(writes') \cup batch'
      /\ writes' # <<>> => batch' # {}
  BY <1>1, NextBatch
<1>5. NothingForgotten'
  <2>1. ASSUME host = "open", NEW j \in MemoryRows, index'[j] = "bare"
        PROVE  j \in lost' \cup RowsOf(Items(writes') \cup batch' \cup retrying')
    <3>1. j \in lost \cup RowsOf(Items(writes) \cup batch \cup retrying) /\ j \notin RowsOf(batch)
      BY <1>3, <2>1 DEF EmbedInv, NothingForgotten
    <3> QED BY <1>1, <1>3, <1>4, <3>1 DEF RowsOf
  <2> QED BY <1>1, <1>4, <2>1 DEF NothingForgotten, Items
<1>6. service' \in [by : {"none", "queue", "rebuild"}, model : Models \cup {NoModel}] /\ service'.by = "none"
  BY <1>1 DEF NoCall
<1> QED BY <1>1, <1>3, <1>4, <1>5, <1>6, EmbedTypes, PrimedType

LEMMA EmbedFailsInv == ASSUME Limits, EmbedInv, EmbedFails PROVE EmbedInv'
<1> DEFINE again == {[item EXCEPT !.attempts = @ + 1] : item \in batch}
           kept == {item \in again : item.attempts < MaxAttempts}
<1>1. /\ service.by = "queue" /\ service' = NoCall /\ Splice(writes)
      /\ retrying' = retrying \cup kept /\ lost' = lost \cup RowsOf(again \ kept)
      /\ UNCHANGED <<index, profile, setting, timer, rebuild, host, changes>>
  BY DEF EmbedFails, storeVars
<1>2. /\ kept \subseteq Item
      /\ RowsOf(again \ kept) \subseteq MemoryRows
      /\ RowsOf(batch) \subseteq RowsOf(kept) \cup RowsOf(again \ kept)
  <2>1. MaxAttempts \in Nat
    BY DEF Limits
  <2>2. ASSUME NEW item \in batch
        PROVE  /\ [item EXCEPT !.attempts = @ + 1].row = item.row /\ item.row \in MemoryRows
               /\ [item EXCEPT !.attempts = @ + 1].attempts < MaxAttempts
                    => [item EXCEPT !.attempts = @ + 1] \in Item
    <3>1. item \in [row : MemoryRows, attempts : 0..MaxAttempts]
      BY EmbedTypes DEF Item
    <3> QED BY <2>1, <3>1 DEF Item
  <2>3. kept \subseteq Item
    BY <2>2
  <2>4. \A e \in again : e.row \in MemoryRows
    BY <2>2
  <2>5. \A item \in batch : \E e \in again : e.row = item.row
    BY <2>2
  <2> QED BY <2>3, <2>4, <2>5 DEF RowsOf
<1> HIDE DEF again, kept
<1>4. /\ writes' \in Seq(Item) /\ Len(writes') <= Capacity /\ batch' \subseteq Item
      /\ Items(writes) = Items(writes') \cup batch'
      /\ writes' # <<>> => batch' # {}
  BY <1>1, NextBatch
<1>5. NothingForgotten'
  <2>1. ASSUME host = "open", NEW j \in MemoryRows, index'[j] = "bare"
        PROVE  j \in lost' \cup RowsOf(Items(writes') \cup batch' \cup retrying')
    <3>1. j \in lost \cup RowsOf(Items(writes) \cup batch \cup retrying)
      BY <1>1, <2>1 DEF EmbedInv, NothingForgotten
    <3> QED BY <1>1, <1>2, <1>4, <3>1 DEF RowsOf
  <2> QED BY <1>1, <1>4, <2>1 DEF NothingForgotten, Items
<1>6. service' \in [by : {"none", "queue", "rebuild"}, model : Models \cup {NoModel}] /\ service'.by = "none"
  BY <1>1 DEF NoCall
<1>7. lost' \subseteq MemoryRows /\ retrying' \subseteq Item
  BY <1>1, <1>2, EmbedTypes
<1> QED BY <1>1, <1>4, <1>5, <1>6, <1>7, EmbedTypes, PrimedType

LEMMA RebuildInv ==
  ASSUME Limits, EmbedInv, EmbedBatch \/ RebuildBatch \/ Rebuilt \/ RebuildFails \/ Reindex \/ Search
  PROVE  EmbedInv'
<1> DEFINE Records == [on : BOOLEAN, left : SUBSET MemoryRows, part : SUBSET MemoryRows]
           Services == [by : {"none", "queue", "rebuild"}, model : Models \cup {NoModel}]
<1>1. CASE EmbedBatch \/ RebuildBatch
  <2>1. /\ UNCHANGED <<index, profile, setting, writes, timer, batch, retrying, lost, host, changes>>
        /\ service' \in Services /\ service'.model \in Models
    <3>1. PICK by \in {"queue", "rebuild"} : Acquire(by)
      BY <1>1 DEF EmbedBatch, RebuildBatch
    <3>2. UNCHANGED batch
      BY <1>1 DEF EmbedBatch, RebuildBatch
    <3>3. UNCHANGED <<index, profile, setting, writes, timer, retrying, lost, host, changes>>
      BY <3>1 DEF Acquire, storeVars
    <3>4. service' = [by |-> by, model |-> setting] /\ setting \in Models
      BY <3>1, EmbedTypes DEF Acquire
    <3> QED BY <3>2, <3>3, <3>4
  <2>2. rebuild' \in Records
    <3>1. CASE EmbedBatch
      BY <3>1, EmbedTypes DEF EmbedBatch
    <3>2. CASE RebuildBatch
      BY <3>2, EmbedTypes DEF RebuildBatch
    <3> QED BY <1>1, <3>1, <3>2
  <2>3. NothingForgotten'
    BY <2>1, StillWaiting
  <2> HIDE DEF Services, Records
  <2> QED BY <2>1, <2>2, <2>3, EmbedTypes, PrimedType DEF Services, Records
<1>2. CASE Rebuilt
  <2>1. /\ service.by = "rebuild" /\ service' = NoCall /\ Apply(rebuild.part)
        /\ rebuild' = IF rebuild.left = {} THEN NoRebuild ELSE [rebuild EXCEPT !.part = {}]
        /\ UNCHANGED <<setting, writes, timer, batch, retrying, host, changes>>
    BY <1>2 DEF Rebuilt
  <2>2. rebuild.part \in SUBSET MemoryRows /\ rebuild' \in Records
    BY <2>1, EmbedTypes DEF NoRebuild
  <2>3. /\ index' \in [MemoryRows -> {"absent", "bare"} \cup Models]
        /\ profile' \in Models /\ lost' \subseteq MemoryRows
        /\ \A k \in MemoryRows : index'[k] = "bare" => index[k] = "bare" /\ k \notin rebuild.part
        /\ lost' = lost \ rebuild.part
    BY <2>1, <2>2, ApplyFacts
  <2>4. NothingForgotten'
    <3>1. ASSUME host = "open", NEW j \in MemoryRows, index'[j] = "bare"
          PROVE  j \in lost' \cup RowsOf(Items(writes') \cup batch' \cup retrying')
      <4>1. j \in lost \cup RowsOf(Items(writes) \cup batch \cup retrying) /\ j \notin rebuild.part
        BY <2>3, <3>1 DEF EmbedInv, NothingForgotten
      <4> QED BY <2>1, <2>3, <4>1
    <3>2. host = "open" /\ writes # <<>> => timer \/ batch # {}
      BY DEF EmbedInv, NothingForgotten
    <3> QED BY <2>1, <3>1, <3>2 DEF NothingForgotten, Items
  <2>5. service' \in Services /\ service'.by = "none"
    BY <2>1 DEF NoCall
  <2> QED BY <2>1, <2>2, <2>3, <2>4, <2>5, EmbedTypes, PrimedType
<1>3. CASE RebuildFails
  <2>1. /\ UNCHANGED <<index, profile, setting, writes, timer, batch, retrying, lost, host, changes>>
        /\ rebuild' \in Records /\ service' \in Services /\ service'.by = "none"
    BY <1>3 DEF RebuildFails, storeVars, NoRebuild, NoCall
  <2>2. NothingForgotten'
    BY <2>1, StillWaiting
  <2> QED BY <2>1, <2>2, EmbedTypes, PrimedType
<1>4. CASE Reindex \/ Search
  <2>1. /\ UNCHANGED <<index, profile, setting, writes, timer, batch, retrying, service, lost, host>>
        /\ rebuild' = [NoRebuild EXCEPT !.on = TRUE, !.left = Present]
    BY <1>4 DEF Reindex, Search, StartRebuild, storeVars
  <2>2. changes' \in 0..MaxChanges
    BY <1>4, EmbedTypes DEF Reindex, Search, Change, Limits
  <2>3. rebuild' \in Records
    BY <2>1 DEF NoRebuild, Present
  <2>4. NothingForgotten'
    BY <2>1, StillWaiting
  <2> QED BY <2>1, <2>2, <2>3, <2>4, EmbedTypes, PrimedType
<1> QED BY <1>1, <1>2, <1>3, <1>4

LEMMA StoreChangeInv ==
  ASSUME Limits, EmbedInv,
         (\E m \in Models : SetSettings(m)) \/ (\E k \in MemoryRows : PruneRow(k)) \/ CloseHost
  PROVE  EmbedInv'
<1>1. ASSUME NEW m \in Models, SetSettings(m) PROVE EmbedInv'
  <2>1. /\ UNCHANGED <<index, profile, writes, timer, batch, retrying, rebuild, service, lost, host>>
        /\ setting' \in Models /\ changes' \in 0..MaxChanges
    BY <1>1, EmbedTypes DEF SetSettings, Change, Limits
  <2>2. NothingForgotten'
    BY <2>1, StillWaiting
  <2> QED BY <2>1, <2>2, EmbedTypes, PrimedType
<1>2. ASSUME NEW k \in MemoryRows, PruneRow(k) PROVE EmbedInv'
  <2>1. /\ index' = [index EXCEPT ![k] = "absent"] /\ lost' = lost \ {k} /\ host = "open"
        /\ UNCHANGED <<profile, setting, writes, timer, batch, retrying, rebuild, service, host, changes>>
    BY <1>2 DEF PruneRow
  <2>2. index' \in [MemoryRows -> {"absent", "bare"} \cup Models] /\ lost' \subseteq MemoryRows
    BY <2>1, EmbedTypes
  <2>3. NothingForgotten'
    <3>1. ASSUME NEW j \in MemoryRows, index'[j] = "bare"
          PROVE  j \in lost' \cup RowsOf(Items(writes') \cup batch' \cup retrying')
      <4>1. j # k /\ index[j] = "bare"
        BY <2>1, <3>1, EmbedTypes
      <4>2. j \in lost \cup RowsOf(Items(writes) \cup batch \cup retrying)
        BY <2>1, <4>1 DEF EmbedInv, NothingForgotten
      <4> QED BY <2>1, <4>1, <4>2
    <3>2. writes # <<>> => timer \/ batch # {}
      BY <2>1 DEF EmbedInv, NothingForgotten
    <3> QED BY <2>1, <3>1, <3>2 DEF NothingForgotten, Items
  <2> QED BY <2>1, <2>2, <2>3, EmbedTypes, PrimedType
<1>3. CASE CloseHost
  <2>1. /\ host' = "closed" /\ writes' = <<>> /\ timer' = FALSE /\ batch' = {} /\ retrying' = {}
        /\ rebuild' = NoRebuild /\ service' = NoCall
        /\ UNCHANGED <<index, profile, setting, lost>> /\ changes' \in 0..MaxChanges
    BY <1>3, EmbedTypes DEF CloseHost, Change, Limits, storeVars
  <2>2. writes' \in Seq(Item) /\ Len(writes') <= Capacity
    <3>1. <<>> \in Seq(Item) /\ Len(<<>>) = 0
      BY EmptySeq
    <3> QED BY <2>1, <3>1 DEF Limits
  <2>3. NothingForgotten'
    BY <2>1 DEF NothingForgotten
  <2>4. /\ rebuild' \in [on : BOOLEAN, left : SUBSET MemoryRows, part : SUBSET MemoryRows]
        /\ service' \in [by : {"none", "queue", "rebuild"}, model : Models \cup {NoModel}]
        /\ service'.by = "none"
    BY <2>1 DEF NoRebuild, NoCall
  <2> QED BY <2>1, <2>2, <2>3, <2>4, EmbedTypes, PrimedType
<1> QED BY <1>1, <1>2, <1>3

\* A host that starts takes up the bare rows it has room for, and notes the others.
LEMMA RecoverInv == ASSUME Limits, EmbedInv, RecoverEmbeddings PROVE EmbedInv'
<1> DEFINE bare == {k \in MemoryRows : index[k] = "bare"}
           queue(n, pick) == [i \in 1..n |-> [row |-> pick[i], attempts |-> 0]]
           Takes(n, pick) ==
             /\ lost' = bare \ {pick[i] : i \in 1..n}
             /\ IF n < BatchSize THEN writes' = queue(n, pick) /\ timer' = (n > 0) /\ UNCHANGED batch
                ELSE Splice(queue(n, pick)) /\ timer' = (BatchSize > 1 /\ n > BatchSize)
<1>0. PICK n \in 0..Capacity : \E pick \in [1..n -> bare] : Takes(n, pick)
  BY DEF RecoverEmbeddings
<1>1. PICK pick \in [1..n -> bare] : Takes(n, pick)
  BY <1>0
<1>2. host' = "open" /\ UNCHANGED <<index, profile, setting, retrying, rebuild, service, changes>>
  BY DEF RecoverEmbeddings, storeVars
<1> DEFINE q == queue(n, pick)
<1>3. n \in Nat /\ n <= Capacity
  BY DEF Limits
<1>4. q \in Seq(Item) /\ Len(q) = n /\ (q = <<>> <=> n = 0)
  <2>1. \A i \in 1..n : [row |-> pick[i], attempts |-> 0] \in Item
    BY DEF Item, Limits
  <2>2. q \in [1..n -> Item]
    BY <2>1
  <2>3. q \in Seq(Item)
    BY <1>3, <2>2, SeqDef
  <2>4. DOMAIN q = 1..n
    OBVIOUS
  <2> HIDE DEF q
  <2>5. Len(q) = n
    BY <1>3, <2>3, <2>4, LenProperties
  <2> QED BY <2>3, <2>5, ItemsType
<1>5. ASSUME NEW i \in 1..n PROVE pick[i] \in RowsOf(Items(q))
  <2>1. DOMAIN q = 1..n /\ q[i].row = pick[i]
    OBVIOUS
  <2> HIDE DEF q
  <2> QED BY <2>1 DEF Items, RowsOf
<1>6. lost' \subseteq MemoryRows /\ \A k \in bare : k \in lost' \cup RowsOf(Items(q))
  <2>1. lost' = bare \ {pick[i] : i \in 1..n}
    BY <1>1
  <2> HIDE DEF q
  <2> QED BY <1>5, <2>1
<1>7. /\ writes' \in Seq(Item) /\ Len(writes') <= Capacity /\ batch' \subseteq Item /\ timer' \in BOOLEAN
      /\ Items(q) \subseteq Items(writes') \cup batch'
      /\ writes' # <<>> => timer' \/ batch' # {}
  <2> HIDE DEF q
  <2>1. CASE n < BatchSize
    <3>1. writes' = q /\ timer' = (n > 0) /\ batch' = batch
      BY <1>1, <2>1 DEF q
    <3>2. q # <<>> => n > 0
      BY <1>3, <1>4
    <3>3. batch \subseteq Item
      BY EmbedTypes
    <3>4. timer' \in BOOLEAN /\ (writes' # <<>> => timer')
      <4>1. CASE n > 0
        <5>1. timer' = TRUE
          BY <3>1, <4>1
        <5> QED BY <5>1
      <4>2. CASE ~(n > 0)
        <5>0. (n > 0) = FALSE
          BY <4>2
        <5>1. timer' = FALSE
          <6> HIDE DEF Takes
          <6> QED BY <3>1, <5>0, Zenon
        <5>2. writes' = <<>>
          BY <3>1, <3>2, <4>2
        <5> QED BY <5>1, <5>2
      <4> QED BY <4>1, <4>2
    <3>5. Len(writes') <= Capacity
      BY <1>3, <1>4, <3>1
    <3> HIDE DEF Takes
    <3> QED BY <1>4, <3>1, <3>3, <3>4, <3>5
  <2>2. CASE ~(n < BatchSize)
    <3>1. Splice(q) /\ timer' = (BatchSize > 1 /\ n > BatchSize)
      BY <1>1, <2>2 DEF q
    <3>2. /\ writes' \in Seq(Item) /\ Len(writes') <= Len(q)
          /\ batch' \subseteq Item /\ Items(q) = batch' \cup Items(writes')
          /\ writes' # <<>> => batch' # {}
      BY <1>4, <3>1, SpliceFacts
    <3>3. Len(writes') <= Capacity
      BY <1>3, <1>4, <3>2, ItemsType DEF Limits
    <3> QED BY <3>1, <3>2, <3>3
  <2> QED BY <2>1, <2>2
<1> HIDE DEF q
<1>8. NothingForgotten'
  <2>1. ASSUME NEW j \in MemoryRows, index'[j] = "bare"
        PROVE  j \in lost' \cup RowsOf(Items(writes') \cup batch' \cup retrying')
    BY <1>2, <1>6, <1>7, <2>1 DEF RowsOf
  <2> QED BY <1>2, <1>7, <2>1 DEF NothingForgotten, Items
<1> HIDE DEF bare, queue, Takes
<1> QED BY <1>2, <1>6, <1>7, <1>8, EmbedTypes, PrimedType

LEMMA EmbedInvStep == Limits /\ EmbedInv /\ [EmbedNext]_embedVars => EmbedInv'
<1> SUFFICES ASSUME Limits, EmbedInv, [EmbedNext]_embedVars PROVE EmbedInv'
  OBVIOUS
<1>1. CASE EmbedNext
  BY <1>1, RecordInv, StoreChangeInv, TimerFiresInv, RetryFiresInv, EmbeddedInv, EmbedFailsInv,
     RebuildInv, RecoverInv DEF EmbedNext
<1>2. CASE UNCHANGED embedVars
  BY <1>2 DEF embedVars, EmbedInv, EmbedTypeOK, NothingForgotten, Items, RowsOf
<1> QED BY <1>1, <1>2

\* A row without an embedding is queued, in a batch, waiting for its next attempt or
\* known to be lost, and what waits will be looked at, for any rows and limits: no
\* overflow, failure, rebuild, deletion or restart lets one drop silently.
THEOREM NothingForgottenTheorem == ASSUME Limits PROVE EmbedSpec => []NothingForgotten
<1>1. EmbedInit => EmbedInv
  BY EmbedInitInv
<1>2. EmbedInv /\ [EmbedNext]_embedVars => EmbedInv'
  BY EmbedInvStep
<1>3. EmbedInv => NothingForgotten
  BY DEF EmbedInv
<1> QED BY <1>1, <1>2, <1>3, PTL DEF EmbedSpec
=============================================================================
