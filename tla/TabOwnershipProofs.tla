------------------------- MODULE TabOwnershipProofs -------------------------
(***************************************************************************)
(* Tab ownership for any sessions, tabs, calls and restarts.  The types    *)
(* and the storage of a first life need nothing.  That no tab has two      *)
(* owners, that a session has only what it was granted and that a removed  *)
(* lease leaves no tab behind is proved up to the first call that is       *)
(* served in the middle of a restore, which the history `early' records:   *)
(* from there on none of them holds.                                       *)
(***************************************************************************)
EXTENDS TabOwnership, TLAPS, FiniteSetTheorems, WellFoundedInduction

\* What the fields of a call, of the restore and of a release are while they are read.
CallShape(k) ==
    /\ k.op # "none" => k.s \in Sessions
    /\ k.op \in {"created", "claim", "grouping", "release", "leave", "close", "remove"} => k.t \in Tabs
    /\ k.op \in {"finalize", "finalized"} => k.obj \in Objects

Shapes ==
    /\ \A c \in Calls : CallShape(calls[c])
    /\ restore.pc = "off" => restore = NoRestore
    /\ restore.pc = "tab" => restore.s \in Sessions /\ restore.obj \in Objects
    /\ rec.pc = "tab" => rec.s \in Sessions

\* In the first life of the script a tab that storage misses is being grouped.
Written ==
    restarts = 0 =>
      /\ restore.pc = "off"
      /\ \/ \E c \in Calls : calls[c].op = "grouping"
         \/ \A s \in Sessions : TabsOf(mem, s) \subseteq stored[s].tabs

\* While the sessions are restored nothing else happens to them.
Alone ==
    restore.pc # "off" => /\ \A c \in Calls : calls[c] = NoCall
                          /\ rec.pc \in {"off", "asked"}

\* The tabs that the restore has still to ask for.
ToRestore(s) ==
    {t \in Tabs : \/ restore.pc = "read" /\ t \in restore.snap[s].tabs
                  \/ restore.pc \in {"turn", "tab"} /\ s \in restore.todo /\ t \in restore.snap[s].tabs
                  \/ restore.pc = "tab" /\ s = restore.s /\ t \in restore.tabs}

\* A session that waits to be restored has no object, and the one being restored has
\* the object that the restore holds, or none any more.
RestoreInv ==
    /\ restore.pc = "read" => \A s \in Sessions : mem.at[s] = 0
    /\ restore.pc \in {"turn", "tab"} => \A s \in restore.todo : mem.at[s] = 0
    /\ restore.pc = "tab" =>
         /\ restore.s \notin restore.todo
         /\ mem.at[restore.s] \in {0, restore.obj}
         /\ \A r \in Sessions : r # restore.s => mem.at[r] # restore.obj
         /\ restore.tabs \cap mem.obj[restore.obj].tabs = {}

Held(s) == TabsOf(mem, s) \cup ToRestore(s)
Granted(s) == {t \in Tabs : <<s, t>> \in granted}

HeldInv ==
    /\ \A s \in Sessions : Held(s) \subseteq Granted(s)
    /\ \A s, r \in Sessions : s # r => Held(s) \cap Held(r) = {}

StoredInv ==
    /\ \A s \in Sessions : stored[s].tabs \subseteq Granted(s)
    /\ \A s, r \in Sessions : s # r => stored[s].tabs \cap stored[r].tabs = {}

\* A tab about to be untracked: storage has it only if the Map does.
Leaving(k) == IF k.op \in {"release", "leave", "close", "remove"} THEN {k.t} ELSE k.todo

StaleInv ==
    /\ \A c \in Calls : calls[c].op # "none" =>
         Leaving(calls[c]) \cap stored[calls[c].s].tabs \subseteq TabsOf(mem, calls[c].s)
    /\ rec.pc = "tab" => rec.tabs \cap stored[rec.s].tabs \subseteq TabsOf(mem, rec.s)

\* A lease that has expired has no calls; a settled one has no tabs.
LeaseInv ==
    /\ \A s \in Sessions :
         /\ lease[s] \in {"expired", "gone"} => \A c \in Calls : calls[c].s # s
         /\ lease[s] = "gone" => Held(s) = {} /\ stored[s].tabs = {}
         /\ lease[s] = "expired" /\ s \in rec.settled => TabsOf(mem, s) = {}
    /\ rec.pc \in {"off", "asked"} => rec.settled = {}

TypeInv == TypeOK /\ Shapes /\ Written
OwnInv == Alone /\ RestoreInv /\ HeldInv /\ StoredInv /\ StaleInv /\ LeaseInv
Inv == TypeInv /\ (~early => OwnInv)

-----------------------------------------------------------------------------
(* The Map and its objects. *)

MemOK(m) ==
    /\ m \in [at : [Sessions -> Objects \cup {0}], obj : [Objects -> SessionValue]]
    /\ \A s, r \in Sessions : m.at[s] = m.at[r] /\ m.at[s] # 0 => s = r

LEMMA MinFacts ==
  ASSUME NEW T, T \subseteq Nat, T # {}
  PROVE  Min(T) \in T
<1>1. PICK x \in T : \A y \in T : ~(<<y, x>> \in OpToRel(<, Nat))
  BY WFMin, NatLessThanWellFounded
<1>2. ASSUME NEW y \in T PROVE x =< y
  <2>1. x \in Nat /\ y \in Nat /\ <<y, x>> \in Nat \X Nat
    OBVIOUS
  <2>2. ~(<<y, x>>[1] < <<y, x>>[2])
    BY <1>1, <2>1 DEF OpToRel
  <2> QED BY <2>1, <2>2
<1> QED BY <1>2 DEF Min

LEMMA ObjectsFacts ==
  /\ Cardinality(Sessions) \in Nat /\ Cardinality(Calls) \in Nat
  /\ Objects \subseteq Nat /\ 0 \notin Objects /\ IsFiniteSet(Objects)
  /\ Cardinality(Objects) = Cardinality(Sessions) + Cardinality(Calls) + 1
<1>1. Cardinality(Sessions) \in Nat /\ Cardinality(Calls) \in Nat
  BY OwnershipAssumption, FS_CardinalityType
<1> DEFINE N == Cardinality(Sessions) + Cardinality(Calls) + 1
<1>2. N \in Int /\ 1 \in Int /\ ~(1 > N) /\ N - 1 + 1 = N
  BY <1>1
<1>3. Objects = 1..N
  BY DEF Objects
<1> HIDE DEF N
<1>4. IsFiniteSet(Objects) /\ Cardinality(Objects) = N
  BY <1>2, <1>3, FS_Interval
<1>5. Objects \subseteq Nat /\ 0 \notin Objects
  BY <1>2, <1>3
<1> QED BY <1>1, <1>4, <1>5 DEF N

\* Two finite sets are no larger together than apart.
LEMMA ImageBound ==
  ASSUME NEW S, IsFiniteSet(S), NEW f, DOMAIN f = S, f = [x \in S |-> f[x]]
  PROVE  IsFiniteSet(Range(f)) /\ Cardinality(Range(f)) <= Cardinality(S)
<1>1. f \in Surjection(S, Range(f))
  BY DEF Surjection, Range
<1> QED BY <1>1, FS_Surjection

LEMMA FreshFacts ==
  ASSUME TypeOK, NEW m, MemOK(m), NEW s \in Sessions, m.at[s] = 0
  PROVE  /\ Fresh(m) \in Objects
         /\ \A r \in Sessions : m.at[r] # Fresh(m)
         /\ \A c \in Calls : calls[c].obj # Fresh(m)
         /\ restore.obj # Fresh(m)
<1> DEFINE f == [c \in Calls |-> calls[c].obj]
           X == Range(m.at) \cup Range(f) \cup {restore.obj}
<1>1. /\ m.at = [r \in Sessions |-> m.at[r]] /\ DOMAIN m.at = Sessions /\ 0 \in Range(m.at)
      /\ Range(f) = {calls[c].obj : c \in Calls}
  BY DEF MemOK, Range
<1>2. Objects \ X # {}
  <2>1. /\ IsFiniteSet(Range(m.at)) /\ Cardinality(Range(m.at)) <= Cardinality(Sessions)
        /\ IsFiniteSet(Range(f)) /\ Cardinality(Range(f)) <= Cardinality(Calls)
    BY <1>1, ImageBound, OwnershipAssumption
  <2> DEFINE Y == Range(m.at) \cup Range(f)
  <2>2. IsFiniteSet(Y) /\ Cardinality(Y) <= Cardinality(Sessions) + Cardinality(Calls)
    <3>1. IsFiniteSet(Y) /\ Cardinality(Y) = Cardinality(Range(m.at)) + Cardinality(Range(f))
                                             - Cardinality(Range(m.at) \cap Range(f))
      BY <2>1, FS_Union
    <3>2. IsFiniteSet(Range(m.at) \cap Range(f))
      BY <2>1, FS_Intersection
    <3> HIDE DEF Y, f
    <3>3. Cardinality(Range(m.at)) \in Nat /\ Cardinality(Range(f)) \in Nat
          /\ Cardinality(Range(m.at) \cap Range(f)) \in Nat
      BY <2>1, <3>2, FS_CardinalityType
    <3> QED BY <2>1, <3>1, <3>3, ObjectsFacts
  <2>3. IsFiniteSet(X) /\ Cardinality(X) <= Cardinality(Sessions) + Cardinality(Calls) + 1
    <3> HIDE DEF Y
    <3>1. IsFiniteSet(Y \cup {restore.obj})
          /\ Cardinality(Y \cup {restore.obj}) \in {Cardinality(Y), Cardinality(Y) + 1}
      BY <2>2, FS_AddElement
    <3>2. Cardinality(Y) \in Nat
      BY <2>2, FS_CardinalityType
    <3> QED BY <2>2, <3>1, <3>2, ObjectsFacts DEF Y
  <2>4. SUFFICES ASSUME Objects \subseteq X PROVE FALSE
    OBVIOUS
  <2>5. Objects \cup {0} \in SUBSET X
    BY <1>1, <2>4
  <2>6. Cardinality(Objects \cup {0}) = Cardinality(Sessions) + Cardinality(Calls) + 2
    <3>1. Cardinality(Objects \cup {0}) = Cardinality(Objects) + 1
      BY ObjectsFacts, FS_AddElement
    <3>2. \A a, b \in Nat : (a + b + 1) + 1 = a + b + 2
      OBVIOUS
    <3> QED BY <3>1, <3>2, ObjectsFacts
  <2> HIDE DEF X
  <2>7. Cardinality(Objects \cup {0}) <= Cardinality(X)
    BY <2>3, <2>5, FS_Subset
  <2>8. Cardinality(X) \in Nat
    BY <2>3, FS_CardinalityType
  <2> QED BY <2>3, <2>6, <2>7, <2>8, ObjectsFacts
<1>3. Fresh(m) \in Objects \ X
  <2>1. Objects \ X \subseteq Nat
    BY ObjectsFacts
  <2>2. Fresh(m) = Min(Objects \ X)
    BY <1>1 DEF Fresh
  <2> HIDE DEF X
  <2> QED BY <1>2, <2>1, <2>2, MinFacts
<1> QED BY <1>1, <1>3 DEF Range

LEMMA SessionStateFacts ==
  ASSUME TypeOK, NEW m, MemOK(m), NEW s \in Sessions, NEW n, n = sessionState(m, s)
  PROVE  /\ MemOK(n) /\ n.at[s] \in Objects
         /\ \A r \in Sessions : r # s => n.at[r] = m.at[r]
         /\ \A r \in Sessions : TabsOf(n, r) = TabsOf(m, r)
<1>1. CASE m.at[s] # 0
  BY <1>1 DEF sessionState, MemOK
<1>2. CASE m.at[s] = 0
  <2> DEFINE o == Fresh(m)
             v == [tabs |-> {}, recent |-> TRUE]
  <2>1. /\ o \in Objects /\ \A r \in Sessions : m.at[r] # o
    BY <1>2, FreshFacts
  <2>2. v \in SessionValue /\ v.tabs = {}
    BY DEF SessionValue
  <2>3. /\ n = [at |-> [m.at EXCEPT ![s] = o], obj |-> [m.obj EXCEPT ![o] = v]]
        /\ m.at \in [Sessions -> Objects \cup {0}] /\ m.obj \in [Objects -> SessionValue]
    BY <1>2 DEF sessionState, MemOK
  <2> HIDE DEF o, v
  <2>4. /\ n.at \in [Sessions -> Objects \cup {0}] /\ n.obj \in [Objects -> SessionValue]
        /\ n = [at |-> n.at, obj |-> n.obj]
        /\ n.at[s] = o /\ \A r \in Sessions : r # s => n.at[r] = m.at[r]
        /\ n.obj[o] = v /\ \A p \in Objects : p # o => n.obj[p] = m.obj[p]
    BY <2>1, <2>2, <2>3
  <2>5. MemOK(n)
    BY <2>1, <2>4 DEF MemOK
  <2>6. \A r \in Sessions : TabsOf(n, r) = TabsOf(m, r)
    BY <1>2, <2>1, <2>2, <2>3, <2>4, ObjectsFacts, ZenonT(40) DEF TabsOf
  <2> QED BY <2>1, <2>4, <2>5, <2>6
<1> QED BY <1>1, <1>2

\* One object changes.
LEMMA ObjectFacts ==
  ASSUME NEW m, MemOK(m), NEW s \in Sessions, m.at[s] \in Objects,
         NEW v \in SessionValue, NEW n, n = [m EXCEPT !.obj[m.at[s]] = v]
  PROVE  /\ MemOK(n) /\ n.at = m.at
         /\ TabsOf(n, s) = v.tabs
         /\ \A r \in Sessions : r # s => TabsOf(n, r) = TabsOf(m, r)
         /\ \A o \in Objects : n.obj[o].tabs = IF o = m.at[s] THEN v.tabs ELSE m.obj[o].tabs
<1>1. /\ m.at \in [Sessions -> Objects \cup {0}] /\ m.obj \in [Objects -> SessionValue]
      /\ n = [m EXCEPT !.obj = [m.obj EXCEPT ![m.at[s]] = v]]
  BY DEF MemOK
<1>2. /\ n.at = m.at /\ n.obj = [m.obj EXCEPT ![m.at[s]] = v]
      /\ n \in [at : [Sessions -> Objects \cup {0}], obj : [Objects -> SessionValue]]
  BY <1>1 DEF MemOK
<1>3. /\ n.obj[m.at[s]] = v
      /\ \A o \in Objects : o # m.at[s] => n.obj[o] = m.obj[o]
  BY <1>1, <1>2
<1>4. MemOK(n)
  BY <1>2 DEF MemOK
<1>5. \A r \in Sessions : r # s => TabsOf(n, r) = TabsOf(m, r)
  BY <1>1, <1>2, <1>3 DEF TabsOf, MemOK
<1>6. TabsOf(n, s) = v.tabs
  BY <1>2, <1>3, ObjectsFacts DEF TabsOf
<1> QED BY <1>2, <1>3, <1>4, <1>5, <1>6

LEMMA UpdateTurnFacts ==
  ASSUME TypeOK, NEW m, MemOK(m), NEW s \in Sessions, NEW n, n = updateTurn(m, s)
  PROVE  /\ MemOK(n) /\ n.at[s] \in Objects
         /\ \A r \in Sessions : r # s => n.at[r] = m.at[r]
         /\ \A r \in Sessions : TabsOf(n, r) = TabsOf(m, r)
<1> DEFINE p == sessionState(m, s)
           v == [p.obj[p.at[s]] EXCEPT !.recent = TRUE]
<1>1. /\ MemOK(p) /\ p.at[s] \in Objects
      /\ \A r \in Sessions : r # s => p.at[r] = m.at[r]
      /\ \A r \in Sessions : TabsOf(p, r) = TabsOf(m, r)
  BY SessionStateFacts
<1>2. n = [p EXCEPT !.obj[p.at[s]] = v]
  BY DEF updateTurn
<1> HIDE DEF p
<1>3. v \in SessionValue /\ v.tabs = TabsOf(p, s)
  <2>1. p.obj[p.at[s]] \in SessionValue /\ TabsOf(p, s) = p.obj[p.at[s]].tabs
    BY <1>1, ObjectsFacts DEF MemOK, TabsOf
  <2> QED BY <2>1 DEF SessionValue
<1> HIDE DEF v
<1> QED BY <1>1, <1>2, <1>3, ObjectFacts

LEMMA TrackFacts ==
  ASSUME TypeOK, NEW m, MemOK(m), NEW s \in Sessions, NEW t \in Tabs, NEW n, n = Track(m, s, t)
  PROVE  /\ MemOK(n) /\ n.at[s] \in Objects
         /\ \A r \in Sessions : r # s => n.at[r] = m.at[r] /\ TabsOf(n, r) = TabsOf(m, r)
         /\ TabsOf(n, s) = TabsOf(m, s) \cup {t}
<1> DEFINE p == sessionState(m, s)
           v == [p.obj[p.at[s]] EXCEPT !.tabs = @ \cup {t}]
<1>1. /\ MemOK(p) /\ p.at[s] \in Objects
      /\ \A r \in Sessions : r # s => p.at[r] = m.at[r]
      /\ \A r \in Sessions : TabsOf(p, r) = TabsOf(m, r)
  BY SessionStateFacts
<1>2. n = [p EXCEPT !.obj[p.at[s]] = v]
  BY DEF Track
<1> HIDE DEF p
<1>3. v \in SessionValue /\ v.tabs = TabsOf(p, s) \cup {t}
  BY <1>1, ObjectsFacts DEF MemOK, SessionValue, TabsOf
<1> HIDE DEF v
<1> QED BY <1>1, <1>2, <1>3, ObjectFacts

LEMMA DropFacts ==
  ASSUME NEW m, MemOK(m), NEW s \in Sessions, NEW n, n = Drop(m, s)
  PROVE  /\ MemOK(n) /\ n.at[s] = 0 /\ TabsOf(n, s) = {}
         /\ \A r \in Sessions : r # s => n.at[r] = m.at[r] /\ TabsOf(n, r) = TabsOf(m, r)
         /\ \A o \in Objects : n.obj[o].tabs = m.obj[o].tabs
<1>1. CASE m.at[s] = 0
  BY <1>1 DEF Drop, TabsOf
<1>2. CASE m.at[s] # 0
  <2> DEFINE v == [m.obj[m.at[s]] EXCEPT !.recent = FALSE]
             p == [m EXCEPT !.obj[m.at[s]] = v]
  <2>1. m.at[s] \in Objects /\ m.at \in [Sessions -> Objects \cup {0}]
    BY <1>2 DEF MemOK
  <2>2. v \in SessionValue /\ v.tabs = m.obj[m.at[s]].tabs
    BY <2>1 DEF MemOK, SessionValue
  <2>0. p = [m EXCEPT !.obj[m.at[s]] = v]
    OBVIOUS
  <2> HIDE DEF v, p
  <2>3. /\ MemOK(p) /\ p.at = m.at
        /\ \A r \in Sessions : r # s => TabsOf(p, r) = TabsOf(m, r)
        /\ \A o \in Objects : p.obj[o].tabs = IF o = m.at[s] THEN v.tabs ELSE m.obj[o].tabs
    BY <2>1, <2>2, <2>0, ObjectFacts
  <2>4. n = [p EXCEPT !.at[s] = 0]
    BY <1>2 DEF Drop, v, p, MemOK
  <2>5. /\ n.obj = p.obj /\ n.at = [m.at EXCEPT ![s] = 0]
        /\ n \in [at : [Sessions -> Objects \cup {0}], obj : [Objects -> SessionValue]]
    BY <2>1, <2>3, <2>4 DEF MemOK
  <2>6. n.at[s] = 0 /\ \A r \in Sessions : r # s => n.at[r] = m.at[r]
    BY <2>1, <2>5
  <2>7. MemOK(n)
    BY <2>5, <2>6 DEF MemOK
  <2>8. \A r \in Sessions : r # s => TabsOf(n, r) = TabsOf(m, r)
    BY <2>3, <2>5, <2>6 DEF TabsOf
  <2>9. TabsOf(n, s) = {}
    BY <2>6 DEF TabsOf
  <2>10. \A o \in Objects : n.obj[o].tabs = m.obj[o].tabs
    BY <2>2, <2>3, <2>5
  <2> QED BY <2>6, <2>7, <2>8, <2>9, <2>10
<1> QED BY <1>1, <1>2

LEMMA UntrackFacts ==
  ASSUME NEW m, MemOK(m), NEW s \in Sessions, NEW T, NEW n, n = Untrack(m, s, T)
  PROVE  /\ MemOK(n) /\ n.at[s] \in {m.at[s], 0} /\ TabsOf(n, s) = TabsOf(m, s) \ T
         /\ \A r \in Sessions : r # s => n.at[r] = m.at[r] /\ TabsOf(n, r) = TabsOf(m, r)
         /\ \A o \in Objects : n.obj[o].tabs \subseteq m.obj[o].tabs
<1>1. CASE m.at[s] = 0
  BY <1>1 DEF Untrack, TabsOf
<1>2. CASE m.at[s] # 0
  <2> DEFINE v == [m.obj[m.at[s]] EXCEPT !.tabs = @ \ T]
             p == [m EXCEPT !.obj[m.at[s]] = v]
  <2>1. m.at[s] \in Objects
    BY <1>2 DEF MemOK
  <2>2. v \in SessionValue /\ v.tabs = m.obj[m.at[s]].tabs \ T /\ TabsOf(m, s) = m.obj[m.at[s]].tabs
    BY <1>2, <2>1 DEF MemOK, SessionValue, TabsOf
  <2>0. p = [m EXCEPT !.obj[m.at[s]] = v]
    OBVIOUS
  <2> HIDE DEF v, p
  <2>3. /\ MemOK(p) /\ p.at = m.at /\ TabsOf(p, s) = v.tabs
        /\ \A r \in Sessions : r # s => TabsOf(p, r) = TabsOf(m, r)
        /\ \A o \in Objects : p.obj[o].tabs = IF o = m.at[s] THEN v.tabs ELSE m.obj[o].tabs
    <3>1. v \in SessionValue
      BY <2>2
    <3>2. MemOK(p) /\ p.at = m.at /\ TabsOf(p, s) = v.tabs
      BY <2>1, <2>0, <3>1, ObjectFacts
    <3>3. \A r \in Sessions : r # s => TabsOf(p, r) = TabsOf(m, r)
      BY <2>1, <2>0, <3>1, ObjectFacts
    <3>4. \A o \in Objects : p.obj[o].tabs = IF o = m.at[s] THEN v.tabs ELSE m.obj[o].tabs
      <4>1. p.obj = [m.obj EXCEPT ![m.at[s]] = v] /\ m.obj \in [Objects -> SessionValue]
        BY <2>0 DEF MemOK
      <4> QED BY <2>1, <4>1
    <3> QED BY <3>2, <3>3, <3>4
  <2>4. n = IF TabsOf(p, s) = {} THEN Drop(p, s) ELSE p
    BY <1>2 DEF Untrack, v, p
  <2>5. \A o \in Objects : p.obj[o].tabs \subseteq m.obj[o].tabs
    BY <2>2, <2>3
  <2>6. CASE TabsOf(p, s) # {}
    BY <2>2, <2>3, <2>4, <2>5, <2>6
  <2>7. CASE TabsOf(p, s) = {}
    <3>1. /\ MemOK(n) /\ n.at[s] = 0 /\ TabsOf(n, s) = {}
          /\ \A r \in Sessions : r # s => n.at[r] = p.at[r] /\ TabsOf(n, r) = TabsOf(p, r)
          /\ \A o \in Objects : n.obj[o].tabs = p.obj[o].tabs
      BY <2>3, <2>4, <2>7, DropFacts, SMTT(20)
    <3> QED BY <2>2, <2>3, <2>5, <2>7, <3>1
  <2> QED BY <2>6, <2>7
<1> QED BY <1>1, <1>2

LEMMA SerializedFacts ==
  ASSUME NEW m, MemOK(m)
  PROVE  /\ Serialized(m) \in [Sessions -> SessionValue]
         /\ \A s \in Sessions : Serialized(m)[s].tabs = TabsOf(m, s)
BY DEF Serialized, MemOK, TabsOf, Absent, SessionValue

-----------------------------------------------------------------------------
(* What most steps have in common. *)

\* Sessions lose tabs, if anything, and what they lose is stored.
MapShrinks ==
    /\ MemOK(mem') /\ stored' \in [Sessions -> SessionValue] /\ granted' \subseteq granted
    /\ \A s \in Sessions : TabsOf(mem', s) \subseteq TabsOf(mem, s)
    /\ \/ stored' = Serialized(mem')
       \/ \A s \in Sessions : stored'[s].tabs = stored[s].tabs /\ TabsOf(mem', s) = TabsOf(mem, s)

\* What is given back is held and stored no longer, and the restore keeps its object.
GivesBack ==
    /\ \A s \in Sessions, t \in Tabs : <<s, t>> \in granted /\ <<s, t>> \notin granted' =>
         t \notin TabsOf(mem', s) /\ t \notin ToRestore(s) /\ t \notin stored'[s].tabs
    /\ restore.pc # "off" => /\ \A s \in Sessions : mem'.at[s] \in {mem.at[s], 0}
                             /\ \A o \in Objects : mem'.obj[o].tabs \subseteq mem.obj[o].tabs

\* The history only grows, and records a call served in the middle of a restore.
Grows == early' \in BOOLEAN /\ (early => early')
Opens == early' \/ restore.pc = "off"

CallGoesOn(c) ==
    \/ calls'[c] = calls[c]
    \/ /\ calls'[c] \in Call /\ CallShape(calls'[c])
       /\ calls[c].op = "grouping" => stored' = Serialized(mem')
       /\ calls'[c].s \in Sessions => calls'[c].s = calls[c].s \/ lease[calls'[c].s] = "live"
       /\ Opens
       /\ calls'[c].op # "none" =>
            \/ stored' = Serialized(mem')
            \/ /\ calls[c].op # "none" /\ calls'[c].s = calls[c].s
               /\ Leaving(calls'[c]) \subseteq Leaving(calls[c])
            \/ Leaving(calls'[c]) \subseteq TabsOf(mem', calls'[c].s)

RecGoesOn ==
    \/ rec' = rec
    \/ /\ rec' \in Reconciling
       /\ early' \/ rec'.pc \in {"off", "asked"} \/ restore.pc = "off"
       /\ \A s \in rec'.settled : s \in rec.settled \/ TabsOf(mem', s) = {}
       /\ rec'.pc \in {"off", "asked"} => rec'.settled = {}
       /\ rec'.pc = "tab" => /\ rec'.s \in Sessions
                             /\ \/ rec.pc = "tab" /\ rec'.s = rec.s /\ rec'.tabs \subseteq rec.tabs
                                \/ rec'.tabs \subseteq TabsOf(mem', rec'.s)

LEMMA Serializing ==
  ASSUME MapShrinks, stored' = Serialized(mem')
  PROVE  \A s \in Sessions : stored'[s].tabs = TabsOf(mem', s)
BY SerializedFacts DEF MapShrinks

LEMMA CommonStep ==
  ASSUME Inv, Grows, MapShrinks, ~early' /\ OwnInv => GivesBack,
         calls' = [c \in Calls |-> calls'[c]], \A c \in Calls : CallGoesOn(c), RecGoesOn,
         UNCHANGED <<restore, lease, restarts>>,
         used' \in SUBSET Tabs, open' \subseteq used', begun' \in 0 .. MaxCalls
  PROVE  Inv'
<1> USE DEF Inv, TypeInv
<1>1. TypeOK'
  <2>1. calls' \in [Calls -> Call]
    BY DEF TypeOK, CallGoesOn
  <2>2. rec' \in Reconciling
    BY DEF TypeOK, RecGoesOn
  <2> QED BY <2>1, <2>2 DEF TypeOK, MapShrinks, MemOK, Grows
<1>2. Shapes'
  <2>1. \A c \in Calls : CallShape(calls'[c])
    BY DEF Shapes, CallGoesOn
  <2>2. rec'.pc = "tab" => rec'.s \in Sessions
    BY DEF Shapes, RecGoesOn
  <2> QED BY <2>1, <2>2 DEF Shapes
<1>3. Written'
  <2>1. CASE stored' = Serialized(mem')
    BY <2>1, Serializing DEF Written
  <2>2. CASE stored' # Serialized(mem')
    <3>1. \A c \in Calls : calls[c].op = "grouping" => calls'[c].op = "grouping"
      BY <2>2 DEF CallGoesOn
    <3>2. \A s \in Sessions : stored'[s].tabs = stored[s].tabs /\ TabsOf(mem', s) = TabsOf(mem, s)
      BY <2>2 DEF MapShrinks
    <3> QED BY <3>1, <3>2 DEF Written
  <2> QED BY <2>1, <2>2
<1>4. ASSUME ~early' PROVE OwnInv'
  <2> USE <1>4 DEF OwnInv, Grows, Opens
  <2>1. GivesBack
    OBVIOUS
  <2>2. Alone'
    BY DEF Alone, CallGoesOn, RecGoesOn
  <2>3. RestoreInv'
    <3>1. restore' = restore /\ restore \in Restoring
      BY DEF TypeOK
    <3>2. restore.pc # "off" => /\ \A s \in Sessions : mem'.at[s] \in {mem.at[s], 0}
                                /\ \A o \in Objects : mem'.obj[o].tabs \subseteq mem.obj[o].tabs
      BY <2>1 DEF GivesBack
    <3>3. restore.pc = "tab" => restore.s \in Sessions /\ restore.obj \in Objects
      BY DEF Shapes
    <3>4. restore.todo \subseteq Sessions
      BY <3>1 DEF Restoring
    <3> QED BY <3>1, <3>2, <3>3, <3>4, ObjectsFacts DEF RestoreInv
  <2>4. \A s \in Sessions : /\ ToRestore(s)' = ToRestore(s) /\ Held(s)' \subseteq Held(s)
                            /\ TabsOf(mem', s) \subseteq Tabs
    <3>1. \A s \in Sessions : ToRestore(s)' = ToRestore(s)
      BY DEF ToRestore
    <3>2. \A s \in Sessions : TabsOf(mem, s) \subseteq Tabs
      BY DEF TypeOK, TabsOf, SessionValue
    <3> QED BY <3>1, <3>2 DEF Held, MapShrinks
  <2>5. HeldInv'
    <3>1. ASSUME NEW s \in Sessions, NEW t \in Held(s)' PROVE t \in Granted(s)'
      <4>1. t \in Held(s) /\ t \in Granted(s) /\ t \in Tabs
        BY <2>4, <3>1 DEF HeldInv, Granted
      <4>2. t \in TabsOf(mem', s) \/ t \in ToRestore(s)
        BY <2>4, <3>1 DEF Held
      <4> QED BY <2>1, <4>1, <4>2 DEF GivesBack, Granted
    <3> QED BY <2>4, <3>1 DEF HeldInv
  <2>6. StoredInv'
    <3>1. CASE stored' = Serialized(mem')
      BY <2>5, <3>1, Serializing DEF HeldInv, Held, StoredInv
    <3>2. CASE stored' # Serialized(mem')
      <4>1. \A s \in Sessions : stored'[s].tabs = stored[s].tabs
        BY <3>2 DEF MapShrinks
      <4>2. ASSUME NEW s \in Sessions, NEW t \in stored'[s].tabs PROVE t \in Granted(s)'
        <5>1. t \in Granted(s) /\ t \in Tabs
          BY <4>1, <4>2 DEF StoredInv, Granted
        <5> QED BY <2>1, <4>2, <5>1 DEF GivesBack, Granted
      <4> QED BY <4>1, <4>2 DEF StoredInv
    <3> QED BY <3>1, <3>2
  <2>7. StaleInv'
    <3>1. CASE stored' = Serialized(mem')
      <4>1. \A s \in Sessions : stored'[s].tabs \subseteq TabsOf(mem', s)
        BY <3>1, Serializing
      <4>2. \A c \in Calls : calls'[c].op # "none" => calls'[c].s \in Sessions
        BY <1>2 DEF Shapes, CallShape
      <4>3. rec'.pc = "tab" => rec'.s \in Sessions
        BY <1>2 DEF Shapes
      <4> QED BY <4>1, <4>2, <4>3 DEF StaleInv
    <3>2. CASE stored' # Serialized(mem')
      <4>1. \A s \in Sessions : stored'[s].tabs = stored[s].tabs /\ TabsOf(mem', s) = TabsOf(mem, s)
        BY <3>2 DEF MapShrinks
      <4>2. ASSUME NEW c \in Calls, calls'[c].op # "none"
            PROVE  Leaving(calls'[c]) \cap stored'[calls'[c].s].tabs \subseteq TabsOf(mem', calls'[c].s)
        <5>1. calls'[c].s \in Sessions
          BY <1>2, <4>2 DEF Shapes, CallShape
        <5>2. CASE Leaving(calls'[c]) \subseteq TabsOf(mem', calls'[c].s)
          BY <5>2
        <5>3. CASE /\ calls[c].op # "none" /\ calls'[c].s = calls[c].s
                   /\ Leaving(calls'[c]) \subseteq Leaving(calls[c])
          BY <4>1, <5>1, <5>3 DEF StaleInv
        <5> QED BY <3>2, <4>2, <5>2, <5>3 DEF CallGoesOn
      <4>3. rec'.pc = "tab" => rec'.tabs \cap stored'[rec'.s].tabs \subseteq TabsOf(mem', rec'.s)
        <5>1. rec'.pc = "tab" => rec'.s \in Sessions
          BY <1>2 DEF Shapes
        <5> QED BY <4>1, <5>1 DEF StaleInv, RecGoesOn
      <4> QED BY <4>2, <4>3 DEF StaleInv
    <3> QED BY <3>1, <3>2
  <2>8. LeaseInv'
    <3>1. ASSUME NEW s \in Sessions, lease[s] \in {"expired", "gone"}, NEW c \in Calls
          PROVE  calls'[c].s # s
      BY <3>1 DEF LeaseInv, CallGoesOn
    <3>2. \A s \in Sessions : lease[s] = "gone" => Held(s)' = {} /\ stored'[s].tabs = {}
      <4>1. \A s \in Sessions : stored'[s].tabs = stored[s].tabs \/ stored'[s].tabs \subseteq Held(s)'
        BY Serializing DEF MapShrinks, Held
      <4> QED BY <2>4, <4>1 DEF LeaseInv
    <3>3. \A s \in Sessions : lease[s] = "expired" /\ s \in rec'.settled => TabsOf(mem', s) = {}
      BY DEF LeaseInv, RecGoesOn, MapShrinks
    <3>4. rec'.pc \in {"off", "asked"} => rec'.settled = {}
      BY DEF LeaseInv, RecGoesOn
    <3> QED BY <3>1, <3>2, <3>3, <3>4 DEF LeaseInv
  <2> QED BY <2>2, <2>3, <2>5, <2>6, <2>7, <2>8
<1> QED BY <1>1, <1>2, <1>3, <1>4

-----------------------------------------------------------------------------
(* How the Map changes. *)

LEMMA SameMap ==
  ASSUME Inv, Grows, UNCHANGED <<mem, granted>>, stored' \in {stored, Serialized(mem)}
  PROVE  MapShrinks /\ GivesBack
<1>1. MemOK(mem) /\ stored \in [Sessions -> SessionValue]
  BY DEF Inv, TypeInv, TypeOK, MemOK
<1>2. Serialized(mem) \in [Sessions -> SessionValue]
  BY <1>1, SerializedFacts
<1> QED BY <1>1, <1>2 DEF MapShrinks, GivesBack

LEMMA TurnMap ==
  ASSUME Inv, Grows, NEW s \in Sessions, mem' = updateTurn(mem, s), UNCHANGED granted,
         stored' \in {stored, Serialized(mem')}
  PROVE  MapShrinks /\ (restore.pc = "off" => GivesBack)
<1>1. TypeOK /\ MemOK(mem) /\ stored \in [Sessions -> SessionValue]
  BY DEF Inv, TypeInv, TypeOK, MemOK
<1>2. MemOK(mem') /\ \A r \in Sessions : TabsOf(mem', r) = TabsOf(mem, r)
  BY <1>1, UpdateTurnFacts
<1>3. Serialized(mem') \in [Sessions -> SessionValue]
  BY <1>2, SerializedFacts
<1> QED BY <1>1, <1>2, <1>3 DEF MapShrinks, GivesBack

LEMMA UntrackMap ==
  ASSUME Inv, Grows, NEW s \in Sessions, NEW T, UntrackAndPersist(s, T)
  PROVE  /\ MapShrinks
         /\ T \cap stored[s].tabs \subseteq TabsOf(mem, s) /\ T \cap ToRestore(s) = {} => GivesBack
<1>1. MemOK(mem) /\ stored \in [Sessions -> SessionValue] /\ granted \subseteq Sessions \X Tabs
  BY DEF Inv, TypeInv, TypeOK, MemOK
<1>2. /\ MemOK(mem') /\ mem'.at[s] \in {mem.at[s], 0} /\ TabsOf(mem', s) = TabsOf(mem, s) \ T
      /\ \A r \in Sessions : r # s => mem'.at[r] = mem.at[r] /\ TabsOf(mem', r) = TabsOf(mem, r)
      /\ \A o \in Objects : mem'.obj[o].tabs \subseteq mem.obj[o].tabs
  BY <1>1, UntrackFacts DEF UntrackAndPersist
<1>3. \/ stored' = Serialized(mem')
      \/ stored' = stored /\ mem' = mem /\ TabsOf(mem, s) = {}
  BY DEF UntrackAndPersist, Untrack, TabsOf
<1>4. Serialized(mem') \in [Sessions -> SessionValue]
      /\ \A r \in Sessions : Serialized(mem')[r].tabs = TabsOf(mem', r)
  BY <1>2, SerializedFacts
<1>5. granted' = granted \ ({s} \X T)
  BY DEF UntrackAndPersist
<1>6. MapShrinks
  <2>1. \A r \in Sessions : TabsOf(mem', r) \subseteq TabsOf(mem, r)
    BY <1>2
  <2> QED BY <1>1, <1>2, <1>3, <1>4, <1>5, <2>1 DEF MapShrinks
<1>7. ASSUME T \cap stored[s].tabs \subseteq TabsOf(mem, s), T \cap ToRestore(s) = {}
      PROVE  GivesBack
  <2>1. ASSUME NEW r \in Sessions, NEW t \in Tabs, <<r, t>> \in granted, <<r, t>> \notin granted'
        PROVE  t \notin TabsOf(mem', r) /\ t \notin ToRestore(r) /\ t \notin stored'[r].tabs
    <3>1. r = s /\ t \in T
      BY <1>5, <2>1
    <3> QED BY <1>2, <1>3, <1>4, <1>7, <3>1
  <2>2. \A r \in Sessions : mem'.at[r] \in {mem.at[r], 0}
    BY <1>2
  <2> QED BY <1>2, <2>1, <2>2 DEF GivesBack
<1> QED BY <1>6, <1>7

LEMMA DropMap ==
  ASSUME Inv, Grows, NEW s \in Sessions, mem' = Drop(mem, s), UNCHANGED granted,
         \/ stored' = Serialized(mem')
         \/ stored' = stored /\ TabsOf(mem, s) = {}
  PROVE  MapShrinks /\ GivesBack
<1>1. MemOK(mem) /\ stored \in [Sessions -> SessionValue]
  BY DEF Inv, TypeInv, TypeOK, MemOK
<1>2. /\ MemOK(mem') /\ mem'.at[s] = 0 /\ TabsOf(mem', s) = {}
      /\ \A r \in Sessions : r # s => mem'.at[r] = mem.at[r] /\ TabsOf(mem', r) = TabsOf(mem, r)
      /\ \A o \in Objects : mem'.obj[o].tabs = mem.obj[o].tabs
  BY <1>1, DropFacts
<1>3. Serialized(mem') \in [Sessions -> SessionValue]
  BY <1>2, SerializedFacts
<1>4. \A r \in Sessions : mem'.at[r] \in {mem.at[r], 0} /\ TabsOf(mem', r) \subseteq TabsOf(mem, r)
  BY <1>2
<1>5. TabsOf(mem, s) = {} => \A r \in Sessions : TabsOf(mem', r) = TabsOf(mem, r)
  BY <1>2
<1> QED BY <1>1, <1>2, <1>3, <1>4, <1>5 DEF MapShrinks, GivesBack

\* What the restore has still to ask for is no session's.
LEMMA OwnedIsRestored ==
  ASSUME Inv, Grows, OwnInv, NEW s \in Sessions
  PROVE  TabsOf(mem, s) \cap ToRestore(s) = {}
<1>1. restore \in Restoring /\ (restore.pc = "tab" => restore.s \in Sessions)
  BY DEF Inv, TypeInv, TypeOK, Shapes
<1>2. mem.at[s] = 0 => TabsOf(mem, s) = {}
  BY DEF TabsOf
<1>3. mem.at[s] # 0 /\ restore.pc = "tab" /\ restore.s = s => TabsOf(mem, s) = mem.obj[restore.obj].tabs
  BY DEF OwnInv, RestoreInv, TabsOf
<1> QED BY <1>1, <1>2, <1>3 DEF OwnInv, RestoreInv, ToRestore

\* No call is served while the sessions are restored.
LEMMA Served ==
  ASSUME Inv, Grows
  PROVE  /\ \A c \in Calls : calls[c].op # "none" => Opens
         /\ rec.pc \in {"turn", "tab"} => Opens
         /\ restore.pc = "off" => \A s \in Sessions : ToRestore(s) = {}
<1>1. \A c \in Calls : calls[c] = NoCall => calls[c].op = "none"
  BY DEF NoCall
<1> QED BY <1>1 DEF Inv, OwnInv, Alone, Opens, Grows, NoRestore, ToRestore

-----------------------------------------------------------------------------
(* How a call goes on. *)

LEMMA NewCall ==
  ASSUME Inv, Grows, NEW c \in Calls, NEW k \in Call, calls' = [calls EXCEPT ![c] = k], CallShape(k),
         calls[c].op = "grouping" => stored' = Serialized(mem'),
         k.s \in Sessions => k.s = calls[c].s \/ lease[k.s] = "live",
         Opens,
         k.op # "none" => \/ stored' = Serialized(mem')
                          \/ calls[c].op # "none" /\ k.s = calls[c].s /\ Leaving(k) \subseteq Leaving(calls[c])
                          \/ Leaving(k) \subseteq TabsOf(mem', k.s)
  PROVE  calls' = [d \in Calls |-> calls'[d]] /\ \A d \in Calls : CallGoesOn(d)
<1>1. calls \in [Calls -> Call]
  BY DEF Inv, TypeInv, TypeOK
<1>2. calls'[c] = k /\ calls' = [d \in Calls |-> calls'[d]] /\ \A d \in Calls : d # c => calls'[d] = calls[d]
  BY <1>1
<1> QED BY <1>2 DEF CallGoesOn

LEMMA SameCalls ==
  ASSUME Inv, Grows, UNCHANGED calls
  PROVE  calls' = [d \in Calls |-> calls'[d]] /\ \A d \in Calls : CallGoesOn(d)
BY DEF Inv, TypeInv, TypeOK, CallGoesOn

LEMMA AnsweredGoesOn ==
  ASSUME Inv, Grows, NEW c \in Calls, calls[c].op # "none", Answered(c),
         calls[c].op = "grouping" => stored' = Serialized(mem')
  PROVE  calls' = [d \in Calls |-> calls'[d]] /\ \A d \in Calls : CallGoesOn(d)
<1>1. NoCall \in Call /\ CallShape(NoCall) /\ NoCall.op = "none" /\ NoCall.s \notin Sessions
  BY OwnershipAssumption DEF NoCall, Call, CallShape
<1>2. calls' = [calls EXCEPT ![c] = NoCall]
  BY DEF Answered
<1>3. Opens
  BY Served
<1> HIDE DEF NoCall
<1> QED BY <1>1, <1>2, <1>3, NewCall

LEMMA LeavingGoesOn ==
  ASSUME Inv, Grows, NEW c \in Calls, calls[c].op \in {"release", "close", "remove"},
         NEW op \in {"leave", "remove"}, Becomes(c, op)
  PROVE  calls' = [d \in Calls |-> calls'[d]] /\ \A d \in Calls : CallGoesOn(d)
<1> DEFINE k == [calls[c] EXCEPT !.op = op]
<1>1. calls[c] \in Call /\ CallShape(calls[c])
  BY DEF Inv, TypeInv, TypeOK, Shapes
<1>2. k \in Call /\ k.op = op /\ k.s = calls[c].s /\ k.t = calls[c].t
  BY <1>1 DEF Call
<1>3. calls' = [calls EXCEPT ![c] = k]
  BY DEF Becomes
<1> HIDE DEF k
<1>4. CallShape(k) /\ Leaving(k) \subseteq Leaving(calls[c])
  BY <1>1, <1>2 DEF CallShape, Leaving
<1>5. Opens
  BY Served
<1> QED BY <1>2, <1>3, <1>4, <1>5, NewCall

LEMMA StartsGoesOn ==
  ASSUME Inv, Grows, Opens, NEW c \in Calls, NEW op \in {"create", "claim", "release", "close"},
         NEW s \in Sessions, NEW t \in Tabs \cup {None}, Starts(c, op, s, t), op # "create" => t \in Tabs,
         op \in {"release", "close"} => stored' = Serialized(mem')
  PROVE  /\ calls' = [d \in Calls |-> calls'[d]] /\ \A d \in Calls : CallGoesOn(d)
         /\ UNCHANGED restarts /\ begun' \in 0 .. MaxCalls
<1> DEFINE k == [NoCall EXCEPT !.op = op, !.s = s, !.t = t]
<1>1. k \in Call /\ k.op = op /\ k.s = s /\ k.t = t /\ k.todo = {}
  BY DEF NoCall, Call
<1>2. calls' = [calls EXCEPT ![c] = k] /\ calls[c] = NoCall /\ lease[s] = "live"
      /\ UNCHANGED restarts
  BY DEF Starts, Begins, MayCall
<1>3. begun' \in 0 .. MaxCalls
  <2>1. begun \in 0 .. MaxCalls /\ begun < MaxCalls /\ begun' = begun + 1
    BY DEF Starts, Begins, Inv, TypeInv, TypeOK
  <2> QED BY <2>1, OwnershipAssumption
<1>4. calls[c].op = "none"
  BY <1>2 DEF NoCall
<1> HIDE DEF k
<1>5. CallShape(k) /\ (op \in {"create", "claim"} => Leaving(k) = {})
  BY <1>1 DEF CallShape, Leaving
<1> QED BY <1>1, <1>2, <1>3, <1>4, <1>5, NewCall

-----------------------------------------------------------------------------
(* The session methods. *)

LEMMA Bounds ==
  ASSUME Inv, Grows
  PROVE  used \in SUBSET Tabs /\ open \subseteq used /\ begun \in 0 .. MaxCalls
BY DEF Inv, TypeInv, TypeOK

LEMMA SessionStep ==
  ASSUME Inv, Grows, Opens, NEW s \in Sessions, Talk(s) \/ \E t \in Tabs : Act(s, t)
  PROVE  Inv'
<1>1. /\ mem' = updateTurn(mem, s) /\ UNCHANGED granted /\ stored' \in {stored, Serialized(mem')}
      /\ UNCHANGED <<open, used, calls, restore, rec, lease, bounds>>
  BY DEF Talk, Act, MayCall
<1>2. MapShrinks /\ (~early' => GivesBack)
  BY <1>1, TurnMap DEF Opens
<1>3. calls' = [d \in Calls |-> calls'[d]] /\ \A d \in Calls : CallGoesOn(d)
  BY <1>1, SameCalls
<1>4. RecGoesOn
  BY <1>1 DEF RecGoesOn
<1> QED BY <1>1, <1>2, <1>3, <1>4, Bounds, CommonStep DEF bounds

LEMMA BeginStep ==
  ASSUME Inv, Grows, Opens, NEW c \in Calls, NEW s \in Sessions,
         \/ BeginCreate(c, s)
         \/ \E t \in Tabs : BeginClaim(c, s, t) \/ \E op \in {"release", "close"} : BeginLeave(c, op, s, t)
  PROVE  Inv'
<1>1. /\ mem' = updateTurn(mem, s) /\ UNCHANGED granted /\ stored' \in {stored, Serialized(mem')}
      /\ UNCHANGED <<open, used, restore, rec, lease>>
  BY DEF BeginCreate, BeginClaim, BeginLeave
<1>2. /\ calls' = [d \in Calls |-> calls'[d]] /\ \A d \in Calls : CallGoesOn(d)
      /\ UNCHANGED restarts /\ begun' \in 0 .. MaxCalls
  <2>1. CASE BeginCreate(c, s)
    BY <2>1, StartsGoesOn DEF BeginCreate
  <2>2. CASE \E t \in Tabs : BeginClaim(c, s, t)
    BY <2>2, StartsGoesOn DEF BeginClaim
  <2>3. CASE \E t \in Tabs : \E op \in {"release", "close"} : BeginLeave(c, op, s, t)
    BY <2>3, StartsGoesOn DEF BeginLeave
  <2> QED BY <2>1, <2>2, <2>3
<1>3. MapShrinks /\ (~early' => GivesBack)
  BY <1>1, TurnMap DEF Opens
<1>4. RecGoesOn
  BY <1>1 DEF RecGoesOn
<1> QED BY <1>1, <1>2, <1>3, <1>4, Bounds, CommonStep

LEMMA CreateStep ==
  ASSUME Inv, Grows, NEW c \in Calls, NEW t \in Tabs, Create(c, t)
  PROVE  Inv'
<1> DEFINE k == [calls[c] EXCEPT !.op = "created", !.t = t]
<1>1. /\ calls[c].op = "create" /\ calls' = [calls EXCEPT ![c] = k]
      /\ open' = open \cup {t} /\ used' = used \cup {t}
      /\ UNCHANGED <<mem, stored, restore, rec, lease, bounds, granted>>
  BY DEF Create
<1>2. calls[c] \in Call /\ CallShape(calls[c])
  BY DEF Inv, TypeInv, TypeOK, Shapes
<1>3. k \in Call /\ k.op = "created" /\ k.t = t /\ k.s = calls[c].s /\ k.todo = calls[c].todo
  BY <1>2 DEF Call
<1> HIDE DEF k
<1>4. CallShape(k) /\ Leaving(k) = Leaving(calls[c])
  BY <1>1, <1>2, <1>3 DEF CallShape, Leaving
<1>5. Opens
  BY <1>1, Served
<1>6. calls' = [d \in Calls |-> calls'[d]] /\ \A d \in Calls : CallGoesOn(d)
  BY <1>1, <1>3, <1>4, <1>5, NewCall
<1>7. MapShrinks /\ GivesBack
  BY <1>1, SameMap
<1>8. used' \in SUBSET Tabs /\ open' \subseteq used' /\ RecGoesOn
  BY <1>1, Bounds DEF RecGoesOn
<1> QED BY <1>1, <1>6, <1>7, <1>8, Bounds, CommonStep DEF bounds

\* A call that ends without a change of the Map.
LEMMA AnswerStep ==
  ASSUME Inv, Grows, NEW c \in Calls, calls[c].op # "none", Answered(c), UNCHANGED <<mem, granted>>,
         stored' = Serialized(mem) \/ (stored' = stored /\ calls[c].op # "grouping"),
         UNCHANGED <<open, used, restore, rec, lease, bounds>>
  PROVE  Inv'
<1>1. calls' = [d \in Calls |-> calls'[d]] /\ \A d \in Calls : CallGoesOn(d)
  BY AnsweredGoesOn
<1>2. MapShrinks /\ GivesBack
  BY SameMap
<1>3. RecGoesOn
  BY DEF RecGoesOn
<1> QED BY <1>1, <1>2, <1>3, Bounds, CommonStep DEF bounds

LEMMA AnsweringStep ==
  ASSUME Inv, Grows, NEW c \in Calls, ClaimRefused(c) \/ Grouped(c) \/ LeaveFails(c)
  PROVE  Inv'
<1>1. CASE ClaimRefused(c)
  BY <1>1, AnswerStep DEF ClaimRefused
<1>2. CASE Grouped(c)
  BY <1>2, AnswerStep DEF Grouped
<1>3. CASE LeaveFails(c)
  BY <1>3, AnswerStep DEF LeaveFails
<1> QED BY <1>1, <1>2, <1>3

\* trackTab: the one place, besides the restore, where a session gets a tab.
LEMMA TrackStep ==
  ASSUME Inv, Grows, NEW c \in Calls, calls[c].op \in {"created", "claim"}, TrackOrFail(c),
         UNCHANGED <<stored, open, used, restore, rec, lease, bounds>>
  PROVE  Inv'
<1> DEFINE s == calls[c].s
           t == calls[c].t
           k == [calls[c] EXCEPT !.op = "grouping"]
<1>1. calls[c] \in Call /\ CallShape(calls[c]) /\ TypeOK /\ MemOK(mem)
  BY DEF Inv, TypeInv, TypeOK, MemOK, Shapes
<1>2. s \in Sessions /\ t \in Tabs
  BY <1>1 DEF CallShape
<1>3. CASE Answered(c) /\ UNCHANGED <<mem, granted>>
  BY <1>3, AnswerStep
<1>4. CASE /\ Owners(mem, t) \subseteq {s} /\ mem' = Track(mem, s, t)
           /\ granted' = granted \cup {<<s, t>>} /\ Becomes(c, "grouping")
  <2>1. k \in Call /\ k.op = "grouping" /\ k.s = s /\ k.t = t /\ k.todo = calls[c].todo
    BY <1>1 DEF Call
  <2>2. calls' = [calls EXCEPT ![c] = k]
    BY <1>4 DEF Becomes
  <2>3. Owners(mem, t) \subseteq {s} /\ mem' = Track(mem, s, t) /\ granted' = granted \cup {<<s, t>>}
    BY <1>4
  <2>0. s = calls[c].s
    OBVIOUS
  <2> HIDE DEF s, t, k
  <2>4. /\ MemOK(mem') /\ mem'.at[s] \in Objects
        /\ \A r \in Sessions : r # s => mem'.at[r] = mem.at[r] /\ TabsOf(mem', r) = TabsOf(mem, r)
        /\ TabsOf(mem', s) = TabsOf(mem, s) \cup {t}
    BY <1>1, <1>2, <2>3, TrackFacts
  <2>5. calls' \in [Calls -> Call] /\ calls'[c] = k /\ \A d \in Calls : d # c => calls'[d] = calls[d]
    BY <1>1, <2>1, <2>2 DEF TypeOK
  <2>6. TypeOK'
    <3>1. granted' \subseteq Sessions \X Tabs
      BY <1>1, <1>2, <2>3 DEF TypeOK
    <3> QED BY <1>1, <2>4, <2>5, <3>1 DEF TypeOK, MemOK, bounds, Grows
  <2>7. Shapes'
    <3>1. CallShape(k)
      BY <1>2, <2>1 DEF CallShape
    <3> QED BY <2>5, <3>1 DEF Inv, TypeInv, Shapes
  <2>8. Written'
    BY <2>1, <2>5 DEF Inv, TypeInv, Written, bounds
  <2>9. ASSUME ~early' PROVE OwnInv'
    <3> USE <2>9 DEF Inv, OwnInv, Grows, Opens
    <3>1. restore.pc = "off" /\ (\A r \in Sessions : ToRestore(r)' = {} /\ ToRestore(r) = {})
      <4>1. restore.pc = "off"
        BY Served
      <4> QED BY <4>1 DEF ToRestore
    <3>2. \A r \in Sessions : Held(r)' = TabsOf(mem', r) /\ Held(r) = TabsOf(mem, r)
      BY <3>1 DEF Held
    <3>3. \A r \in Sessions : r # s => t \notin TabsOf(mem, r)
      BY <2>3 DEF Owners
    <3>4. HeldInv'
      <4>1. \A r \in Sessions : Held(r)' \subseteq Granted(r)'
        BY <1>2, <2>3, <2>4, <3>2 DEF HeldInv, Granted
      <4>2. \A r, q \in Sessions : r # q => Held(r)' \cap Held(q)' = {}
        BY <2>4, <3>2, <3>3 DEF HeldInv
      <4> QED BY <4>1, <4>2 DEF HeldInv
    <3>5. StoredInv'
      BY <2>3 DEF StoredInv, Granted
    <3>6. StaleInv'
      <4>1. \A r \in Sessions : TabsOf(mem, r) \subseteq TabsOf(mem', r)
        BY <2>4
      <4>2. Leaving(k) = Leaving(calls[c])
        BY <2>1 DEF Leaving
      <4>3. \A d \in Calls : calls[d].op # "none" => calls[d].s \in Sessions
        BY DEF TypeInv, Shapes, CallShape
      <4>4. rec.pc = "tab" => rec.s \in Sessions
        BY DEF TypeInv, Shapes
      <4>5. \A d \in Calls : calls'[d].op # "none" =>
              calls[d].op # "none" /\ calls'[d].s = calls[d].s /\ Leaving(calls'[d]) = Leaving(calls[d])
        BY <2>0, <2>1, <2>5, <4>2
      <4> QED BY <4>1, <4>3, <4>4, <4>5 DEF StaleInv
    <3>7. LeaseInv'
      <4>1. lease[s] \notin {"expired", "gone"}
        BY <1>2, <2>0 DEF LeaseInv
      <4>2. \A d \in Calls : calls'[d].s = calls[d].s
        BY <2>0, <2>1, <2>5
      <4> QED BY <2>4, <3>2, <4>1, <4>2 DEF LeaseInv
    <3> QED BY <3>1, <3>4, <3>5, <3>6, <3>7 DEF Alone, RestoreInv
  <2> QED BY <2>6, <2>7, <2>8, <2>9 DEF Inv, TypeInv
<1> QED BY <1>3, <1>4 DEF TrackOrFail

LEMMA DetachedStep ==
  ASSUME Inv, Grows, NEW c \in Calls, Detached(c)
  PROVE  Inv'
<1>1. /\ calls[c].op \in {"release", "close", "remove"} /\ \E op \in {"leave", "remove"} : Becomes(c, op)
      /\ UNCHANGED <<mem, stored, open, used, restore, rec, lease, bounds, granted>>
  BY DEF Detached
<1>2. calls' = [d \in Calls |-> calls'[d]] /\ \A d \in Calls : CallGoesOn(d)
  BY <1>1, LeavingGoesOn
<1>3. MapShrinks /\ GivesBack /\ RecGoesOn
  BY <1>1, SameMap DEF RecGoesOn
<1> QED BY <1>1, <1>2, <1>3, Bounds, CommonStep DEF bounds

\* A tab is closed; who had it loses it, and its storage.
LEMMA RemovedMap ==
  ASSUME Inv, Grows, NEW t \in Tabs, Removed(t)
  PROVE  MapShrinks /\ (OwnInv => GivesBack) /\ open' \subseteq used /\ used \in SUBSET Tabs
<1>1. open' \subseteq used /\ used \in SUBSET Tabs
  BY Bounds DEF Removed
<1>2. CASE UNCHANGED <<mem, stored, granted>>
  BY <1>1, <1>2, SameMap
<1>3. ASSUME NEW s \in Owners(mem, t), UntrackAndPersist(s, {t})
      PROVE  MapShrinks /\ (OwnInv => GivesBack)
  <2>1. s \in Sessions /\ t \in TabsOf(mem, s)
    BY DEF Owners
  <2>2. OwnInv => {t} \cap ToRestore(s) = {}
    BY <2>1, OwnedIsRestored
  <2>3. {t} \cap stored[s].tabs \subseteq TabsOf(mem, s)
    BY <2>1
  <2> QED BY <1>3, <2>1, <2>2, <2>3, UntrackMap
<1> QED BY <1>1, <1>2, <1>3 DEF Removed

LEMMA CloseTabStep ==
  ASSUME Inv, Grows, NEW c \in Calls, CloseTab(c)
  PROVE  Inv'
<1>1. calls[c].op = "remove" /\ Removed(calls[c].t) /\ Becomes(c, "leave")
      /\ UNCHANGED <<used, restore, rec, lease, bounds>>
  BY DEF CloseTab
<1>2. calls[c].t \in Tabs
  BY <1>1 DEF Inv, TypeInv, Shapes, CallShape
<1>3. MapShrinks /\ (OwnInv => GivesBack) /\ open' \subseteq used /\ used \in SUBSET Tabs
  BY <1>1, <1>2, RemovedMap
<1>4. calls' = [d \in Calls |-> calls'[d]] /\ \A d \in Calls : CallGoesOn(d)
  BY <1>1, LeavingGoesOn
<1>5. RecGoesOn
  BY <1>1 DEF RecGoesOn
<1> QED BY <1>1, <1>3, <1>4, <1>5, Bounds, CommonStep DEF bounds

LEMMA LeaveStep ==
  ASSUME Inv, Grows, NEW c \in Calls, Leave(c)
  PROVE  Inv'
<1>1. /\ calls[c].op = "leave" /\ UntrackAndPersist(calls[c].s, {calls[c].t}) /\ Answered(c)
      /\ UNCHANGED <<open, used, restore, rec, lease, bounds>>
  BY DEF Leave
<1>2. calls[c].s \in Sessions
  BY <1>1 DEF Inv, TypeInv, Shapes, CallShape
<1>3. MapShrinks
  BY <1>1, <1>2, UntrackMap
<1>4. ASSUME ~early', OwnInv PROVE GivesBack
  <2>1. Leaving(calls[c]) = {calls[c].t}
    BY <1>1 DEF Leaving
  <2>2. {calls[c].t} \cap stored[calls[c].s].tabs \subseteq TabsOf(mem, calls[c].s)
    BY <1>1, <1>4, <2>1 DEF OwnInv, StaleInv
  <2>3. {calls[c].t} \cap ToRestore(calls[c].s) = {}
    BY <1>1, <1>2, <1>4, Served DEF Opens
  <2> QED BY <1>1, <1>2, <2>2, <2>3, UntrackMap
<1>5. calls' = [d \in Calls |-> calls'[d]] /\ \A d \in Calls : CallGoesOn(d)
  BY <1>1, AnsweredGoesOn
<1>6. RecGoesOn
  BY <1>1 DEF RecGoesOn
<1> QED BY <1>1, <1>3, <1>4, <1>5, <1>6, Bounds, CommonStep DEF bounds

LEMMA BeginFinalizeStep ==
  ASSUME Inv, Grows, Opens, NEW c \in Calls, NEW s \in Sessions, BeginFinalize(c, s)
  PROVE  Inv'
<1> DEFINE k == [op |-> "finalize", s |-> s, t |-> None, obj |-> mem'.at[s], todo |-> TabsOf(mem', s)]
<1>1. /\ mem' = updateTurn(mem, s) /\ calls' = [calls EXCEPT ![c] = k] /\ calls[c] = NoCall
      /\ lease[s] = "live" /\ UNCHANGED restarts
      /\ begun < MaxCalls /\ begun' = begun + 1
      /\ UNCHANGED <<stored, open, used, restore, rec, lease, granted>>
  BY DEF BeginFinalize, Begins, MayCall
<1>2. TypeOK /\ MemOK(mem)
  BY DEF Inv, TypeInv, TypeOK, MemOK
<1>3. MemOK(mem') /\ mem'.at[s] \in Objects
  BY <1>1, <1>2, UpdateTurnFacts
<1>5. MapShrinks /\ (~early' => GivesBack)
  BY <1>1, TurnMap DEF Opens
<1>6. TabsOf(mem', s) \subseteq Tabs
  BY <1>3, ObjectsFacts DEF TabsOf, MemOK, SessionValue
<1>7. k \in Call /\ k.op = "finalize" /\ k.s = s /\ k.obj \in Objects /\ k.todo = TabsOf(mem', s)
  BY <1>3, <1>6 DEF Call
<1>8. calls[c].op = "none"
  BY <1>1 DEF NoCall
<1> HIDE DEF k
<1>9. CallShape(k) /\ Leaving(k) = TabsOf(mem', k.s)
  BY <1>7 DEF CallShape, Leaving
<1>10. calls' = [d \in Calls |-> calls'[d]] /\ \A d \in Calls : CallGoesOn(d)
  BY <1>1, <1>7, <1>8, <1>9, NewCall
<1>11. begun' \in 0 .. MaxCalls
  BY <1>1, Bounds, OwnershipAssumption
<1>12. RecGoesOn
  BY <1>1 DEF RecGoesOn
<1> QED BY <1>1, <1>5, <1>10, <1>11, <1>12, Bounds, CommonStep

LEMMA FinalizeUntrackStep ==
  ASSUME Inv, Grows, NEW c \in Calls, NEW ready, FinalizeUntrack(c, ready)
  PROVE  Inv'
<1> DEFINE k == [calls[c] EXCEPT !.op = "finalized", !.todo = {}]
<1>1. /\ calls[c].op = "finalize" /\ ready \subseteq calls[c].todo
      /\ UntrackAndPersist(calls[c].s, ready) /\ calls' = [calls EXCEPT ![c] = k]
      /\ UNCHANGED <<open, used, restore, rec, lease, bounds>>
  BY DEF FinalizeUntrack
<1>2. calls[c] \in Call /\ CallShape(calls[c]) /\ calls[c].s \in Sessions
  BY <1>1 DEF Inv, TypeInv, TypeOK, Shapes, CallShape
<1>3. k \in Call /\ k.op = "finalized" /\ k.s = calls[c].s /\ k.obj = calls[c].obj /\ k.todo = {}
  BY <1>2 DEF Call
<1> HIDE DEF k
<1>4. CallShape(k) /\ Leaving(k) = {}
  BY <1>1, <1>2, <1>3 DEF CallShape, Leaving
<1>5. Opens
  BY <1>1, Served
<1>6. calls' = [d \in Calls |-> calls'[d]] /\ \A d \in Calls : CallGoesOn(d)
  BY <1>1, <1>3, <1>4, <1>5, NewCall
<1>7. MapShrinks
  BY <1>1, <1>2, UntrackMap
<1>8. ASSUME ~early', OwnInv PROVE GivesBack
  <2>1. Leaving(calls[c]) = calls[c].todo
    BY <1>1 DEF Leaving
  <2>2. ready \cap stored[calls[c].s].tabs \subseteq TabsOf(mem, calls[c].s)
    BY <1>1, <1>8, <2>1 DEF OwnInv, StaleInv
  <2>3. ready \cap ToRestore(calls[c].s) = {}
    BY <1>2, <1>5, <1>8, Served DEF Opens
  <2> QED BY <1>1, <1>2, <2>2, <2>3, UntrackMap
<1>9. RecGoesOn
  BY <1>1 DEF RecGoesOn
<1> QED BY <1>1, <1>6, <1>7, <1>8, <1>9, Bounds, CommonStep DEF bounds

LEMMA FinalizeEndStep ==
  ASSUME Inv, Grows, NEW c \in Calls, FinalizeEnd(c)
  PROVE  Inv'
<1>1. /\ calls[c].op \in {"finalize", "finalized"} /\ mem' \in {mem, Drop(mem, calls[c].s)}
      /\ stored' = Serialized(mem') /\ Answered(c)
      /\ UNCHANGED <<open, used, restore, rec, lease, bounds, granted>>
  BY DEF FinalizeEnd
<1>2. calls[c].s \in Sessions
  BY <1>1 DEF Inv, TypeInv, Shapes, CallShape
<1>3. MapShrinks /\ GivesBack
  BY <1>1, <1>2, SameMap, DropMap
<1>4. calls' = [d \in Calls |-> calls'[d]] /\ \A d \in Calls : CallGoesOn(d)
  BY <1>1, AnsweredGoesOn
<1>5. RecGoesOn
  BY <1>1 DEF RecGoesOn
<1> QED BY <1>1, <1>3, <1>4, <1>5, Bounds, CommonStep DEF bounds

-----------------------------------------------------------------------------
(* The browser, and time. *)

LEMMA UserOpensStep ==
  ASSUME Inv, Grows, NEW t \in Tabs, UserOpens(t)
  PROVE  Inv'
<1>1. /\ open' = open \cup {t} /\ used' = used \cup {t}
      /\ UNCHANGED <<mem, stored, calls, restore, rec, lease, bounds, granted>>
  BY DEF UserOpens
<1>2. MapShrinks /\ GivesBack
  BY <1>1, SameMap
<1>3. calls' = [d \in Calls |-> calls'[d]] /\ \A d \in Calls : CallGoesOn(d)
  BY <1>1, SameCalls
<1>4. used' \in SUBSET Tabs /\ open' \subseteq used' /\ RecGoesOn
  BY <1>1, Bounds DEF RecGoesOn
<1> QED BY <1>1, <1>2, <1>3, <1>4, Bounds, CommonStep DEF bounds

LEMMA TabRemovedStep ==
  ASSUME Inv, Grows, NEW t \in Tabs, TabRemoved(t)
  PROVE  Inv'
<1>1. Removed(t) /\ UNCHANGED <<used, calls, restore, rec, lease, bounds>>
  BY DEF TabRemoved
<1>2. MapShrinks /\ (OwnInv => GivesBack) /\ open' \subseteq used /\ used \in SUBSET Tabs
  BY <1>1, RemovedMap
<1>3. calls' = [d \in Calls |-> calls'[d]] /\ \A d \in Calls : CallGoesOn(d)
  BY <1>1, SameCalls
<1>4. RecGoesOn
  BY <1>1 DEF RecGoesOn
<1> QED BY <1>1, <1>2, <1>3, <1>4, Bounds, CommonStep DEF bounds

LEMMA QuietStep ==
  ASSUME Inv, Grows, NEW s \in Sessions, Quiet(s)
  PROVE  Inv'
<1> DEFINE v == [mem.obj[mem.at[s]] EXCEPT !.recent = FALSE]
           w == [stored[s] EXCEPT !.recent = FALSE]
<1>1. /\ restore = NoRestore /\ mem' = IF mem.at[s] = 0 THEN mem ELSE [mem EXCEPT !.obj[mem.at[s]] = v]
      /\ stored' = [stored EXCEPT ![s] = w]
      /\ UNCHANGED <<open, used, calls, restore, rec, lease, bounds, granted>>
  BY DEF Quiet
<1>2. MemOK(mem) /\ stored \in [Sessions -> SessionValue]
  BY DEF Inv, TypeInv, TypeOK, MemOK
<1>3. w \in SessionValue /\ w.tabs = stored[s].tabs
  BY <1>2 DEF SessionValue
<1>4. MemOK(mem') /\ \A r \in Sessions : TabsOf(mem', r) = TabsOf(mem, r)
  <2>1. CASE mem.at[s] = 0
    BY <1>1, <1>2, <2>1
  <2>2. CASE mem.at[s] # 0
    <3>1. mem.at[s] \in Objects
      BY <1>2, <2>2 DEF MemOK
    <3>2. v \in SessionValue /\ v.tabs = TabsOf(mem, s)
      BY <1>2, <2>2, <3>1 DEF MemOK, SessionValue, TabsOf
    <3>3. mem' = [mem EXCEPT !.obj[mem.at[s]] = v]
      BY <1>1, <2>2
    <3> HIDE DEF v
    <3> QED BY <1>2, <3>1, <3>2, <3>3, ObjectFacts
  <2> QED BY <2>1, <2>2
<1> HIDE DEF v, w
<1>5. stored' \in [Sessions -> SessionValue] /\ \A r \in Sessions : stored'[r].tabs = stored[r].tabs
  BY <1>1, <1>2, <1>3
<1>6. MapShrinks
  BY <1>1, <1>4, <1>5 DEF MapShrinks
<1>7. GivesBack
  BY <1>1 DEF GivesBack, NoRestore
<1>8. calls' = [d \in Calls |-> calls'[d]] /\ \A d \in Calls : CallGoesOn(d)
  BY <1>1, SameCalls
<1>9. RecGoesOn
  BY <1>1 DEF RecGoesOn
<1> QED BY <1>1, <1>6, <1>7, <1>8, <1>9, Bounds, CommonStep DEF bounds

-----------------------------------------------------------------------------
(* The release of abandoned sessions. *)

\* A step of the release that changes neither the Map nor the storage.
LEMMA RecStep ==
  ASSUME Inv, Grows, RecGoesOn, UNCHANGED <<mem, stored, open, used, calls, restore, lease, bounds, granted>>
  PROVE  Inv'
<1>1. MapShrinks /\ GivesBack
  BY SameMap
<1>2. calls' = [d \in Calls |-> calls'[d]] /\ \A d \in Calls : CallGoesOn(d)
  BY SameCalls
<1> QED BY <1>1, <1>2, Bounds, CommonStep DEF bounds

LEMMA AskStep ==
  ASSUME Inv, Grows, AskReconcile \/ (BeginReconcile /\ Opens)
  PROVE  Inv'
<1>1. CASE AskReconcile
  <2>1. rec' \in Reconciling /\ rec'.pc = "asked" /\ rec'.settled = {}
    BY <1>1 DEF AskReconcile, NoReconcile, Reconciling
  <2>2. RecGoesOn
    BY <2>1 DEF RecGoesOn
  <2> QED BY <1>1, <2>2, RecStep DEF AskReconcile
<1>2. CASE BeginReconcile /\ Opens
  <2>0. rec \in Reconciling
    BY DEF Inv, TypeInv, TypeOK
  <2>1. rec' \in Reconciling /\ \/ rec'.pc = "turn" /\ rec'.settled = rec.settled
                                \/ rec'.pc = "off" /\ rec'.settled = {}
    BY <1>2, <2>0, OwnershipAssumption DEF BeginReconcile, NoReconcile, Reconciling
  <2>2. RecGoesOn
    BY <1>2, <2>1 DEF RecGoesOn, Opens
  <2> QED BY <1>2, <2>2, RecStep DEF BeginReconcile
<1> QED BY <1>1, <1>2

LEMMA ReconcileSessionStep ==
  ASSUME Inv, Grows, NEW s \in Sessions, ReconcileSession(s)
  PROVE  Inv'
<1>1. /\ rec.pc = "turn"
      /\ \/ mem.at[s] = 0 /\ rec' = [rec EXCEPT !.asked = @ \ {s}, !.settled = @ \cup {s}]
         \/ rec' = [rec EXCEPT !.asked = @ \ {s}]
         \/ rec' = [rec EXCEPT !.pc = "tab", !.asked = @ \ {s}, !.s = s, !.tabs = TabsOf(mem, s)]
      /\ UNCHANGED <<mem, stored, open, used, calls, restore, lease, bounds, granted>>
  BY DEF ReconcileSession
<1>2. rec \in Reconciling /\ TabsOf(mem, s) \subseteq Tabs
  BY DEF Inv, TypeInv, TypeOK, TabsOf, SessionValue
<1>3. Opens
  BY <1>1, Served
<1>4. mem.at[s] = 0 => TabsOf(mem', s) = {}
  BY <1>1 DEF TabsOf
<1>5. rec' \in Reconciling
  <2>1. CASE rec' = [rec EXCEPT !.asked = @ \ {s}, !.settled = @ \cup {s}]
    BY <1>2, <2>1 DEF Reconciling
  <2>2. CASE rec' = [rec EXCEPT !.asked = @ \ {s}]
    BY <1>2, <2>2 DEF Reconciling
  <2>3. CASE rec' = [rec EXCEPT !.pc = "tab", !.asked = @ \ {s}, !.s = s, !.tabs = TabsOf(mem, s)]
    BY <1>2, <2>3 DEF Reconciling
  <2> QED BY <1>1, <2>1, <2>2, <2>3
<1>6. RecGoesOn
  <2>1. CASE mem.at[s] = 0 /\ rec' = [rec EXCEPT !.asked = @ \ {s}, !.settled = @ \cup {s}]
    <3>1. rec'.settled = rec.settled \cup {s} /\ rec'.pc = "turn"
      BY <1>1, <1>2, <2>1 DEF Reconciling
    <3> QED BY <1>3, <1>4, <1>5, <2>1, <3>1 DEF RecGoesOn, Opens
  <2>2. CASE rec' = [rec EXCEPT !.asked = @ \ {s}]
    <3>1. rec'.settled = rec.settled /\ rec'.pc = "turn"
      BY <1>1, <1>2, <2>2 DEF Reconciling
    <3> QED BY <1>3, <1>5, <3>1 DEF RecGoesOn, Opens
  <2>3. CASE rec' = [rec EXCEPT !.pc = "tab", !.asked = @ \ {s}, !.s = s, !.tabs = TabsOf(mem, s)]
    <3>1. rec'.settled = rec.settled /\ rec'.pc = "tab" /\ rec'.s = s /\ rec'.tabs = TabsOf(mem, s)
      BY <1>1, <1>2, <2>3 DEF Reconciling
    <3>2. TabsOf(mem', s) = TabsOf(mem, s)
      BY <1>1
    <3> QED BY <1>3, <1>5, <3>1, <3>2 DEF RecGoesOn, Opens
  <2> QED BY <1>1, <2>1, <2>2, <2>3
<1> QED BY <1>1, <1>6, RecStep

\* A tab leaves the release, untracked or blocked.
LEMMA ReconcileTabStep ==
  ASSUME Inv, Grows, NEW t \in Tabs, ReconcileTab(t) \/ ReconcileBlocked(t)
  PROVE  Inv'
<1>1. /\ rec.pc = "tab" /\ t \in rec.tabs /\ rec' = [rec EXCEPT !.tabs = @ \ {t}]
      /\ UNCHANGED <<open, used, calls, restore, lease, bounds>>
  BY DEF ReconcileTab, ReconcileBlocked
<1>2. rec \in Reconciling /\ rec.s \in Sessions
  BY <1>1 DEF Inv, TypeInv, TypeOK, Shapes
<1>3. /\ rec' \in Reconciling /\ rec'.pc = "tab" /\ rec'.s = rec.s
      /\ rec'.tabs \subseteq rec.tabs /\ rec'.settled = rec.settled
  BY <1>1, <1>2 DEF Reconciling
<1>4. Opens
  BY <1>1, Served
<1>5. RecGoesOn
  BY <1>1, <1>2, <1>3, <1>4 DEF RecGoesOn, Opens
<1>6. CASE ReconcileBlocked(t)
  BY <1>5, <1>6, RecStep DEF ReconcileBlocked
<1>7. CASE ReconcileTab(t)
  <2>1. UntrackAndPersist(rec.s, {t})
    BY <1>7 DEF ReconcileTab
  <2>2. MapShrinks
    BY <1>2, <2>1, UntrackMap
  <2>3. ASSUME ~early', OwnInv PROVE GivesBack
    <3>1. {t} \cap stored[rec.s].tabs \subseteq TabsOf(mem, rec.s)
      BY <1>1, <2>3 DEF OwnInv, StaleInv
    <3>2. {t} \cap ToRestore(rec.s) = {}
      BY <1>2, <1>4, <2>3, Served DEF Opens
    <3> QED BY <1>2, <2>1, <3>1, <3>2, UntrackMap
  <2>4. calls' = [d \in Calls |-> calls'[d]] /\ \A d \in Calls : CallGoesOn(d)
    BY <1>1, SameCalls
  <2> QED BY <1>1, <1>5, <2>2, <2>3, <2>4, Bounds, CommonStep DEF bounds
<1> QED BY <1>6, <1>7

LEMMA ReconcileSettleStep ==
  ASSUME Inv, Grows, ReconcileSettle
  PROVE  Inv'
<1>1. /\ rec.pc = "tab"
      /\ mem' = IF TabsOf(mem, rec.s) = {} THEN Drop(mem, rec.s) ELSE mem
      /\ rec' = [rec EXCEPT !.pc = "turn", !.s = None,
                            !.settled = IF TabsOf(mem, rec.s) = {} THEN @ \cup {rec.s} ELSE @]
      /\ UNCHANGED <<stored, open, used, calls, restore, lease, bounds, granted>>
  BY DEF ReconcileSettle
<1>2. rec \in Reconciling /\ rec.s \in Sessions /\ MemOK(mem)
  BY <1>1 DEF Inv, TypeInv, TypeOK, Shapes, MemOK
<1>3. MapShrinks /\ GivesBack
  BY <1>1, <1>2, SameMap, DropMap
<1>4. TabsOf(mem, rec.s) = {} => TabsOf(mem', rec.s) = {}
  BY <1>2, <1>3 DEF MapShrinks
<1>5. /\ rec' \in Reconciling /\ rec'.pc = "turn"
      /\ rec'.settled = IF TabsOf(mem, rec.s) = {} THEN rec.settled \cup {rec.s} ELSE rec.settled
  BY <1>1, <1>2 DEF Reconciling
<1>6. Opens
  BY <1>1, Served
<1>7. RecGoesOn
  BY <1>4, <1>5, <1>6 DEF RecGoesOn, Opens
<1>8. calls' = [d \in Calls |-> calls'[d]] /\ \A d \in Calls : CallGoesOn(d)
  BY <1>1, SameCalls
<1> QED BY <1>1, <1>3, <1>7, <1>8, Bounds, CommonStep DEF bounds

LEMMA ReconcileEndStep ==
  ASSUME Inv, Grows, NEW heard \in BOOLEAN, ReconcileEnd(heard)
  PROVE  Inv'
<1>1. /\ rec.pc = "turn" /\ stored' = Serialized(mem) /\ rec' = NoReconcile
      /\ lease' = [s \in Sessions |-> IF heard /\ s \in rec.settled /\ lease[s] = "expired"
                                      THEN "gone" ELSE lease[s]]
      /\ UNCHANGED <<mem, open, used, calls, restore, bounds, granted>>
  BY DEF ReconcileEnd
<1>2. TypeInv /\ MemOK(mem)
  BY DEF Inv, TypeInv, TypeOK, MemOK
<1>3. stored' \in [Sessions -> SessionValue] /\ \A s \in Sessions : stored'[s].tabs = TabsOf(mem, s)
  BY <1>1, <1>2, SerializedFacts
<1>4. NoReconcile \in Reconciling /\ rec'.pc = "off" /\ rec'.settled = {}
  BY <1>1, OwnershipAssumption DEF NoReconcile, Reconciling
<1>5. \A s \in Sessions : TabsOf(mem', s) = TabsOf(mem, s)
  BY <1>1
<1>6. TypeOK'
  <2>1. lease' \in [Sessions -> {"live", "dead", "expired", "gone"}]
    BY <1>1, <1>2 DEF TypeInv, TypeOK
  <2> QED BY <1>1, <1>2, <1>3, <1>4, <2>1 DEF TypeInv, TypeOK, bounds, Grows
<1>7. Shapes'
  BY <1>1, <1>2, <1>4 DEF TypeInv, Shapes
<1>8. Written'
  BY <1>1, <1>2, <1>3, <1>5 DEF TypeInv, Written, bounds
<1>9. ASSUME ~early' PROVE OwnInv'
  <2>1. OwnInv /\ restore.pc = "off" /\ (\A s \in Sessions : ToRestore(s) = {} /\ ToRestore(s)' = {})
    <3>1. OwnInv /\ restore.pc = "off"
      BY <1>1, <1>9, Served DEF Inv, Grows, Opens
    <3> QED BY <1>1, <3>1 DEF ToRestore
  <2>2. \A s \in Sessions : Held(s) = TabsOf(mem, s) /\ Held(s)' = TabsOf(mem, s) /\ Granted(s)' = Granted(s)
    BY <1>1, <1>5, <2>1 DEF Held, Granted
  <2>3. HeldInv'
    BY <2>1, <2>2 DEF OwnInv, HeldInv
  <2>4. StoredInv'
    BY <1>3, <2>1, <2>2 DEF OwnInv, HeldInv, StoredInv
  <2>5. StaleInv'
    <3>1. \A c \in Calls : calls[c].op # "none" => calls[c].s \in Sessions
      BY <1>2 DEF TypeInv, Shapes, CallShape
    <3> QED BY <1>1, <1>3, <1>4, <1>5, <3>1 DEF StaleInv
  <2>6. LeaseInv'
    <3>1. ASSUME NEW s \in Sessions, lease'[s] = "gone" PROVE TabsOf(mem, s) = {}
      BY <1>1, <2>1, <2>2, <3>1 DEF OwnInv, LeaseInv
    <3>2. \A s \in Sessions : lease'[s] \in {"expired", "gone"} => \A c \in Calls : calls'[c].s # s
      BY <1>1, <2>1 DEF OwnInv, LeaseInv
    <3> QED BY <1>3, <1>4, <2>2, <3>1, <3>2 DEF LeaseInv
  <2> QED BY <1>1, <1>4, <2>1, <2>3, <2>4, <2>5, <2>6 DEF OwnInv, Alone, RestoreInv
<1> QED BY <1>6, <1>7, <1>8, <1>9 DEF Inv, TypeInv, Grows

\* A harness dies, its lease expires, another harness takes the session up.
LEMMA LeaseStep ==
  ASSUME Inv, Grows, NEW s \in Sessions, HarnessDies(s) \/ LeaseExpires(s) \/ Resume(s)
  PROVE  Inv'
<1>1. /\ \/ lease' = [lease EXCEPT ![s] = "dead"]
         \/ /\ lease' = [lease EXCEPT ![s] = "expired"] /\ rec = NoReconcile
            /\ \A c \in Calls : calls[c].s # s
         \/ lease' = [lease EXCEPT ![s] = "live"]
      /\ UNCHANGED <<mem, stored, open, used, calls, restore, rec, bounds, granted>>
  BY DEF HarnessDies, LeaseExpires, Resume
<1>2. TypeInv
  BY DEF Inv
<1>3. lease \in [Sessions -> {"live", "dead", "expired", "gone"}]
  BY <1>2 DEF TypeInv, TypeOK
<1>4. lease' \in [Sessions -> {"live", "dead", "expired", "gone"}]
  BY <1>1, <1>3
<1>5. TypeInv'
  BY <1>1, <1>2, <1>4 DEF TypeInv, TypeOK, Shapes, Written, bounds, Grows
<1>6. ASSUME OwnInv PROVE OwnInv'
  <2>1. Alone' /\ RestoreInv' /\ StaleInv' /\ StoredInv'
    BY <1>1, <1>6 DEF OwnInv, Alone, RestoreInv, StaleInv, StoredInv, Granted
  <2>2. \A r \in Sessions : Held(r)' = Held(r) /\ Granted(r)' = Granted(r)
    BY <1>1 DEF Held, ToRestore, Granted
  <2>3. HeldInv'
    BY <1>6, <2>2 DEF OwnInv, HeldInv
  <2>4. \A r \in Sessions : \/ lease'[r] = lease[r]
                            \/ r = s /\ lease'[r] \in {"dead", "live"}
                            \/ /\ r = s /\ lease'[r] = "expired" /\ rec = NoReconcile
                               /\ \A c \in Calls : calls[c].s # s
    BY <1>1, <1>3
  <2>5. LeaseInv'
    <3>1. NoReconcile.settled = {}
      BY DEF NoReconcile
    <3>2. ASSUME NEW r \in Sessions, lease'[r] \in {"expired", "gone"}, NEW c \in Calls PROVE calls'[c].s # r
      BY <1>1, <1>6, <2>4, <3>2 DEF OwnInv, LeaseInv
    <3>3. ASSUME NEW r \in Sessions, lease'[r] = "gone" PROVE Held(r)' = {} /\ stored'[r].tabs = {}
      BY <1>1, <1>6, <2>2, <2>4, <3>3 DEF OwnInv, LeaseInv
    <3>4. ASSUME NEW r \in Sessions, lease'[r] = "expired", r \in rec'.settled PROVE TabsOf(mem', r) = {}
      <4>1. r \in rec.settled /\ lease[r] = "expired"
        BY <1>1, <2>4, <3>1, <3>4
      <4> QED BY <1>1, <1>6, <4>1 DEF OwnInv, LeaseInv
    <3>5. rec'.pc \in {"off", "asked"} => rec'.settled = {}
      BY <1>1, <1>6 DEF OwnInv, LeaseInv
    <3> QED BY <3>2, <3>3, <3>4, <3>5 DEF LeaseInv
  <2> QED BY <2>1, <2>3, <2>5 DEF OwnInv
<1> QED BY <1>5, <1>6 DEF Inv, Grows

-----------------------------------------------------------------------------
(* A restart of the background script, and the restore. *)

LEMMA RestartStep ==
  ASSUME Inv, Grows, Restart
  PROVE  Inv'
<1>1. /\ restarts < MaxRestarts /\ restarts' = restarts + 1 /\ mem' = EmptyMap
      /\ calls' = [c \in Calls |-> NoCall]
      /\ restore' = [NoRestore EXCEPT !.pc = "read", !.snap = stored] /\ rec' = NoReconcile
      /\ UNCHANGED <<stored, open, used, lease, begun, granted>>
  BY DEF Restart
<1>2. TypeInv
  BY DEF Inv
<1>3. restarts' \in 0 .. MaxRestarts /\ restarts' # 0
  <2>1. restarts \in 0 .. MaxRestarts
    BY <1>2 DEF TypeInv, TypeOK
  <2> QED BY <1>1, <2>1, OwnershipAssumption
<1>4. MemOK(mem') /\ \A s \in Sessions : mem'.at[s] = 0 /\ TabsOf(mem', s) = {}
  BY <1>1 DEF EmptyMap, Absent, SessionValue, MemOK, TabsOf
<1>5. NoCall \in Call /\ CallShape(NoCall) /\ NoCall.op = "none" /\ NoCall.s \notin Sessions
  BY OwnershipAssumption DEF NoCall, Call, CallShape
<1>6. NoReconcile \in Reconciling /\ NoReconcile.pc = "off" /\ NoReconcile.settled = {}
  BY OwnershipAssumption DEF NoReconcile, Reconciling
<1>7. stored \in [Sessions -> SessionValue]
  BY <1>2 DEF TypeInv, TypeOK
<1>8. restore' \in Restoring /\ restore'.pc = "read" /\ restore'.snap = stored
  BY <1>1, <1>7, OwnershipAssumption DEF NoRestore, Restoring
<1> HIDE DEF NoCall, NoReconcile
<1>9. calls' \in [Calls -> Call] /\ \A c \in Calls : calls'[c] = NoCall
  BY <1>1, <1>5
<1>10. TypeOK'
  BY <1>1, <1>2, <1>3, <1>4, <1>6, <1>8, <1>9 DEF TypeInv, TypeOK, MemOK, Grows
<1>11. Shapes'
  BY <1>1, <1>5, <1>6, <1>8, <1>9 DEF Shapes
<1>12. Written'
  BY <1>3 DEF Written
<1>13. ASSUME OwnInv PROVE OwnInv'
  <2>1. \A s \in Sessions : Held(s)' = stored[s].tabs /\ Granted(s)' = Granted(s)
    <3>1. \A s \in Sessions : ToRestore(s)' = stored[s].tabs
      BY <1>7, <1>8 DEF ToRestore, SessionValue
    <3> QED BY <1>1, <1>4, <3>1 DEF Held, Granted
  <2>2. HeldInv' /\ StoredInv'
    BY <1>1, <1>13, <2>1 DEF OwnInv, StoredInv, HeldInv
  <2>3. Alone' /\ RestoreInv' /\ StaleInv'
    BY <1>1, <1>4, <1>5, <1>6, <1>8, <1>9 DEF Alone, RestoreInv, StaleInv
  <2>4. LeaseInv'
    BY <1>1, <1>4, <1>5, <1>6, <1>9, <1>13, <2>1 DEF OwnInv, LeaseInv
  <2> QED BY <2>2, <2>3, <2>4 DEF OwnInv
<1> QED BY <1>10, <1>11, <1>12, <1>13 DEF Inv, TypeInv, Grows

\* A step of the restore: no session comes to hold more than it held.
LEMMA RestoreStep ==
  ASSUME Inv, Grows, restore.pc # "off", MemOK(mem'), restore' \in Restoring,
         restore'.pc = "off" => restore' = NoRestore,
         restore'.pc = "tab" => restore'.s \in Sessions /\ restore'.obj \in Objects,
         UNCHANGED <<stored, open, used, calls, rec, lease, bounds, granted>>,
         OwnInv => RestoreInv' /\ \A s \in Sessions : Held(s)' \subseteq Held(s)
  PROVE  Inv'
<1>1. TypeInv
  BY DEF Inv
<1>2. TypeOK'
  BY <1>1 DEF TypeInv, TypeOK, MemOK, bounds, Grows
<1>3. Shapes' /\ Written'
  BY <1>1 DEF TypeInv, Shapes, Written, bounds
<1>4. ASSUME OwnInv PROVE OwnInv'
  <2>1. /\ \A c \in Calls : calls'[c] = NoCall
        /\ rec'.pc \in {"off", "asked"} /\ rec'.settled = {}
    BY <1>4 DEF OwnInv, Alone, LeaseInv
  <2>2. \A s \in Sessions : Granted(s)' = Granted(s) /\ Held(s)' \subseteq Held(s)
    BY <1>4 DEF Granted
  <2>3. HeldInv'
    BY <1>4, <2>2 DEF OwnInv, HeldInv
  <2>4. StoredInv'
    BY <1>4, <2>2 DEF OwnInv, StoredInv
  <2>5. StaleInv'
    BY <2>1 DEF StaleInv, NoCall
  <2>6. LeaseInv'
    BY <1>4, <2>1, <2>2 DEF OwnInv, LeaseInv
  <2> QED BY <1>4, <2>1, <2>3, <2>4, <2>5, <2>6 DEF OwnInv, Alone
<1> QED BY <1>2, <1>3, <1>4 DEF Inv, TypeInv, Grows

LEMMA RestoreReadStep ==
  ASSUME Inv, Grows, RestoreRead \/ RestoreEnd
  PROVE  Inv'
<1>1. MemOK(mem) /\ restore \in Restoring
  BY DEF Inv, TypeInv, TypeOK, MemOK
<1>2. CASE RestoreRead
  <2>1. /\ restore.pc = "read" /\ UNCHANGED mem
        /\ restore' = [restore EXCEPT !.pc = "turn", !.todo = {s \in Sessions : restore.snap[s].tabs # {}}]
    BY <1>2 DEF RestoreRead
  <2>2. /\ restore' \in Restoring /\ restore'.pc = "turn" /\ restore'.snap = restore.snap
        /\ restore'.todo = {s \in Sessions : restore.snap[s].tabs # {}}
    BY <1>1, <2>1 DEF Restoring
  <2>3. ASSUME OwnInv PROVE RestoreInv' /\ \A s \in Sessions : Held(s)' \subseteq Held(s)
    <3>1. RestoreInv'
      BY <2>1, <2>2, <2>3 DEF OwnInv, RestoreInv
    <3>2. \A s \in Sessions : ToRestore(s)' = ToRestore(s) /\ TabsOf(mem', s) = TabsOf(mem, s)
      BY <2>1, <2>2 DEF ToRestore
    <3> QED BY <3>1, <3>2 DEF Held
  <2> QED BY <1>1, <1>2, <2>1, <2>2, <2>3, RestoreStep DEF RestoreRead
<1>3. CASE RestoreEnd
  <2>1. restore.pc = "turn" /\ UNCHANGED mem /\ restore' = NoRestore
    BY <1>3 DEF RestoreEnd
  <2>2. restore' \in Restoring /\ restore'.pc = "off"
    BY <2>1, OwnershipAssumption DEF NoRestore, Restoring, Absent, SessionValue
  <2>3. RestoreInv' /\ \A s \in Sessions : Held(s)' \subseteq Held(s)
    <3>1. \A s \in Sessions : ToRestore(s)' = {} /\ TabsOf(mem', s) = TabsOf(mem, s)
      BY <2>1, <2>2 DEF ToRestore
    <3> QED BY <2>2, <3>1 DEF Held, RestoreInv
  <2> QED BY <1>1, <1>3, <2>1, <2>2, <2>3, RestoreStep DEF RestoreEnd
<1> QED BY <1>2, <1>3

LEMMA RestoreSessionStep ==
  ASSUME Inv, Grows, NEW s \in Sessions, RestoreSession(s)
  PROVE  Inv'
<1> DEFINE m == sessionState(mem, s)
           v == [m.obj[m.at[s]] EXCEPT !.recent = restore.snap[s].recent]
<1>1. /\ restore.pc = "turn" /\ s \in restore.todo
      /\ mem' = [m EXCEPT !.obj[m.at[s]] = v]
      /\ restore' = [restore EXCEPT !.pc = "tab", !.todo = @ \ {s}, !.s = s,
                                    !.obj = m.at[s], !.tabs = restore.snap[s].tabs]
      /\ UNCHANGED <<stored, open, used, calls, rec, lease, bounds, granted>>
  BY DEF RestoreSession
<1>2. TypeOK /\ MemOK(mem) /\ restore \in Restoring
  BY DEF Inv, TypeInv, TypeOK, MemOK
<1>3. /\ MemOK(m) /\ m.at[s] \in Objects
      /\ \A r \in Sessions : r # s => m.at[r] = mem.at[r]
      /\ \A r \in Sessions : TabsOf(m, r) = TabsOf(mem, r)
  BY <1>2, SessionStateFacts
<1> HIDE DEF m
<1>4. v \in SessionValue /\ v.tabs = TabsOf(m, s)
  <2>1. m.obj[m.at[s]] \in SessionValue /\ TabsOf(m, s) = m.obj[m.at[s]].tabs
    BY <1>3, ObjectsFacts DEF MemOK, TabsOf
  <2>2. restore.snap[s].recent \in BOOLEAN
    BY <1>2 DEF Restoring, SessionValue
  <2> QED BY <2>1, <2>2 DEF SessionValue
<1> HIDE DEF v
<1>5. /\ MemOK(mem') /\ mem'.at = m.at /\ TabsOf(mem', s) = v.tabs
      /\ \A r \in Sessions : r # s => TabsOf(mem', r) = TabsOf(m, r)
      /\ mem'.obj[m.at[s]].tabs = v.tabs
  <2>1. v \in SessionValue /\ mem' = [m EXCEPT !.obj[m.at[s]] = v]
    BY <1>1, <1>4
  <2>2. /\ MemOK(mem') /\ mem'.at = m.at /\ TabsOf(mem', s) = v.tabs
        /\ \A r \in Sessions : r # s => TabsOf(mem', r) = TabsOf(m, r)
    BY <1>3, <2>1, ObjectFacts
  <2>3. mem'.obj[m.at[s]].tabs = TabsOf(mem', s)
    BY <1>3, <2>2, ObjectsFacts DEF TabsOf
  <2> QED BY <2>2, <2>3
<1>6. /\ restore' \in Restoring /\ restore'.pc = "tab" /\ restore'.s = s
      /\ restore'.todo = restore.todo \ {s} /\ restore'.obj = m.at[s]
      /\ restore'.snap = restore.snap /\ restore'.tabs = restore.snap[s].tabs
  <2>1. restore.snap[s].tabs \in SUBSET Tabs
    BY <1>2 DEF Restoring, SessionValue
  <2> QED BY <1>1, <1>2, <1>3, <2>1 DEF Restoring
<1>7. ASSUME OwnInv PROVE RestoreInv' /\ \A r \in Sessions : Held(r)' \subseteq Held(r)
  <2>1. mem.at[s] = 0 /\ \A r \in restore.todo : mem.at[r] = 0
    BY <1>1, <1>7 DEF OwnInv, RestoreInv
  <2>2. TabsOf(mem, s) = {} /\ mem'.obj[restore'.obj].tabs = {}
    BY <1>3, <1>4, <1>5, <1>6, <2>1 DEF TabsOf
  <2>3. restore.todo \subseteq Sessions
    BY <1>2 DEF Restoring
  <2>4. \A r \in Sessions : r # s => mem'.at[r] # restore'.obj
    BY <1>3, <1>5, <1>6, ObjectsFacts DEF MemOK
  <2>5. RestoreInv'
    BY <1>3, <1>5, <1>6, <2>1, <2>2, <2>3, <2>4 DEF RestoreInv
  <2>6. \A r \in Sessions : ToRestore(r)' \subseteq ToRestore(r)
    BY <1>1, <1>6 DEF ToRestore
  <2>7. \A r \in Sessions : TabsOf(mem', r) = TabsOf(mem, r)
    BY <1>3, <1>4, <1>5
  <2> QED BY <2>5, <2>6, <2>7 DEF Held
<1> QED BY <1>1, <1>3, <1>5, <1>6, <1>7, RestoreStep

\* An object changes that a session may have or not.
LEMMA JoinFacts ==
  ASSUME NEW m, MemOK(m), NEW o \in Objects, NEW v \in SessionValue, NEW n, n = [m EXCEPT !.obj[o] = v]
  PROVE  MemOK(n) /\ n.at = m.at
<1>1. m.obj \in [Objects -> SessionValue] /\ n.at = m.at /\ n.obj = [m.obj EXCEPT ![o] = v]
  BY DEF MemOK
<1>2. [m.obj EXCEPT ![o] = v] \in [Objects -> SessionValue]
  BY <1>1
<1> QED BY <1>1, <1>2 DEF MemOK

LEMMA RestoreTabStep ==
  ASSUME Inv, Grows, NEW t \in Tabs, RestoreTab(t)
  PROVE  Inv'
<1> DEFINE m == IF t \in open THEN [mem EXCEPT !.obj[restore.obj].tabs = @ \cup {t}] ELSE mem
           last == restore.tabs = {t}
           s == restore.s
           o == restore.obj
<1>1. /\ restore.pc = "tab" /\ t \in restore.tabs
      /\ mem' = IF last /\ m.obj[o].tabs = {} THEN Drop(m, s) ELSE m
      /\ restore' = IF last THEN [restore EXCEPT !.pc = "turn", !.s = None, !.obj = 0, !.tabs = {}]
                    ELSE [restore EXCEPT !.tabs = @ \ {t}]
      /\ UNCHANGED <<stored, open, used, calls, rec, lease, bounds, granted>>
  BY DEF RestoreTab
<1>2. MemOK(mem) /\ restore \in Restoring /\ s \in Sessions /\ o \in Objects
  BY <1>1 DEF Inv, TypeInv, TypeOK, MemOK, Shapes
<1>3. /\ MemOK(m) /\ m.at = mem.at
      /\ \A p \in Objects : m.obj[p].tabs \subseteq IF p = o THEN mem.obj[p].tabs \cup {t} ELSE mem.obj[p].tabs
      /\ \A r \in Sessions : TabsOf(m, r) \subseteq IF mem.at[r] = o THEN TabsOf(mem, r) \cup {t} ELSE TabsOf(mem, r)
  <2>1. CASE t \in open
    <3> DEFINE v == [mem.obj[o] EXCEPT !.tabs = @ \cup {t}]
    <3>0. v \in SessionValue /\ v.tabs = mem.obj[o].tabs \cup {t}
      BY <1>2 DEF MemOK, SessionValue
    <3>1. m = [mem EXCEPT !.obj[o] = v]
      BY <2>1
    <3> HIDE DEF m, o, v
    <3>2. MemOK(mem) /\ o \in Objects
      BY <1>2
    <3>3. MemOK(m) /\ m.at = mem.at
      BY <3>0, <3>1, <3>2, JoinFacts
    <3>4. \A p \in Objects : m.obj[p].tabs \subseteq IF p = o THEN mem.obj[p].tabs \cup {t} ELSE mem.obj[p].tabs
      <4>1. m.obj = [mem.obj EXCEPT ![o] = v] /\ mem.obj \in [Objects -> SessionValue]
        BY <3>1, <3>2 DEF MemOK
      <4> QED BY <3>0, <3>2, <4>1
    <3>7. \A r \in Sessions : TabsOf(m, r) \subseteq IF mem.at[r] = o THEN TabsOf(mem, r) \cup {t} ELSE TabsOf(mem, r)
      <4> TAKE r \in Sessions
      <4>1. m.at[r] = mem.at[r] /\ mem.at[r] \in Objects \cup {0}
        BY <3>2, <3>3 DEF MemOK
      <4>2. CASE mem.at[r] = 0
        BY <4>1, <4>2 DEF TabsOf
      <4>3. CASE mem.at[r] # 0
        <5>1. TabsOf(m, r) = m.obj[mem.at[r]].tabs /\ TabsOf(mem, r) = mem.obj[mem.at[r]].tabs
          BY <4>1, <4>3 DEF TabsOf
        <5> QED BY <3>4, <4>1, <4>3, <5>1
      <4> QED BY <4>2, <4>3
    <3> QED BY <3>3, <3>4, <3>7
  <2>2. CASE t \notin open
    BY <1>2, <2>2
  <2> QED BY <2>1, <2>2
<1>4. \/ last /\ restore'.pc = "turn" /\ restore'.tabs = {}
      \/ /\ mem' = m
         /\ restore'.pc = "tab" /\ restore'.s = s /\ restore'.obj = o /\ restore'.tabs = restore.tabs \ {t}
  BY <1>1, <1>2 DEF Restoring
<1>5. restore' \in Restoring /\ restore'.todo = restore.todo /\ restore'.snap = restore.snap
  BY <1>1, <1>2, OwnershipAssumption DEF Restoring
<1>6. t \in ToRestore(s) /\ \A r \in Sessions : ToRestore(r)' \subseteq ToRestore(r)
  BY <1>1, <1>4, <1>5 DEF ToRestore
<1>7. mem' = m \/ mem' = Drop(m, s)
  BY <1>1
<1>0. s = restore.s /\ o = restore.obj
  OBVIOUS
<1> HIDE DEF m, last, s, o
<1>8. /\ MemOK(mem') /\ \A r \in Sessions : mem'.at[r] \in {mem.at[r], 0}
      /\ \A r \in Sessions : TabsOf(mem', r) \subseteq TabsOf(m, r)
  <2>1. CASE mem' = m
    BY <1>3, <2>1
  <2>2. CASE mem' = Drop(m, s)
    <3>1. /\ MemOK(mem') /\ mem'.at[s] = 0 /\ TabsOf(mem', s) = {}
          /\ \A r \in Sessions : r # s => mem'.at[r] = m.at[r] /\ TabsOf(mem', r) = TabsOf(m, r)
      BY <1>2, <1>3, <2>2, DropFacts
    <3> QED BY <1>3, <3>1
  <2> QED BY <1>7, <2>1, <2>2
<1>9. ASSUME OwnInv PROVE RestoreInv' /\ \A r \in Sessions : Held(r)' \subseteq Held(r)
  <2>1. /\ s \notin restore.todo /\ (\A r \in restore.todo : mem.at[r] = 0) /\ mem.at[s] \in {0, o}
        /\ (\A r \in Sessions : r # s => mem.at[r] # o) /\ restore.tabs \cap mem.obj[o].tabs = {}
    BY <1>0, <1>1, <1>9 DEF OwnInv, RestoreInv
  <2>2. restore.todo \subseteq Sessions
    BY <1>2 DEF Restoring
  <2>3. RestoreInv'
    <3>1. CASE restore'.pc = "turn"
      BY <1>5, <1>8, <2>1, <2>2, <3>1 DEF RestoreInv
    <3>2. CASE /\ mem' = m /\ restore'.pc = "tab" /\ restore'.s = s /\ restore'.obj = o
               /\ restore'.tabs = restore.tabs \ {t}
      <4>1. mem'.at = mem.at /\ mem'.obj[o].tabs \subseteq mem.obj[o].tabs \cup {t}
        BY <1>2, <1>3, <3>2
      <4>2. restore'.tabs \cap mem'.obj[o].tabs = {}
        BY <2>1, <3>2, <4>1
      <4> QED BY <1>5, <2>1, <2>2, <3>2, <4>1, <4>2 DEF RestoreInv
    <3> QED BY <1>4, <3>1, <3>2
  <2>4. ASSUME NEW r \in Sessions PROVE Held(r)' \subseteq Held(r)
    <3>1. TabsOf(mem', r) \subseteq TabsOf(mem, r) \cup (IF r = s THEN {t} ELSE {})
      BY <1>3, <1>8, <2>1
    <3> QED BY <1>6, <3>1 DEF Held
  <2> QED BY <2>3, <2>4
<1>10. /\ restore'.pc = "off" => restore' = NoRestore
       /\ restore'.pc = "tab" => restore'.s \in Sessions /\ restore'.obj \in Objects
  BY <1>2, <1>4
<1> QED BY <1>1, <1>5, <1>8, <1>9, <1>10, RestoreStep

-----------------------------------------------------------------------------
LEMMA InitInv == Init => Inv
<1> SUFFICES ASSUME Init PROVE Inv
  OBVIOUS
<1>1. MemOK(mem) /\ (\A s \in Sessions : mem.at[s] = 0 /\ TabsOf(mem, s) = {})
  BY DEF Init, EmptyMap, Absent, SessionValue, MemOK, TabsOf
<1>2. NoCall \in Call /\ CallShape(NoCall) /\ NoCall.op = "none" /\ NoCall.s \notin Sessions
  BY OwnershipAssumption DEF NoCall, Call, CallShape
<1>3. NoReconcile \in Reconciling /\ NoReconcile.pc = "off" /\ NoReconcile.settled = {}
  BY OwnershipAssumption DEF NoReconcile, Reconciling
<1>4. NoRestore \in Restoring /\ NoRestore.pc = "off"
  BY OwnershipAssumption DEF NoRestore, Restoring, Absent, SessionValue
<1>5. \A s \in Sessions : stored[s] = Absent /\ stored[s].tabs = {}
  BY DEF Init, Absent
<1>6. stored \in [Sessions -> SessionValue]
  BY DEF Init, Absent, SessionValue
<1> HIDE DEF NoCall, NoReconcile, NoRestore
<1>7. calls \in [Calls -> Call] /\ \A c \in Calls : calls[c] = NoCall
  BY <1>2 DEF Init
<1>8. TypeOK
  <2>1. begun \in 0 .. MaxCalls /\ restarts \in 0 .. MaxRestarts
    BY OwnershipAssumption DEF Init
  <2>2. lease \in [Sessions -> {"live", "dead", "expired", "gone"}]
    BY DEF Init
  <2> QED BY <1>1, <1>3, <1>4, <1>6, <1>7, <2>1, <2>2, OwnershipAssumption DEF Init, TypeOK, MemOK
<1>9. Shapes /\ Written
  BY <1>1, <1>2, <1>3, <1>4, <1>5, <1>7 DEF Init, Shapes, Written
<1>10. OwnInv
  <2>1. restore.pc = "off" /\ (\A s \in Sessions : Held(s) = {})
    BY <1>1, <1>4 DEF Init, Held, ToRestore
  <2>2. \A s \in Sessions : lease[s] = "live"
    BY DEF Init
  <2>3. HeldInv /\ StoredInv
    BY <1>5, <2>1 DEF HeldInv, StoredInv
  <2>4. LeaseInv
    BY <1>3, <2>2 DEF Init, LeaseInv
  <2> QED BY <1>2, <1>3, <1>7, <2>1, <2>3, <2>4 DEF Init, OwnInv, Alone, RestoreInv, StaleInv
<1> QED BY <1>8, <1>9, <1>10 DEF Inv, TypeInv, Grows

LEMMA ServeStep ==
  ASSUME Inv, Grows, Opens, NEW c \in Calls, Serve(c)
  PROVE  Inv'
<1>1. CASE \E s \in Sessions : \/ BeginCreate(c, s)
                               \/ \E t \in Tabs : \/ BeginClaim(c, s, t)
                                                  \/ \E op \in {"release", "close"} : BeginLeave(c, op, s, t)
  BY <1>1, BeginStep
<1>2. CASE \E s \in Sessions : BeginFinalize(c, s)
  BY <1>2, BeginFinalizeStep
<1>3. CASE \E t \in Tabs : Create(c, t)
  BY <1>3, CreateStep
<1>4. CASE Created(c)
  BY <1>4, TrackStep DEF Created
<1>5. CASE Claim(c)
  BY <1>5, TrackStep DEF Claim
<1>6. CASE ClaimRefused(c) \/ Grouped(c) \/ LeaveFails(c)
  BY <1>6, AnsweringStep
<1>7. CASE Detached(c)
  BY <1>7, DetachedStep
<1>8. CASE CloseTab(c)
  BY <1>8, CloseTabStep
<1>9. CASE Leave(c)
  BY <1>9, LeaveStep
<1>10. CASE FinalizeEnd(c)
  BY <1>10, FinalizeEndStep
<1>11. CASE \E ready \in SUBSET calls[c].todo : FinalizeUntrack(c, ready)
  BY <1>11, FinalizeUntrackStep
<1> QED BY <1>1, <1>2, <1>3, <1>4, <1>5, <1>6, <1>7, <1>8, <1>9, <1>10, <1>11 DEF Serve

LEMMA EnvironmentStep ==
  ASSUME Inv, Grows, Environment
  PROVE  Inv'
<1>1. CASE \E t \in Tabs : UserOpens(t)
  BY <1>1, UserOpensStep
<1>2. CASE \E t \in Tabs : TabRemoved(t)
  BY <1>2, TabRemovedStep
<1>3. CASE Restart
  BY <1>3, RestartStep
<1>4. CASE \E s \in Sessions : HarnessDies(s) \/ LeaseExpires(s) \/ Resume(s)
  BY <1>4, LeaseStep
<1>5. CASE \E s \in Sessions : Quiet(s)
  BY <1>5, QuietStep
<1> QED BY <1>1, <1>2, <1>3, <1>4, <1>5 DEF Environment

LEMMA AskedStep ==
  ASSUME Inv, Grows, Opens, Asked
  PROVE  Inv'
<1>1. CASE \E c \in Calls : Serve(c)
  BY <1>1, ServeStep
<1>2. CASE \E s \in Sessions : Talk(s) \/ \E t \in Tabs : Act(s, t)
  BY <1>2, SessionStep
<1>3. CASE BeginReconcile
  BY <1>3, AskStep
<1> QED BY <1>1, <1>2, <1>3 DEF Asked

LEMMA InvStep == Inv /\ [Next]_vars => Inv'
<1> SUFFICES ASSUME Inv, [Next]_vars PROVE Inv'
  OBVIOUS
<1>0. early \in BOOLEAN
  BY DEF Inv, TypeInv, TypeOK
<1>1. CASE Asked /\ early' = (early \/ restore # NoRestore)
  <2>1. Grows /\ Opens
    <3>1. NoRestore.pc = "off"
      BY DEF NoRestore
    <3>2. (early \/ restore # NoRestore) \in BOOLEAN
      OBVIOUS
    <3>3. CASE restore = NoRestore
      <4>1. restore.pc = "off"
        BY <3>1, <3>3
      <4> QED BY <1>1, <3>2, <4>1, Zenon DEF Grows, Opens
    <3>4. CASE restore # NoRestore
      BY <1>1, <3>2, <3>4, Zenon DEF Grows, Opens
    <3> QED BY <3>3, <3>4
  <2> QED BY <1>1, <2>1, AskedStep
<1>2. CASE UNCHANGED early
  <2>1. Grows
    BY <1>0, <1>2 DEF Grows
  <2>2. CASE Environment
    BY <2>1, <2>2, EnvironmentStep
  <2>3. CASE AskReconcile
    BY <2>1, <2>3, AskStep
  <2>4. CASE RestoreRead \/ RestoreEnd
    BY <2>1, <2>4, RestoreReadStep
  <2>5. CASE ReconcileSettle
    BY <2>1, <2>5, ReconcileSettleStep
  <2>6. CASE \E t \in Tabs : RestoreTab(t)
    BY <2>1, <2>6, RestoreTabStep
  <2>7. CASE \E t \in Tabs : ReconcileTab(t) \/ ReconcileBlocked(t)
    BY <2>1, <2>7, ReconcileTabStep
  <2>8. CASE \E s \in Sessions : RestoreSession(s)
    BY <2>1, <2>8, RestoreSessionStep
  <2>9. CASE \E s \in Sessions : ReconcileSession(s)
    BY <2>1, <2>9, ReconcileSessionStep
  <2>10. CASE \E heard \in BOOLEAN : ReconcileEnd(heard)
    BY <2>1, <2>10, ReconcileEndStep
  <2>11. CASE UNCHANGED vars
    <3>1. RecGoesOn
      BY <2>11 DEF RecGoesOn, vars
    <3> QED BY <2>1, <2>11, <3>1, RecStep DEF vars
  <2>12. CASE Asked /\ early' = (early \/ restore # NoRestore)
    BY <1>1, <2>12
  <2> QED
    BY <2>2, <2>3, <2>4, <2>5, <2>6, <2>7, <2>8, <2>9, <2>10, <2>11, <2>12 DEF Next, RunOn
<1> QED
  BY <1>1, <1>2 DEF Next, vars

THEOREM Invariance == Spec => []Inv
BY InitInv, InvStep, PTL DEF Spec

\* The Map never gives one object to two sessions, and every call, the restore and
\* the release stay in the states that their code can be in.
THEOREM TypeCorrect == Spec => []TypeOK
<1>1. Inv => TypeOK
  BY DEF Inv, TypeInv
<1> QED BY <1>1, Invariance, PTL

\* In the first life of the background script the storage names every controlled tab
\* whenever no call is being served: persistSessions() runs after each change that
\* takes a tab in, before the call is answered.
THEOREM StorageTheorem == Spec => []StorageCatchesUp
<1>1. Inv => StorageCatchesUp
  BY DEF Inv, TypeInv, Written, StorageCatchesUp, SurvivesRestart, NoCall
<1> QED BY <1>1, Invariance, PTL

\* Until the first call served in the middle of a restore no tab is controlled by two
\* sessions: assertTabAccess() and the Map change are one stretch of code, and what the
\* restore has still to ask for is nobody else's.
THEOREM OneOwnerTheorem == Spec => []OneOwnerUnlessEarly
<1>1. Inv => OneOwnerUnlessEarly
  <2> SUFFICES ASSUME Inv, ~early, NEW t \in Tabs PROVE Cardinality(Owners(mem, t)) <= 1
    BY DEF OneOwnerUnlessEarly, OneOwner
  <2>1. \A s, r \in Owners(mem, t) : s = r
    BY DEF Inv, OwnInv, HeldInv, Held, Owners
  <2>2. CASE Owners(mem, t) = {}
    BY <2>2, FS_EmptySet
  <2>3. ASSUME NEW s \in Owners(mem, t) PROVE Cardinality(Owners(mem, t)) <= 1
    <3>1. Owners(mem, t) = {s}
      BY <2>1
    <3>2. Cardinality({s}) = 1
      BY FS_Singleton
    <3> QED BY <3>1, <3>2
  <2> QED BY <2>2, <2>3
<1> QED BY <1>1, Invariance, PTL

\* Until then a session controls only tabs that it created or claimed and has not given
\* back: what is untracked leaves the storage with it, so no restart brings it back.
THEOREM GrantedTheorem == Spec => []GrantedUnlessEarly
<1>1. Inv => GrantedUnlessEarly
  BY DEF Inv, OwnInv, HeldInv, Held, Granted, GrantedUnlessEarly, OwnsOnlyGranted, Owns
<1> QED BY <1>1, Invariance, PTL

\* Until then a removed lease leaves no tab behind: a session is settled when it has
\* none, and one whose lease has expired gets none.
THEOREM SettledTheorem == Spec => []SettledUnlessEarly
<1>1. Inv => SettledUnlessEarly
  BY DEF Inv, OwnInv, LeaseInv, Held, SettledUnlessEarly, SettledHoldsNothing
<1> QED BY <1>1, Invariance, PTL
=============================================================================
