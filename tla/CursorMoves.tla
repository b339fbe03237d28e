---------------------------- MODULE CursorMoves -----------------------------
(***************************************************************************)
(* The agent's cursor in a page: the extension's side, which numbers the   *)
(* moves and waits for arrivals (background/runtime-cursor.ts), and the    *)
(* script in the page, which glides to the last point it was given and     *)
(* says when it is there (entrypoints/cursor.ts).  Every move asks for a   *)
(* point of its own, which is named after it, and shows the cursor: its    *)
(* callers pass neither a number nor `visible: false', which only gestures *)
(* and hiding publish, by themselves.                                      *)
(***************************************************************************)
EXTENDS Naturals

CONSTANTS
    MouseMoves, \* the calls of moveMouse, which wait for the arrival
    Gestures,   \* the gestures, each with one step that moves the cursor
    NoMove, MaxHappenings

ASSUME CursorAssumption == NoMove \notin MouseMoves \cup Gestures /\ MouseMoves \cap Gestures = {}

VARIABLES
    published,  \* cursorStateByTabId: [move, sequence, shown]
    counted,    \* the number a gesture has read before its turn
    sequence,   \* the numbers of the moves, 0 before they have one
    outcome,    \* "idle", "waits", "arrived", "timedOut"
    waiters,    \* cursorArrivalWaiters: who waits for a number
    messages,   \* states on their way to the page, which a retry can reorder
    script,     \* the page's script: [target, at, pending, gliding, shown]
    arrivals,   \* arrivals on their way to the extension
    watched,    \* the tab is on screen and its window has the focus
    been,       \* the points the pointer has been at
    lowered,    \* a gesture has published under a number behind the last one
    happenings

cursorMovesVars == <<published, counted, sequence, outcome, waiters, messages, script, arrivals,
                     watched, been, lowered, happenings>>

Numbers == 1..3     \* a bound: a further move is not made

-----------------------------------------------------------------------------
Blank == [target |-> NoMove, at |-> NoMove, pending |-> 0, gliding |-> FALSE, shown |-> FALSE]

CursorMovesInit ==
    /\ published = [move |-> NoMove, sequence |-> 0, shown |-> FALSE]
    /\ counted = [g \in Gestures |-> 0]
    /\ sequence = [m \in MouseMoves \cup Gestures |-> 0]
    /\ outcome = [m \in MouseMoves \cup Gestures |-> "idle"]
    /\ waiters = [n \in Numbers |-> NoMove]
    /\ messages = {} /\ script = Blank /\ arrivals = {}
    /\ watched \in BOOLEAN
    /\ been = {} /\ lowered = FALSE /\ happenings = MaxHappenings

\* publishCursorState: the state is kept and sent to the page.
Publish(m, n, shown) ==
    /\ published' = [move |-> m, sequence |-> n, shown |-> shown]
    /\ messages' = messages \cup {published'}

\* moveMouse numbers the move after the one published last.
MoveMouse(m) ==
    /\ outcome[m] = "idle" /\ published.sequence + 1 \in Numbers
    /\ LET n == published.sequence + 1
       IN  /\ Publish(m, n, TRUE)
           /\ sequence' = [sequence EXCEPT ![m] = n]
           /\ waiters' = [waiters EXCEPT ![n] = m]
    /\ outcome' = [outcome EXCEPT ![m] = "waits"]
    /\ UNCHANGED <<counted, script, arrivals, watched, been, happenings, lowered>>

\* executeInputGesture reads the number before it waits for the tab's queue.
GestureReads(g) ==
    /\ outcome[g] = "idle" /\ published.sequence + 1 \in Numbers
    /\ counted' = [counted EXCEPT ![g] = published.sequence]
    /\ outcome' = [outcome EXCEPT ![g] = "waits"]
    /\ UNCHANGED <<published, sequence, waiters, messages, script, arrivals, watched, been,
                   happenings, lowered>>

GestureMoves(g) ==
    /\ outcome[g] = "waits"
    /\ Publish(g, counted[g] + 1, TRUE)
    /\ lowered' = (lowered \/ counted[g] < published.sequence)
    /\ sequence' = [sequence EXCEPT ![g] = counted[g] + 1]
    /\ outcome' = [outcome EXCEPT ![g] = "arrived"]
    /\ UNCHANGED <<counted, waiters, script, arrivals, watched, been, happenings>>

\* waitForCursorArrival: the timer takes away the waiter for the number.
TimesOut(m) ==
    /\ outcome[m] = "waits" /\ happenings > 0 /\ happenings' = happenings - 1
    /\ outcome' = [outcome EXCEPT ![m] = "timedOut"]
    /\ waiters' = [waiters EXCEPT ![sequence[m]] = NoMove]
    /\ UNCHANGED <<published, counted, sequence, messages, script, arrivals, watched, been, lowered>>

\* hideCursor, when the tab is let go.
Hide ==
    /\ published.shown /\ published.sequence + 1 \in Numbers
    /\ happenings > 0 /\ happenings' = happenings - 1
    /\ Publish(published.move, published.sequence + 1, FALSE)
    /\ UNCHANGED <<counted, sequence, outcome, waiters, script, arrivals, watched, been, lowered>>

\* OPENCODE_CURSOR_ARRIVED resolves who waits for the number.
Resolves_Anyone(n) == {m \in MouseMoves : outcome[m] = "waits"}
Resolves(n) == {waiters[n]} \ {NoMove}
Arrive(n) ==
    /\ n \in arrivals /\ arrivals' = arrivals \ {n}
    /\ outcome' = [m \in MouseMoves \cup Gestures |-> IF m \in Resolves(n) THEN "arrived" ELSE outcome[m]]
    /\ waiters' = [waiters EXCEPT ![n] = NoMove]
    /\ UNCHANGED <<published, counted, sequence, messages, script, watched, been, happenings, lowered>>

-----------------------------------------------------------------------------
\* reportArrival: the pending number is reported, once.
Report(page) ==
    /\ arrivals' = arrivals \cup ({page.pending} \ {0})
    /\ script' = [page EXCEPT !.pending = 0]

\* applyState: a cursor that is not shown, not watched or there already does
\* not glide; one that was hidden starts from a point of its own.
Apply(state) ==
    LET page == [script EXCEPT !.target = state.move, !.pending = state.sequence, !.shown = state.shown,
                               !.at = IF state.shown /\ ~script.shown THEN NoMove ELSE @, !.gliding = FALSE]
        there == [page EXCEPT !.at = state.move]
    IN  IF ~state.shown THEN Report(page) /\ UNCHANGED been
        ELSE IF ~watched \/ page.at = state.move
        THEN Report(there) /\ been' = been \cup {state.move}
        ELSE script' = [page EXCEPT !.gliding = TRUE] /\ UNCHANGED <<arrivals, been>>

Deliver ==
    /\ \E state \in messages : Apply(state) /\ messages' = messages \ {state}
    /\ UNCHANGED <<published, counted, sequence, outcome, waiters, watched, happenings, lowered>>

\* animate: the frame in which the glide ends.
GlideEnds ==
    /\ script.gliding /\ watched
    /\ Report([script EXCEPT !.at = script.target, !.gliding = FALSE])
    /\ been' = been \cup {script.target}
    /\ UNCHANGED <<published, counted, sequence, outcome, waiters, messages, watched, happenings, lowered>>

\* refreshCurrentState: a new page, or one that was resized, asks for the state.
Refresh ==
    /\ published.move # NoMove /\ happenings > 0 /\ happenings' = happenings - 1
    /\ messages' = messages \cup {published}
    /\ UNCHANGED <<published, counted, sequence, outcome, waiters, script, arrivals, watched, been, lowered>>

\* The page goes, with its script and what was sent to it.
Navigate ==
    /\ happenings > 0 /\ happenings' = happenings - 1
    /\ script' = Blank /\ messages' \in SUBSET messages
    /\ UNCHANGED <<published, counted, sequence, outcome, waiters, arrivals, watched, been, lowered>>

\* handleVisibility: without anyone watching no frame is drawn.
LookAway ==
    /\ happenings > 0 /\ happenings' = happenings - 1
    /\ watched' = ~watched
    /\ UNCHANGED <<published, counted, sequence, outcome, waiters, messages, script, arrivals, been, lowered>>

CursorMovesNext ==
    \/ \E m \in MouseMoves : MoveMouse(m) \/ TimesOut(m)
    \/ \E g \in Gestures : GestureReads(g) \/ GestureMoves(g)
    \/ \E n \in Numbers : Arrive(n)
    \/ Hide \/ Deliver \/ GlideEnds \/ Refresh \/ Navigate \/ LookAway

CursorMovesSpec == CursorMovesInit /\ [][CursorMovesNext]_cursorMovesVars

-----------------------------------------------------------------------------
Everyone == MouseMoves \cup Gestures \cup {NoMove}

CursorMovesTypeOK ==
    /\ published \in [move : Everyone, sequence : Numbers \cup {0}, shown : BOOLEAN]
    /\ sequence \in [MouseMoves \cup Gestures -> Numbers \cup {0}] /\ counted \in [Gestures -> Numbers \cup {0}]
    /\ outcome \in [MouseMoves \cup Gestures -> {"idle", "waits", "arrived", "timedOut"}]
    /\ waiters \in [Numbers -> Everyone]
    /\ script \in [target : Everyone, at : Everyone, pending : Numbers \cup {0}, gliding : BOOLEAN, shown : BOOLEAN]
    /\ arrivals \subseteq Numbers /\ watched \in BOOLEAN /\ been \subseteq Everyone /\ lowered \in BOOLEAN /\ happenings \in 0..MaxHappenings

\* runtime-cursor.ts, cursor.ts: a move that is said to have arrived brought
\* the pointer to its point, however states, frames and pages come and go,
\* until a gesture publishes under a number that is behind the last one.
ArrivedIsThere == \A m \in MouseMoves : outcome[m] = "arrived" => lowered \/ m \in been

\* Not so: without the exception; two moves have the same number.
ArrivedIsThereAnyway == \A m \in MouseMoves : outcome[m] = "arrived" => m \in been

\* Not so: a tab nobody watches has no glide that waits for a frame ("moves made
\* while unwatched were placed rather than flown", cursor.ts:454-456).  One that
\* was under way when the tab lost the focus stays, and is not reported.
NothingFliesUnwatched == ~watched => ~script.gliding
=============================================================================
