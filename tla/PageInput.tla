----------------------------- MODULE PageInput ------------------------------
(***************************************************************************)
(* What the input operations do to a page: filling, typing, key chords and *)
(* drags (browser/operations/interaction-runtime.ts, operation-groups/     *)
(* input.ts and inspection.ts, browser/keyboard.ts, and executeInputGesture*)
(* of the extension's runtime-cdp.ts).                                     *)
(*                                                                         *)
(* An operation is a sequence of commands.  Those of a gesture are         *)
(* dispatched under one turn of the tab's queue; those of a fill take one  *)
(* turn each, so other calls, the page and the user come in between.       *)
(* A text is the sequence of the calls that wrote it.                      *)
(***************************************************************************)
EXTENDS Naturals, FiniteSets, SequencesExt

CONSTANTS InputCalls, KindOf, Editables, TargetOf, NoEditable, NoInput, MaxCalls, MaxInputTurns

ASSUME InputAssumption ==
    /\ KindOf \in [InputCalls -> {"fill", "clear", "append", "type", "chord", "drag"}]
    /\ TargetOf \in [InputCalls -> Editables]
    /\ NoEditable \notin Editables /\ NoInput \notin InputCalls

VARIABLES
    form,      \* the page: the focus, what the fields hold, whether it is selected, the keys held
    input,     \* the calls: [status, step, before, verdict, touched, moved, left]
    busy,      \* whose turn it is in the tab's queue, a call that has timed out included
    alert,     \* a native dialog is open
    inputTurns

pageInputVars == <<form, input, busy, alert, inputTurns>>

-----------------------------------------------------------------------------
\* Filling: the target is focused and its text selected, or the caret put at
\* the end; the text goes to whatever is focused, and that is then read back.
Fill == <<"select", "insert", "verify">>
Clear(empty) == IF empty THEN <<"select", "verify">> ELSE <<"select", "deleteDown", "deleteUp", "verify">>
AppendText == <<"toEnd", "insert", "verify">>
TypeText == <<"look", "insert", "verify">>

\* keyDispatchEvents: the modifiers go down, the key down and up, the modifiers up.
Chord == <<"modifierDown", "selectAll", "keyUp", "modifierUp">>
PressKey == <<"focus">> \o Chord
Drag == <<"move", "buttonDown", "drag", "buttonUp">>

CommandsOf(c) ==
    CASE KindOf[c] = "fill" -> Fill [] KindOf[c] = "clear" -> Clear(input[c].before.text = <<>>)
      [] KindOf[c] = "append" -> AppendText [] KindOf[c] = "type" -> TypeText
      [] KindOf[c] = "chord" -> PressKey [] KindOf[c] = "drag" -> Drag

Gesture(c) == KindOf[c] \in {"chord", "drag"}
Replaces(c) == KindOf[c] \in {"fill", "clear"}
Wanted(c) == IF KindOf[c] = "fill" THEN <<c>> ELSE <<>>
CommandAt(c) == CommandsOf(c)[input[c].step]
AtLast(c) == input[c].step = Len(CommandsOf(c))

Focused == form.focus # NoEditable
Has(f, text, all) == [form EXCEPT !.text[f] = text, !.all[f] = all]
Looked == IF Focused THEN [text |-> form.text[form.focus], all |-> form.all[form.focus]]
                     ELSE [text |-> <<>>, all |-> FALSE]

\* prepareEditable, prepareFocus: the target gets the focus.
Focus(c, all) ==
    [form EXCEPT !.focus = TargetOf[c], !.all = [f \in Editables |-> IF f = TargetOf[c] THEN all ELSE @[f]]]

\* What a command does to the page.
Effect(c) ==
    CASE CommandAt(c) = "select" -> Focus(c, TRUE)
      [] CommandAt(c) = "toEnd" -> Focus(c, FALSE)
      [] CommandAt(c) = "focus" -> Focus(c, form.all[TargetOf[c]])
      [] CommandAt(c) = "insert" /\ Focused ->
            Has(form.focus, IF Looked.all THEN <<c>> ELSE Append(Looked.text, c), FALSE)
      [] CommandAt(c) = "deleteDown" /\ Focused ->
            [Has(form.focus, IF Looked.all \/ Looked.text = <<>> THEN <<>> ELSE Front(Looked.text), FALSE)
                EXCEPT !.held = @ \cup {"key"}]
      [] CommandAt(c) = "selectAll" /\ Focused -> Has(form.focus, Looked.text, TRUE)
      [] CommandAt(c) = "modifierDown" -> [form EXCEPT !.held = @ \cup {"modifier"}]
      [] CommandAt(c) = "modifierUp" -> [form EXCEPT !.held = @ \ {"modifier"}]
      [] CommandAt(c) = "buttonDown" -> [form EXCEPT !.held = @ \cup {"button"}]
      [] CommandAt(c) = "buttonUp" -> [form EXCEPT !.held = @ \ {"button"}]
      [] CommandAt(c) = "deleteUp" -> [form EXCEPT !.held = @ \ {"key"}]
      [] OTHER -> form

\* verifyFocusedEditableExpression: whatever is focused now holds the wanted
\* text, or differs from what was looked at before.
TextVerified_AnyChange(c) == Focused /\ Looked # input[c].before
TextVerified(c) ==
    /\ Focused
    /\ IF Replaces(c) THEN Looked.text = Wanted(c) ELSE Looked # input[c].before

-----------------------------------------------------------------------------
PageInputInit ==
    /\ form = [focus |-> NoEditable, text |-> [f \in Editables |-> <<"page">>], all |-> [f \in Editables |-> FALSE], held |-> {}]
    /\ input = [c \in InputCalls |-> [status |-> "idle", step |-> 1, before |-> [text |-> <<"page">>, all |-> FALSE],
                                     verdict |-> "none", touched |-> FALSE, moved |-> FALSE, left |-> <<>>]]
    /\ busy = NoInput /\ alert = FALSE /\ inputTurns = MaxInputTurns

\* The focus leaves a field that a call has prepared.
Moves(page, except) ==
    [c \in InputCalls |-> [input[c] EXCEPT !.moved =
        @ \/ (c # except /\ input[c].status = "runs" /\ input[c].step > 1 /\ page.focus # form.focus)]]

\* MaxCalls of the calls are made.
Made(c) == input[c].status # "idle" \/ Cardinality({d \in InputCalls : input[d].status # "idle"}) < MaxCalls

BeginInput(c) ==
    /\ input[c].status = "idle" /\ Made(c)
    /\ Gesture(c) => busy = NoInput
    /\ input' = [input EXCEPT ![c].status = "runs"]
    /\ busy' = IF Gesture(c) THEN c ELSE busy
    /\ UNCHANGED <<form, alert, inputTurns>>

End(calls, c, status, verdict) == [calls EXCEPT ![c].status = status, ![c].verdict = verdict]

\* A turn of the queue: its own for each command of a fill, one for a gesture.
Turn(c) == input[c].status = "runs" /\ busy = (IF Gesture(c) THEN c ELSE NoInput)

\* A command is performed.  The field is looked at once it is prepared.
PerformCommand(c) ==
    /\ Turn(c) /\ ~alert /\ CommandAt(c) # "verify"
    /\ CommandAt(c) = "look" => Focused
    /\ form' = Effect(c)
    /\ LET moved == Moves(form', c)
           prepared == CommandAt(c) \in {"select", "toEnd", "look"}
           next == [moved EXCEPT ![c].step = @ + 1,
                                 ![c].before = IF prepared THEN [text |-> form'.text[form'.focus], all |-> form'.all[form'.focus]] ELSE @,
                                 ![c].touched = @ \/ ~(prepared \/ CommandAt(c) = "focus")]
       IN  input' = IF AtLast(c) THEN End(next, c, "done", "completed") ELSE next
    /\ busy' = IF AtLast(c) THEN NoInput ELSE busy
    /\ UNCHANGED <<alert, inputTurns>>

\* The text is read back: a mismatch is an error like any other, whose outcome
\* the runtime calls unknown.
Verify(c) ==
    /\ Turn(c) /\ ~alert /\ CommandAt(c) = "verify"
    /\ input' = IF TextVerified(c) THEN [End(input, c, "done", "completed") EXCEPT ![c].left = form.text[TargetOf[c]]]
                               ELSE End(input, c, "failed", "unknown")
    /\ UNCHANGED <<form, busy, alert, inputTurns>>

\* executeCdp, CommandHealth.run: with a dialog open, or while the turn of
\* another call does not end, a command does not start; and a field that
\* browser_type finds no focus for.
RefuseInput(c) ==
    /\ Made(c) /\ input[c].status \in {"idle", "runs"} /\ (Gesture(c) => input[c].status = "idle")
    /\ \/ alert /\ ~Gesture(c)
       \/ busy \notin {NoInput, c}
    /\ input' = End(input, c, "failed", "not_started")
    /\ UNCHANGED <<form, busy, alert, inputTurns>>

NothingFocused(c) ==
    /\ Turn(c) /\ ~alert /\ CommandAt(c) = "look" /\ ~Focused
    /\ input' = End(input, c, "failed", "unknown")
    /\ UNCHANGED <<form, busy, alert, inputTurns>>

\* partialDispatchError: what a refused command of a gesture leaves behind.
Partial_IgnoresEarlier(c) == "not_started"
Partial(c) == IF input[c].step = 1 THEN "not_started" ELSE "unknown"

\* The frame of the command is gone, or the debugger.
Reject(c) ==
    /\ Turn(c) /\ inputTurns > 0 /\ inputTurns' = inputTurns - 1
    /\ input' = End(input, c, "failed", IF Gesture(c) THEN Partial(c) ELSE "not_started")
    /\ busy' = NoInput
    /\ UNCHANGED <<form, alert>>

\* CommandHealth.run: the deadline passes while the command is under way.  The
\* call fails; the tab takes no other command until this one settles.
ExpireInput(c) ==
    /\ Turn(c) /\ inputTurns > 0 /\ inputTurns' = inputTurns - 1
    /\ input' = End(input, c, "failed", "unknown")
    /\ busy' = c
    /\ UNCHANGED <<form, alert>>

SettleInput(c) ==
    /\ busy = c /\ input[c].status = "failed" /\ ~alert
    /\ form' \in {form, Effect(c)}
    /\ input' = Moves(form', c)
    /\ busy' = NoInput
    /\ UNCHANGED <<alert, inputTurns>>

\* The page or its user moves the focus, a script opens a dialog, an agent closes it.
PageMoves ==
    /\ inputTurns > 0 /\ inputTurns' = inputTurns - 1
    /\ \E f \in Editables \cup {NoEditable} : f # form.focus /\ form' = [form EXCEPT !.focus = f]
    /\ input' = Moves(form', NoInput)
    /\ UNCHANGED <<busy, alert>>

OpenDialog ==
    /\ ~alert /\ inputTurns > 0 /\ inputTurns' = inputTurns - 1
    /\ alert' = TRUE
    /\ UNCHANGED <<form, input, busy>>

CloseDialog ==
    /\ alert
    /\ alert' = FALSE
    /\ UNCHANGED <<form, input, busy, inputTurns>>

PageInputNext ==
    \/ \E c \in InputCalls : BeginInput(c) \/ PerformCommand(c) \/ Verify(c) \/ RefuseInput(c) \/ NothingFocused(c)
                           \/ Reject(c) \/ ExpireInput(c) \/ SettleInput(c)
    \/ PageMoves \/ OpenDialog \/ CloseDialog

-----------------------------------------------------------------------------
PageInputTypeOK ==
    /\ form.focus \in Editables \cup {NoEditable} /\ form.held \subseteq {"key", "modifier", "button"}
    /\ form.all \in [Editables -> BOOLEAN]
    /\ \A f \in Editables : Range(form.text[f]) \subseteq InputCalls \cup {"page"}
    /\ \A c \in InputCalls : /\ input[c].status \in {"idle", "runs", "done", "failed"}
                             /\ input[c].verdict \in {"none", "completed", "not_started", "unknown"}
    /\ busy \in InputCalls \cup {NoInput} /\ alert \in BOOLEAN /\ inputTurns \in 0..MaxInputTurns

\* executeInputGesture, execution-state.ts: a button or a modifier that stays
\* down is that of a gesture under way, or of one whose outcome was called
\* unknown; a gesture that is said not to have started pressed nothing.
HeldIsAccounted ==
    \A k \in {"modifier", "button"} \cap form.held :
        \E c \in InputCalls :
            /\ KindOf[c] = (IF k = "button" THEN "drag" ELSE "chord")
            /\ busy = c \/ input[c].verdict = "unknown"

\* interaction-runtime.ts: a fill that succeeds left its text, and no other,
\* in the field it was asked to fill, whatever other calls write there
\* meanwhile; but for a focus that moved in between.
FillIsExact ==
    \A c \in InputCalls :
        Replaces(c) /\ input[c].status = "done" /\ ~input[c].moved => input[c].left = Wanted(c)

\* Not so: a fill is verified where the focus is, which may be another field.
FillIsExactAnyway ==
    \A c \in InputCalls : Replaces(c) /\ input[c].status = "done" => input[c].left = Wanted(c)

\* Not so: a call that is said not to have started changed nothing ("a later
\* preflight rejection cannot undo earlier commands in the same action",
\* execution-state.ts:3).  A fill whose later command is refused did.
NotStartedChangedNothing ==
    \A c \in InputCalls : input[c].verdict = "not_started" => ~input[c].touched
=============================================================================
