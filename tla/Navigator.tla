------------------------------- MODULE Navigator -------------------------------
(* The /workflows navigator of src/workflow-ui.ts: a stack of views over runs that come, go  *)
(* and change their place while it is open, keys that act on what is under the cursor, and    *)
(* the delayed redraws of the agent whose activity is shown.  A run has one phase here, an     *)
(* entry of an agent's history is a block of its detail, and rendering is what it depends on.  *)
EXTENDS Integers, Sequences, FiniteSets, SequencesExt

CONSTANTS
    ShownRuns,    \* runs the list may have
    Agents,       \* ids of agents in a run
    Saved,        \* saved workflows: each name once, as list() gives them
    NoView,       \* no run, no agent
    MaxHistory, MaxChanges  \* bounds: entries of a history, changes of the list

ASSUME NavigatorAssumption ==
    /\ IsFiniteSet(Agents)
    /\ Saved \in Seq(ToSet(Saved)) /\ IsInjective(Saved)
    /\ MaxHistory \in Nat /\ MaxChanges \in Nat

VARIABLES
    listing,     \* the runs of the session, in the order of the list
    runStatus,   \* their states
    history,     \* entries in the history of an agent of a run
    saved,       \* saved workflows that exist
    stack,       \* frames: kind, cursor, run, agent
    pager,       \* the detail: open, tailing, expanded
    open,        \* the overlay is there
    drawn,       \* history entries of the shown agent at the last redraw
    redraw,      \* the timer of a delayed redraw, with its target
    resuming,    \* runs the navigator has called resume() for
    changes
navigatorVars == <<listing, runStatus, history, saved, stack, pager, open, drawn, redraw, resuming, changes>>

NoPager == [open |-> FALSE, tailing |-> FALSE, expanded |-> FALSE]
Frame(k, r, a) == [kind |-> k, cursor |-> 0, run |-> r, agent |-> a]

NavigatorInit ==
    /\ listing \in {s \in SeqOf(ShownRuns, 2) : Len(s) = 1}
    /\ runStatus \in {f \in [ShownRuns -> {"running", "paused", "failed"}] :
                        \A r \in ShownRuns : ~Contains(listing, r) => f[r] = "running"}
    /\ history = [r \in ShownRuns |-> [a \in Agents |-> 0]]
    /\ saved = Saved
    /\ stack = <<Frame("runs", NoView, NoView)>> /\ pager = NoPager /\ open = TRUE
    /\ drawn = 0 /\ redraw = [set |-> FALSE, run |-> NoView, agent |-> NoView]
    /\ resuming = {} /\ changes = 0

Top == Last(stack)
Shows(r, a) == Top.kind = "detail" /\ Top.run = r /\ Top.agent = a

BlocksOf(f) == IF f.kind = "detail" /\ Contains(listing, f.run) THEN history[f.run][f.agent] ELSE 0

\* currentCount().
CountOf(f) ==
    CASE f.kind = "runs" -> Len(listing) + Len(saved)
      [] f.kind = "phases" -> IF Contains(listing, f.run) THEN 1 ELSE 0
      [] f.kind = "agents" -> IF Contains(listing, f.run) THEN Cardinality(Agents) ELSE 0
      [] OTHER -> BlocksOf(f)

Clamped(c, n) == IF n <= 0 THEN 0 ELSE IF c > n - 1 THEN n - 1 ELSE IF c < 0 THEN 0 ELSE c

\* renderNavigatorFrame(): clamps the cursor, or moves it to the last block of a detail that
\* follows its agent, and shows the history as it is.
Render(s, p) ==
    LET f == Last(s)
        n == CountOf(f)
        wanted == IF f.kind = "detail" /\ p.tailing THEN n - 1 ELSE f.cursor
    IN /\ stack' = [s EXCEPT ![Len(s)].cursor = IF f.kind = "savedDetail" THEN 0 ELSE Clamped(wanted, n)]
       /\ pager' = p
       /\ drawn' = BlocksOf(f)

Moved(s, p) ==
    /\ open /\ Render(s, p)
    /\ UNCHANGED <<listing, runStatus, history, saved, open, redraw, resuming, changes>>

SetCursor(c) == [stack EXCEPT ![Len(stack)].cursor = c]

\* Cursor keys.  In a detail they open the pager and stop at the ends; lists wrap around.
Move(delta) ==
    LET n == CountOf(Top)
        next == Clamped(Top.cursor + delta, n)
    IN IF Top.kind = "detail"
       THEN Moved(SetCursor(IF n <= 0 THEN Top.cursor ELSE next),
                  [open |-> TRUE,
                   tailing |-> pager.tailing /\ delta > 0,
                   expanded |-> pager.expanded /\ (n <= 0 \/ next = Top.cursor)])
       ELSE Moved(IF n <= 0 \/ Top.kind = "savedDetail" THEN stack
                          ELSE SetCursor((Top.cursor + delta + n) % n), pager)

\* Page keys: as Move in a detail, without wrapping around elsewhere.
Page(delta) ==
    IF Top.kind = "detail" THEN Move(delta)
    ELSE Moved(IF Top.kind = "savedDetail" THEN stack
               ELSE SetCursor(Clamped(Top.cursor + delta, CountOf(Top))), pager)

\* Home and End; End follows the agent.
Jump(edge) ==
    LET n == CountOf(Top)
    IN Moved(SetCursor(IF edge = "start" \/ n <= 0 THEN 0 ELSE n - 1),
             IF Top.kind = "detail" THEN [open |-> TRUE, tailing |-> edge = "end", expanded |-> FALSE]
             ELSE pager)

ToggleTail ==
    /\ Top.kind = "detail"
    /\ Moved(stack, [open |-> TRUE, tailing |-> ~pager.tailing, expanded |-> FALSE])

OpenPager ==
    /\ Top.kind = "detail"
    /\ IF pager.open THEN Moved(stack, pager)
       ELSE Moved(SetCursor(0), [pager EXCEPT !.open = TRUE, !.expanded = FALSE])

\* Enter: opens the pager, or expands the block under the cursor.
TogglePager ==
    IF Top.kind = "detail" /\ pager.open THEN Moved(stack, [pager EXCEPT !.expanded = ~@])
    ELSE OpenPager

\* drill(): the item under the cursor as the list is now, if there is one.
Below ==
    LET c == Top.cursor + 1
    IN CASE Top.kind = "runs" ->
              IF c <= Len(listing) THEN {Frame("phases", listing[c], NoView)}
              ELSE IF c - Len(listing) <= Len(saved) THEN {Frame("savedDetail", NoView, saved[c - Len(listing)])}
              ELSE {}
         [] Top.kind = "phases" -> IF c <= CountOf(Top) THEN {Frame("agents", Top.run, NoView)} ELSE {}
         [] Top.kind = "agents" ->
              IF c <= CountOf(Top) THEN {Frame("detail", Top.run, SetToSeq(Agents)[c])} ELSE {}
         [] OTHER -> {}

Drill == \E f \in Below :
    Moved(Append(stack, f), IF f.kind \in {"detail", "savedDetail"} THEN NoPager ELSE pager)

\* back(): the pager first, then a view; at the top the navigator closes.
Closes ==
    /\ open /\ open' = FALSE
    /\ redraw' = [set |-> FALSE, run |-> NoView, agent |-> NoView]
    /\ UNCHANGED <<listing, runStatus, history, saved, stack, pager, drawn, resuming, changes>>
Back ==
    IF Top.kind = "detail" /\ pager.open THEN Moved(stack, NoPager)
    ELSE IF Len(stack) > 1 THEN Moved(Front(stack), NoPager)
    ELSE Closes

\* activeRunId(): the run of the view, or the one under the cursor of the list.
ActiveRun ==
    CASE Top.run # NoView -> {Top.run}
      [] Top.kind = "runs" /\ Top.cursor < Len(listing) -> {listing[Top.cursor + 1]}
      [] OTHER -> {}

\* p, x and r: pause() takes a run that runs, stop() also a paused one; restart starts a new
\* run in the place of one that is over.
Command(r, to) ==
    /\ open /\ r \in ActiveRun /\ Contains(listing, r)
    /\ runStatus[r] = "running" \/ (to = "aborted" /\ runStatus[r] = "paused")
    /\ runStatus' = [runStatus EXCEPT ![r] = to]
    /\ Render(stack, pager)
    /\ UNCHANGED <<listing, history, saved, open, redraw, resuming, changes>>

RunAgain(r, fresh) ==
    /\ open /\ r \in ActiveRun /\ Contains(listing, r)
    /\ runStatus[r] \notin {"running", "paused"}
    /\ ~Contains(listing, fresh) /\ \A a \in Agents : history[fresh][a] = 0
    /\ changes < MaxChanges /\ changes' = changes + 1
    /\ listing' = <<fresh>> \o listing
    /\ runStatus' = [runStatus EXCEPT ![fresh] = "running"]
    /\ Render(stack, pager)
    /\ UNCHANGED <<history, saved, open, redraw, resuming>>

\* u: one resume() at a time for a run that is paused or has failed; its answer comes later,
\* and may be a refusal.
AskResume(r) ==
    /\ open /\ r \in ActiveRun /\ Contains(listing, r)
    /\ runStatus[r] \in {"paused", "failed"} /\ r \notin resuming
    /\ resuming' = resuming \cup {r}
    /\ Render(stack, pager)
    /\ UNCHANGED <<listing, runStatus, history, saved, open, redraw, changes>>
ResumeReturns(r) ==
    /\ r \in resuming /\ resuming' = resuming \ {r}
    /\ \/ UNCHANGED runStatus
       \/ runStatus[r] \in {"paused", "failed"} /\ runStatus' = [runStatus EXCEPT ![r] = "running"]
    /\ IF open THEN Render(stack, pager) ELSE UNCHANGED <<stack, pager, drawn>>
    /\ UNCHANGED <<listing, history, saved, open, redraw, changes>>

\* x on a saved workflow, in the list or in its own view.
DeleteSaved ==
    LET i == Top.cursor + 1 - Len(listing)
        item == IF Top.kind = "savedDetail" THEN {Top.agent}
                ELSE IF Top.kind = "runs" /\ i \in 1 .. Len(saved) THEN {saved[i]} ELSE {}
    IN /\ open
       /\ \E k \in 1 .. Len(saved) : saved[k] \in item /\ saved' = RemoveAt(saved, k)
       /\ IF Top.kind = "savedDetail" THEN Render(Front(stack), NoPager) ELSE Render(stack, pager)
       /\ UNCHANGED <<listing, runStatus, history, open, redraw, resuming, changes>>

\* The list changes: a run starts (the newest is the first), or is deleted, or pruned.  The
\* events of a start or an end redraw; a pruned run is only missed at the next redraw.
RunAppears(r) ==
    /\ ~Contains(listing, r) /\ \A a \in Agents : history[r][a] = 0
    /\ changes < MaxChanges /\ changes' = changes + 1
    /\ listing' = <<r>> \o listing
    /\ runStatus' = [runStatus EXCEPT ![r] = "running"]
    /\ UNCHANGED <<history, saved, stack, pager, open, drawn, redraw, resuming>>
RunVanishes(r) ==
    /\ \E i \in 1 .. Len(listing) : listing[i] = r /\ listing' = RemoveAt(listing, i)
    /\ changes < MaxChanges /\ changes' = changes + 1
    /\ UNCHANGED <<runStatus, history, saved, stack, pager, open, drawn, redraw, resuming>>
LifecycleEvent ==
    /\ open /\ Render(stack, pager)
    /\ UNCHANGED <<listing, runStatus, history, saved, open, redraw, resuming, changes>>

\* Mutant: the timer keeps the target it was set for.
FirstTarget(r, a) == IF redraw.set THEN redraw ELSE [set |-> TRUE, run |-> r, agent |-> a]
\* onAgentHistory(): the newest matching event is the target, under one timer.
Target(r, a) == [set |-> TRUE, run |-> r, agent |-> a]

AgentHistory(r, a) ==
    /\ Contains(listing, r) /\ history[r][a] < MaxHistory
    /\ history' = [history EXCEPT ![r][a] = @ + 1]
    /\ redraw' = IF open /\ Shows(r, a) THEN Target(r, a) ELSE redraw
    /\ UNCHANGED <<listing, runStatus, saved, stack, pager, open, drawn, resuming, changes>>

RedrawTimer ==
    /\ redraw.set /\ redraw' = [set |-> FALSE, run |-> NoView, agent |-> NoView]
    /\ IF Shows(redraw.run, redraw.agent) THEN Render(stack, pager)
       ELSE UNCHANGED <<stack, pager, drawn>>
    /\ UNCHANGED <<listing, runStatus, history, saved, open, resuming, changes>>

-----------------------------------------------------------------------------
NavigatorNext ==
    \/ \E d \in {-1, 1} : Move(d)
    \/ \E d \in {-2, 2} : Page(d)
    \/ \E e \in {"start", "end"} : Jump(e)
    \/ ToggleTail \/ OpenPager \/ TogglePager \/ Drill \/ Back \/ Closes
    \/ DeleteSaved \/ LifecycleEvent \/ RedrawTimer
    \/ \E r \in ShownRuns, to \in {"paused", "aborted"} : Command(r, to)
    \/ \E r, s \in ShownRuns : RunAgain(r, s)
    \/ \E r \in ShownRuns : AskResume(r) \/ ResumeReturns(r) \/ RunAppears(r) \/ RunVanishes(r)
    \/ \E r \in ShownRuns, a \in Agents : AgentHistory(r, a)

NavigatorSpec == NavigatorInit /\ [][NavigatorNext]_navigatorVars

-----------------------------------------------------------------------------
\* What the detail of an agent shows is older than its history, or does not follow it.
Behind(r, a) ==
    /\ open /\ Shows(r, a) /\ Contains(listing, r)
    /\ drawn # history[r][a] \/ (pager.tailing /\ Top.cursor + 1 < history[r][a])

\* Activity of an agent whose detail is open is on the screen, and under the cursor of a
\* detail that follows it, or the redraw timer is set for that very agent, also when the view
\* has changed, or a redraw was waiting for another agent, in between.
ActivityIsShown ==
    \A r \in ShownRuns, a \in Agents :
        Behind(r, a) => redraw = [set |-> TRUE, run |-> r, agent |-> a]
================================================================================
