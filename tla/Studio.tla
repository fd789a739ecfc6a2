------------------------------- MODULE Studio -------------------------------
(* The owner's studio in one browser tab: the settings form, the list of     *)
(* canvases and the freeze button (StudioDashboardBody.tsx), the crisis      *)
(* console (CrisisController.tsx, CrisisSelector.tsx) and the creation page  *)
(* (CreateCanvasPage.tsx).  A React component keeps its state for as long as *)
(* it stays mounted, whatever canvas its props come to name; an answer that  *)
(* comes after it was unmounted changes nothing of it.  Whoever else writes  *)
(* the same rows is in the Elsewhere actions.                                *)
EXTENDS Integers, FiniteSets, TLC

CONSTANTS
    Canvases,       \* the canvases the owner has or may create
    Titles, Blank,  \* canvas names, and the empty input
    Owner, Helpers, \* the session's user, and the active moderators
    AuthorOn,       \* canvas -> cell -> who authorAt names; Nil on an empty cell
    Nil,            \* null, undefined, or a field left out
    StudioQuotas    \* the budgets of events a behaviour may use

MaxSize == 2        \* bound: the size presets are 1 and 2
Square(n) == (0..n - 1) \X (0..n - 1)

VARIABLES
    rows,           \* Convex: canvas -> [name, size, public, open], and `outside`:
                    \* what is painted past the smallest frame, "drained" into
                    \* rows of `placements` or accepted and still "streamed"
    active,         \* Convex: the owner's active canvas
    removals,       \* Convex: reversible audit rows, [id, canvas, restored]
    docs,           \* what the queries last rendered gave
    page,           \* [at: "dashboard" | "create", id: its mount]
    form,           \* CanvasConfigSection
    crisis,         \* the dashboard's [freezing, mode] and the selector's corner
    desk,           \* CrisisController; id 0 when it is not mounted
    creating,       \* CreateCanvasForm
    dispatched,     \* calls under way
    mounts,         \* how many components have been mounted
    quota,
    agreed,         \* (history) crops the owner confirmed in a dialog
    cropped         \* (history) crops of drained pixels the server carried out

durableVars == <<rows, active, removals>>
historyVars == <<agreed, cropped>>
studioVars == <<durableVars, docs, page, form, crisis, desk, creating, dispatched, mounts,
                quota, historyVars>>

Spend(what) == /\ what \in DOMAIN quota /\ quota[what] > 0
               /\ quota' = [quota EXCEPT ![what] = @ - 1]
Free == UNCHANGED quota

----------------------------------------------------------------------------
(* The marquee (crisisSelection.ts): corners to cells, clamped to the board. *)

Between(p, q, r) == (p <= q /\ q <= r) \/ (r <= q /\ q <= p)
RectCells(a, b, n) == {c \in Square(n) : Between(a[1], c[1], b[1]) /\ Between(a[2], c[2], b[2])}

Least(p, q) == IF p <= q THEN p ELSE q
Most(p, q) == IF p <= q THEN q ELSE p
(* One axis of clampedRect: the first and the last index inside the board.   *)
Span(p, q, n) == <<Least(p, q), Least(Most(p, q), n - 1)>>
Length(span) == IF span[2] < span[1] THEN 0 ELSE span[2] - span[1] + 1
RectCellCount(a, b, n) == Length(Span(a[1], b[1], n)) * Length(Span(a[2], b[2], n))

(* The outline drawn while the marquee grows: two rows, then two columns.    *)
RectOutline(a, b, n) ==
    LET x == Span(a[1], b[1], n)
        y == Span(a[2], b[2], n)
    IN  IF Length(x) = 0 \/ Length(y) = 0 THEN {}
        ELSE ((x[1]..x[2]) \X {y[1], y[2]}) \cup ({x[1], x[2]} \X (y[1] + 1..y[2] - 1))

(* wipeIsLarge: more cells than a fixed floor, or a quarter of the board.    *)
WipeIsLarge(count, n) == count > 0 /\ (count > 1000 \/ 4 * count >= n * n)

(* The count that is announced, the outline that is drawn and the cells that *)
(* are sent are those of one rectangle, also past the edge of the board; and *)
(* the warning never misses a wipe of the whole of it.                       *)
ASSUME MarqueeAgrees ==
    \A n \in 1..3, a \in Square(4), b \in Square(4) :
        LET cells == RectCells(a, b, n)
            inner == {c \in cells : \A dx, dy \in {-1, 1} :
                          /\ <<c[1] + dx, c[2]>> \in cells /\ <<c[1], c[2] + dy>> \in cells}
        IN  /\ RectCellCount(a, b, n) = Cardinality(cells)
            /\ RectOutline(a, b, n) = cells \ inner
            /\ cells = Square(n) => WipeIsLarge(Cardinality(cells), n)

----------------------------------------------------------------------------
(* What the tab starts from: on a large board that players have painted, and *)
(* the worker has drained, unless a behaviour is to drain it itself (bound). *)

NoForm == [id |-> 0, name |-> Blank, size |-> 1, public |-> FALSE, save |-> "idle",
           shrink |-> Nil, timers |-> 0]
NoDesk == [id |-> 0, pick |-> Nil, target |-> Nil, region |-> Nil, row |-> Nil,
           restored |-> {}, pending |-> FALSE, restoring |-> Nil, mods |-> FALSE]
NoCrisis == [freezing |-> Nil, mode |-> Nil, corner |-> Nil]
NotCreating == [name |-> Blank, size |-> Nil, public |-> Nil, submitting |-> FALSE]

Results == [active |-> active, rows |-> rows, removals |-> removals]
Shown(d) == d.rows[d.active]
(* useState(canvas.title) and its siblings: read once, at the mount.         *)
FormFor(d, id) == [NoForm EXCEPT !.id = id, !.name = Shown(d).name, !.size = Shown(d).size,
                                 !.public = Shown(d).public]
DeskFor(d, id) == IF Shown(d).open THEN NoDesk ELSE [NoDesk EXCEPT !.id = id]

StudioStart(owned, size, open, outside) ==
    /\ rows = [c \in owned |-> [name |-> c, size |-> size, public |-> FALSE,
                                open |-> open, outside |-> outside]]
    /\ active \in owned
    /\ removals = {} /\ docs = Results /\ page = [at |-> "dashboard", id |-> 1]
    /\ form = FormFor(docs, 2) /\ desk = DeskFor(docs, 3) /\ mounts = 3
    /\ crisis = NoCrisis /\ creating = NotCreating /\ dispatched = {}
    /\ agreed = {} /\ cropped = {}
StudioInit ==
    /\ quota \in StudioQuotas
    /\ \E owned \in SUBSET Canvases \ {{}}, size \in 1..MaxSize, open \in BOOLEAN :
          StudioStart(owned, size, open,
                      IF size > 1 /\ "drain" \notin DOMAIN quota THEN {"drained"} ELSE {})

(* The queries' results reach the tab: the form keeps its state whatever the *)
(* active canvas is now; the console lives while that canvas is frozen.      *)
StudioRender ==
    /\ docs # Results /\ page.at = "dashboard" /\ Free
    /\ docs' = Results
    /\ desk' = IF Shown(docs').open THEN NoDesk
               ELSE IF desk.id = 0 THEN DeskFor(docs', mounts + 1) ELSE desk
    /\ mounts' = IF desk'.id > mounts THEN mounts + 1 ELSE mounts
    /\ crisis' = IF desk'.id = 0 THEN [crisis EXCEPT !.corner = Nil] ELSE crisis
    /\ UNCHANGED <<durableVars, page, form, creating, dispatched, historyVars>>

Send(kind, canvas, arg, by) ==
    dispatched' = dispatched \cup
        {[kind |-> kind, canvas |-> canvas, arg |-> arg, by |-> by, outcome |-> "none"]}
TabOnly == UNCHANGED <<durableVars, docs, mounts>>

----------------------------------------------------------------------------
(* The settings form (CanvasConfigSection).                                  *)

FormKept == UNCHANGED <<crisis, desk, creating, page, historyVars>>
FormUp == page.at = "dashboard"
(* ShrinkConfirmDialog is up: its Escape listener keeps the first render's   *)
(* "not pending", so that it may be left while the confirmed save is under   *)
(* way.                                                                      *)
ShrinkAsked == FormUp /\ form.shrink # Nil

EditForm(f) ==
    /\ FormUp /\ Spend("edit")
    /\ f # form /\ form' = f
    /\ TabOnly /\ FormKept /\ UNCHANGED dispatched

(* handleSubmit: a blank name and whatever equals the row are left out - but *)
(* the title is sent even when it was not edited.  The button shows only when *)
(* something differs from the row; Enter in the name field needs no button.  *)
Changed(value, was) == IF value = was THEN Nil ELSE value
SubmitForm ==
    /\ FormUp /\ form.save # "saving" /\ Spend("press")
    /\ form' = [form EXCEPT !.save = "saving"]
    /\ Send("save", docs.active,
            [name |-> Changed(form.name, Blank), public |-> Changed(form.public, Shown(docs).public),
             size |-> Changed(form.size, Shown(docs).size), confirmed |-> FALSE], form.id)
    /\ TabOnly /\ FormKept

(* (mutated) the confirmed save goes to the canvas now shown.                *)
ConfirmShrinkHere ==
    /\ ShrinkAsked /\ form.save # "saving" /\ Spend("press")
    /\ form' = [form EXCEPT !.save = "saving"]
    /\ Send("save", docs.active, [form.shrink.arg EXCEPT !.confirmed = TRUE], form.id)
    /\ agreed' = agreed \cup {[canvas |-> form.shrink.canvas, size |-> form.shrink.arg.size]}
    /\ TabOnly /\ UNCHANGED <<crisis, desk, creating, page, cropped>>

(* handleShrinkConfirm: the very save the server asked about, once more.     *)
ConfirmShrink ==
    /\ ShrinkAsked /\ form.save # "saving" /\ Spend("press")
    /\ form' = [form EXCEPT !.save = "saving"]
    /\ Send("save", form.shrink.canvas, [form.shrink.arg EXCEPT !.confirmed = TRUE], form.id)
    /\ agreed' = agreed \cup {[canvas |-> form.shrink.canvas, size |-> form.shrink.arg.size]}
    /\ TabOnly /\ UNCHANGED <<crisis, desk, creating, page, cropped>>

CancelShrink ==
    /\ ShrinkAsked /\ Free
    /\ form' = [form EXCEPT !.shrink = Nil, !.size = Shown(docs).size]
    /\ TabOnly /\ FormKept /\ UNCHANGED dispatched

(* The 2 s timer of a finished save, also when another one is under way.     *)
SavedTimer ==
    /\ form.timers > 0 /\ Free
    /\ form' = [form EXCEPT !.timers = @ - 1, !.save = "idle"]
    /\ TabOnly /\ FormKept /\ UNCHANGED dispatched

SaveAnswered(call) ==
    form' = IF call.by # form.id THEN form
            ELSE CASE call.outcome = "ask" ->
                          [form EXCEPT !.save = "idle",
                                       !.shrink = [canvas |-> call.canvas, arg |-> call.arg]]
                   [] call.outcome = "ok" ->
                          [form EXCEPT !.save = "saved", !.timers = @ + 1,
                                       !.shrink = IF call.arg.confirmed THEN Nil ELSE @]
                   [] OTHER ->
                          [form EXCEPT !.save = "error",
                                       !.shrink = IF call.arg.confirmed THEN Nil ELSE @]

----------------------------------------------------------------------------
(* The list of canvases, the freeze button and the creation page.            *)

(* reactivate, once the browser's own confirm was accepted; nothing awaits   *)
(* the answer.                                                               *)
Archived == DOMAIN docs.rows \ {docs.active}
Reactivate(c) ==
    /\ FormUp /\ c \in Archived /\ Spend("press")
    /\ Send("activate", c, Nil, 0)
    /\ TabOnly /\ FormKept /\ UNCHANGED form

(* The one-gesture control: freeze while open, reopen while frozen, dead only*)
(* while that very action is under way; reopening leaves the selection mode. *)
PanicControl(open) == IF open THEN "freeze" ELSE "reopen"
ToggleFreeze ==
    LET on == Shown(docs).open
        id == PanicControl(on)
    IN  /\ FormUp /\ crisis.freezing # id /\ Spend("freeze")
        /\ crisis' = [crisis EXCEPT !.freezing = id, !.mode = IF on THEN @ ELSE Nil]
        /\ Send("freeze", docs.active, on, page.id)
        /\ TabOnly /\ UNCHANGED <<desk, creating, page, form, historyVars>>

(* Another page unmounts the dashboard with all its state.                   *)
OpenCreate ==
    /\ FormUp /\ Spend("visit")
    /\ page' = [at |-> "create", id |-> mounts + 1] /\ mounts' = mounts + 1
    /\ form' = NoForm /\ desk' = NoDesk /\ crisis' = NoCrisis /\ creating' = NotCreating
    /\ UNCHANGED <<durableVars, docs, dispatched, historyVars>>

EditCreation(f) ==
    /\ page.at = "create" /\ Spend("edit")
    /\ f # creating /\ creating' = f
    /\ TabOnly /\ UNCHANGED <<form, crisis, desk, page, dispatched, historyVars>>

(* buildCreateArgs leaves out what was never touched.                        *)
CreateArgs == [name |-> Changed(creating.name, Blank), size |-> creating.size,
               public |-> creating.public]
SubmitCreation ==
    /\ page.at = "create" /\ ~creating.submitting /\ Spend("press")
    /\ creating' = [creating EXCEPT !.submitting = TRUE]
    /\ Send("create", Nil, CreateArgs, page.id)
    /\ TabOnly /\ UNCHANGED <<form, crisis, desk, page, historyVars>>

(* The dashboard mounts: by the browser's back, or when a creation answers.  *)
Land ==
    LET n == mounts IN
    /\ docs' = Results
    /\ page' = [at |-> "dashboard", id |-> n + 1]
    /\ form' = FormFor(docs', n + 2) /\ desk' = DeskFor(docs', n + 3) /\ mounts' = n + 3
    /\ crisis' = NoCrisis /\ creating' = NotCreating
BackToDashboard ==
    /\ page.at = "create" /\ Free /\ Land
    /\ UNCHANGED <<durableVars, dispatched, historyVars>>

----------------------------------------------------------------------------
(* The crisis console.                                                       *)

DeskUp == FormUp /\ desk.id # 0
DeskKept == UNCHANGED <<form, creating, page, historyVars>>
Aim(d, m, c) == desk' = d /\ crisis' = [crisis EXCEPT !.mode = m, !.corner = c]
Still == TabOnly /\ DeskKept /\ UNCHANGED dispatched

(* CrisisPanel's buttons; a change of mode forgets the first corner.         *)
ChooseMode(m) ==
    /\ DeskUp /\ crisis.mode # m /\ Spend("press")
    /\ Aim(desk, m, Nil) /\ Still

(* pick: a tap or Enter on a cell of the selector's own board.               *)
PickCell(c) ==
    /\ DeskUp /\ crisis.mode # Nil /\ c \in Square(Shown(docs).size) /\ Spend("pick")
    /\ CASE crisis.mode = "ban" -> Aim([desk EXCEPT !.pick = c], "ban", crisis.corner)
         [] crisis.mode = "wipe" /\ crisis.corner = Nil -> Aim(desk, "wipe", c)
         [] OTHER -> Aim([desk EXCEPT !.region = RectCells(crisis.corner, c, Shown(docs).size)],
                         "wipe", Nil)
    /\ Still

(* The effect that waits for authorAt: nobody, or somebody protected, gives  *)
(* the pick up; a moderator is protected once their list has come.           *)
Protected(u) == u = Owner \/ (desk.mods /\ u \in Helpers)
AuthorResolves ==
    /\ DeskUp /\ desk.pick # Nil /\ desk.target = Nil /\ Free
    /\ LET u == AuthorOn[docs.active][desk.pick]
       IN  desk' = IF u = Nil \/ Protected(u) THEN [desk EXCEPT !.pick = Nil]
                   ELSE [desk EXCEPT !.target = u]
    /\ UNCHANGED crisis /\ Still
HelpersLoad ==
    /\ DeskUp /\ ~desk.mods /\ desk.pick # Nil /\ Free
    /\ desk' = [desk EXCEPT !.mods = TRUE]
    /\ UNCHANGED crisis /\ Still

(* What a dialog shows was picked on the canvas of then; what it confirms is *)
(* sent to the canvas of now.                                                *)
DialogAccepts == ~desk.pending
CanConfirm == desk.region \notin {Nil, {}}
ConfirmBan ==
    /\ DeskUp /\ desk.target # Nil /\ DialogAccepts /\ Spend("press")
    /\ desk' = [desk EXCEPT !.pending = TRUE]
    /\ Send("ban", docs.active, desk.target, desk.id)
    /\ TabOnly /\ DeskKept /\ UNCHANGED crisis
ConfirmWipe ==
    /\ DeskUp /\ CanConfirm /\ DialogAccepts /\ Spend("press")
    /\ desk' = [desk EXCEPT !.pending = TRUE]
    /\ Send("wipe", docs.active, desk.region, desk.id)
    /\ TabOnly /\ DeskKept /\ UNCHANGED crisis

(* A clean or a pending answer closes the dialog - whatever it names by now -*)
(* and the mode; any other keeps both for a retry.  The mode is the          *)
(* dashboard's and goes also when the console has been remounted since.      *)
Completes(outcome) == outcome \in {"clean", "pending"}
RemovalAnswered(call) ==
    LET done == Completes(call.outcome)
    IN  /\ desk' = IF call.by # desk.id THEN desk
                   ELSE IF ~done THEN [desk EXCEPT !.pending = FALSE]
                   ELSE IF call.kind = "ban"
                   THEN [desk EXCEPT !.pending = FALSE, !.target = Nil, !.pick = Nil]
                   ELSE [desk EXCEPT !.pending = FALSE, !.region = Nil]
        /\ crisis' = IF done /\ call.by > page.id THEN [crisis EXCEPT !.mode = Nil] ELSE crisis

(* A surface of the two flows is up: the selector, or one of the dialogs.    *)
Leavable == crisis.mode # Nil \/ desk.target # Nil \/ desk.region # Nil

(* cancelMode: Annuler or Escape, in the selector or in a dialog; a call     *)
(* under way stays under way.                                                *)
CancelMode ==
    /\ DeskUp /\ Leavable /\ Free
    /\ Aim([desk EXCEPT !.pick = Nil, !.target = Nil, !.region = Nil], Nil, Nil)
    /\ Still

(* The undo list: rows of the active canvas not marked restored here.        *)
Undoable == {r.id : r \in {q \in docs.removals : q.canvas = docs.active}} \ desk.restored
OpenRestore(id) ==
    /\ DeskUp /\ id \in Undoable \ {desk.row, desk.restoring} /\ Free
    /\ desk' = [desk EXCEPT !.row = id]
    /\ UNCHANGED crisis /\ Still
CancelRestore ==
    /\ DeskUp /\ desk.row # Nil /\ Free
    /\ desk' = [desk EXCEPT !.row = Nil]
    /\ UNCHANGED crisis /\ Still
ConfirmRestore ==
    /\ DeskUp /\ desk.row # Nil /\ desk.restoring # desk.row /\ Spend("press")
    /\ desk' = [desk EXCEPT !.restoring = desk.row]
    /\ Send("restore", docs.active, desk.row, desk.id)
    /\ TabOnly /\ DeskKept /\ UNCHANGED crisis
RestoreAnswered(call) ==
    desk' = IF call.by # desk.id THEN desk
            ELSE [desk EXCEPT !.restoring = Nil, !.row = Nil,
                              !.restored = IF call.outcome = "error" THEN @ ELSE @ \cup {call.arg}]

----------------------------------------------------------------------------
(* Convex: one call at a time, each a transaction.                           *)

Served(call, outcome) ==
    /\ dispatched' = (dispatched \ {call}) \cup {[call EXCEPT !.outcome = outcome]}
    /\ UNCHANGED <<docs, page, form, crisis, desk, creating, mounts>>

(* updateCanvasConfig: refused once archived; a crop asks before it writes.  *)
(* It counts and purges the rows of `placements`: what is still in the stream *)
(* is cut without a question, and becomes a row past the frame afterwards.   *)
ServeSave(call) ==
    LET r == rows[call.canvas]
        a == call.arg
        shrinks == a.size # Nil /\ a.size < r.size
        counted == "drained" \in r.outside
    IN  /\ call.kind = "save" /\ Free
        /\ IF call.canvas # active
           THEN Served(call, "error") /\ UNCHANGED <<durableVars, historyVars>>
           ELSE IF shrinks /\ counted /\ ~a.confirmed
           THEN Served(call, "ask") /\ UNCHANGED <<durableVars, historyVars>>
           ELSE /\ rows' = [rows EXCEPT ![call.canvas] =
                              [@ EXCEPT !.name = IF a.name = Nil THEN @ ELSE a.name,
                                        !.public = IF a.public = Nil THEN @ ELSE a.public,
                                        !.size = IF a.size = Nil THEN @ ELSE a.size,
                                        !.outside = IF a.size \in {Nil, MaxSize} THEN @
                                                    ELSE @ \ {"drained"}]]
                /\ cropped' = IF shrinks /\ counted
                              THEN cropped \cup {[canvas |-> call.canvas, size |-> a.size]}
                              ELSE cropped
                /\ Served(call, "ok")
                /\ UNCHANGED <<active, removals, agreed>>

ServeActivate(call) ==
    /\ call.kind = "activate" /\ Free
    /\ active' = call.canvas /\ dispatched' = dispatched \ {call}
    /\ UNCHANGED <<rows, removals, docs, page, form, crisis, desk, creating, mounts, historyVars>>

ServeCreate(call, c) ==
    LET a == call.arg
        Or(value, default) == IF value = Nil THEN default ELSE value
    IN  /\ call.kind = "create" /\ c \in Canvases \ DOMAIN rows /\ Free
        /\ rows' = rows @@ (c :> [name |-> Or(a.name, c), size |-> Or(a.size, 1), open |-> TRUE,
                                  public |-> Or(a.public, FALSE), outside |-> {}])
        /\ active' = c
        /\ Served(call, "ok") /\ UNCHANGED <<removals, historyVars>>

ServeFreeze(call) ==
    /\ call.kind = "freeze" /\ Free
    /\ rows' = [rows EXCEPT ![call.canvas].open = ~call.arg]
    /\ Served(call, "ok") /\ UNCHANGED <<active, removals, historyVars>>

(* A removal records what it removes, then posts to the gateway, which may   *)
(* be absent; with nothing to remove it does neither.                        *)
ServeRemoval(call, outcome) ==
    /\ call.kind \in {"ban", "wipe"} /\ Free
    /\ outcome \in {"clean", "pending", "noop"}
    /\ removals' = IF outcome = "noop" THEN removals
                   ELSE removals \cup {[id |-> Cardinality(removals) + 1,
                                        canvas |-> call.canvas, restored |-> FALSE]}
    /\ Served(call, outcome) /\ UNCHANGED <<rows, active, historyVars>>

(* A restore takes the rows of its action on this canvas not yet restored.   *)
ServeRestore(call, outcome) ==
    LET due == {r \in removals : r.id = call.arg /\ r.canvas = call.canvas /\ ~r.restored}
    IN  /\ call.kind = "restore" /\ Free
        /\ IF due = {} THEN outcome = "noop" ELSE outcome \in {"clean", "pending"}
        /\ removals' = (removals \ due) \cup {[r EXCEPT !.restored = TRUE] : r \in due}
        /\ Served(call, outcome) /\ UNCHANGED <<rows, active, historyVars>>

(* A call rejects: before it did anything, or, for the actions that post to  *)
(* the gateway, after their durable part.                                    *)
ServeFails(call) ==
    /\ call.kind # "activate" /\ Spend("fault")
    /\ \/ UNCHANGED <<rows, removals>>
       \/ /\ call.kind = "freeze" /\ rows' = [rows EXCEPT ![call.canvas].open = ~call.arg]
          /\ UNCHANGED removals
       \/ /\ call.kind = "restore" /\ UNCHANGED rows
          /\ removals' = {IF r.id = call.arg /\ r.canvas = call.canvas
                          THEN [r EXCEPT !.restored = TRUE] ELSE r : r \in removals}
    /\ Served(call, "error") /\ UNCHANGED <<active, historyVars>>

(* The promise settles in the tab.                                           *)
CallSettles(call) ==
    /\ call.outcome # "none" /\ Free
    /\ dispatched' = dispatched \ {call}
    /\ CASE call.kind = "save" ->
              SaveAnswered(call) /\ UNCHANGED <<docs, page, crisis, desk, creating, mounts>>
         [] call.kind \in {"ban", "wipe"} ->
              RemovalAnswered(call) /\ UNCHANGED <<docs, page, form, creating, mounts>>
         [] call.kind = "restore" ->
              RestoreAnswered(call) /\ UNCHANGED <<docs, page, form, crisis, creating, mounts>>
         [] call.kind = "freeze" ->
              /\ crisis' = IF call.by = page.id THEN [crisis EXCEPT !.freezing = Nil] ELSE crisis
              /\ UNCHANGED <<docs, page, form, desk, creating, mounts>>
         [] call.kind = "create" /\ call.outcome = "ok" -> Land
         [] OTHER ->
              /\ creating' = IF call.by = page.id THEN [creating EXCEPT !.submitting = FALSE]
                             ELSE creating
              /\ UNCHANGED <<docs, page, form, crisis, desk, mounts>>
    /\ UNCHANGED <<durableVars, historyVars>>

(* Another tab, a moderator or the players.                                  *)
Elsewhere ==
    /\ Spend("elsewhere")
    /\ \/ active' \in DOMAIN rows \ {active} /\ UNCHANGED rows
       \/ \E n \in Titles : n # rows[active].name /\ rows' = [rows EXCEPT ![active].name = n]
                           /\ UNCHANGED active
       \/ rows' = [rows EXCEPT ![active].open = ~@] /\ UNCHANGED active
       \/ /\ rows[active].size > 1 /\ "streamed" \notin rows[active].outside
          /\ rows' = [rows EXCEPT ![active].outside = @ \cup {"streamed"}] /\ UNCHANGED active
    /\ UNCHANGED <<removals, docs, page, form, crisis, desk, creating, dispatched, mounts,
                   historyVars>>

(* The worker's flush makes rows of what was accepted, past the frame or not. *)
Drains(c) ==
    /\ "streamed" \in rows[c].outside /\ Spend("drain")
    /\ rows' = [rows EXCEPT ![c].outside = {"drained"}]
    /\ UNCHANGED <<active, removals, docs, page, form, crisis, desk, creating, dispatched,
                   mounts, historyVars>>

Settings == \/ \E n \in Titles \cup {Blank} : EditForm([form EXCEPT !.name = n])
            \/ \E n \in 1..MaxSize : EditForm([form EXCEPT !.size = n])
            \/ EditForm([form EXCEPT !.public = ~@])
            \/ SubmitForm \/ ConfirmShrink \/ CancelShrink \/ SavedTimer
            \/ \E c \in Canvases : Reactivate(c)
            \/ ToggleFreeze
Creation == \/ OpenCreate \/ SubmitCreation \/ BackToDashboard
            \/ \E n \in Titles : EditCreation([creating EXCEPT !.name = n])
            \/ \E n \in 1..MaxSize : EditCreation([creating EXCEPT !.size = n])
            \/ EditCreation([creating EXCEPT !.public = IF @ = Nil THEN TRUE ELSE ~@])
Console == \/ \E m \in {"ban", "wipe"} : ChooseMode(m)
           \/ \E c \in Square(MaxSize) : PickCell(c)
           \/ AuthorResolves \/ HelpersLoad \/ ConfirmBan \/ ConfirmWipe \/ CancelMode
           \/ \E id \in Undoable : OpenRestore(id)
           \/ CancelRestore \/ ConfirmRestore
Serve == \E call \in dispatched :
    \/ call.outcome = "none" /\
          \/ ServeSave(call) \/ ServeActivate(call) \/ ServeFreeze(call) \/ ServeFails(call)
          \/ \E c \in Canvases : ServeCreate(call, c)
          \/ \E o \in {"clean", "pending", "noop"} : ServeRemoval(call, o) \/ ServeRestore(call, o)
    \/ CallSettles(call)
StudioNext == \/ StudioRender \/ Settings \/ Creation \/ Console \/ Serve \/ Elsewhere
              \/ \E c \in DOMAIN rows : Drains(c)
StudioSpec == StudioInit /\ [][StudioNext]_studioVars
=============================================================================
