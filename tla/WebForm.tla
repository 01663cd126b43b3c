------------------------------ MODULE WebForm ------------------------------
(***************************************************************************)
(* What the dialogs, tabs and buttons of the web client are made of.  A    *)
(* dialog is opened for one entity after another and closes; a tab stands  *)
(* on its page until another tab is chosen; an entry is a new row in one,  *)
(* which can be given up.  The page itself stays.  A draft starts blank or *)
(* with what the cache holds of the entity, the user types into it, and    *)
(* submitting sends it.                                                    *)
(***************************************************************************)

\* "seeds" says when the draft is (re)set: when the form opens ("open"), only
\* when it is first mounted ("once"), when the cached data change ("follows"),
\* then only if nothing is typed ("clean"), or when the lists of names beside
\* it change ("lists").  "guard" says during which of its requests submitting
\* is disabled; "empties" when the form gives the draft up; "refusal" what a
\* conflict does to it.  The request may have two "parts".
\*
\* A "lone" form is only ever opened for one thing.  One that "mounts" anew
\* knows nothing of the requests it sent before; its parent, if it "hears",
\* still closes it with their answers.  A "held" form cannot be given up, and a
\* "locked" one not be typed into, while its request is on its way.  One that
\* "compares" is dirty while its draft differs from the cache, and "dirtyOnly"
\* submits nothing else; "undoes" has a button that goes back to the cache.
\* "clears" takes whatever was typed for saved once a request is accepted.
Form(name, lives, draft) ==
    [name |-> name, lives |-> lives, draft |-> draft, seeds |-> "open", guard |-> "all",
     empties |-> "accepted", refusal |-> "kept", prompt |-> "none", parts |-> 1,
     mounts |-> "always", hears |-> FALSE, lone |-> FALSE, held |-> FALSE,
     locked |-> FALSE, compares |-> FALSE, dirtyOnly |-> FALSE, undoes |-> FALSE,
     clears |-> FALSE]

Lone(f)    == [f EXCEPT !.lone = TRUE]
EachOne(f) == [f EXCEPT !.lone = FALSE]

\* A dialog that edits what exists, one that creates, a confirmation or button;
\* a tab that edits the page's entity, one with fields for a new row, and a new
\* row that is opened first.
EditDialog(name)   == Form(name, "dialog", "entity")
CreateDialog(name) == Lone(Form(name, "dialog", "blank"))
Command(name)      == Form(name, "dialog", "none")
Tab(name)          == Lone([Form(name, "tab", "entity") EXCEPT !.empties = "never"])
EntryTab(name)     == Lone(Form(name, "tab", "blank"))
Entry(name)        == Lone(Form(name, "entry", "blank"))

SeededOnce(f)  == [f EXCEPT !.seeds = "once"]
Following(f)   == [f EXCEPT !.seeds = "follows"]
WhenClean(f)   == [f EXCEPT !.seeds = "clean"]
WithLists(f)   == [f EXCEPT !.seeds = "lists"]
Unguarded(f)   == [f EXCEPT !.guard = "none"]
HalfGuarded(f) == [f EXCEPT !.guard = "first part"]
TwoParts(f)    == [f EXCEPT !.parts = 2]
Held(f)        == [f EXCEPT !.held = TRUE]
Locked(f)      == [f EXCEPT !.locked = TRUE]
DirtyOnly(f)   == [f EXCEPT !.dirtyOnly = TRUE]
Comparing(f)   == [f EXCEPT !.compares = TRUE]
Undoing(f)     == [f EXCEPT !.undoes = TRUE]
Clearing(f)    == [f EXCEPT !.clears = TRUE]

\* Mounted each time it opens; its handler awaits the answer and then calls its
\* parent, or leaves that to a callback, which an unmounted form drops.
Anew(f)    == [f EXCEPT !.mounts = "anew"]
Awaited(f) == [Anew(f) EXCEPT !.hears = TRUE]

\* The draft is given up when the request leaves, with any answer, or with none.
EmptiedAtOnce(f) == [f EXCEPT !.empties = "sent"]
EmptiedAnyway(f) == [f EXCEPT !.empties = "answered"]
NeverEmptied(f)  == [f EXCEPT !.empties = "never"]

\* A button in a row, or a confirmation that closes with the click.
RowAction(name) == EmptiedAtOnce(Unguarded(Command(name)))

\* A conflict names what stands in the way, closes the form, or puts back what
\* the cache holds.
NamingAffected(f)   == [f EXCEPT !.refusal = "affected"]
ClosedByConflict(f) == [f EXCEPT !.refusal = "closes"]
ResetByConflict(f)  == [f EXCEPT !.refusal = "resets"]

\* Leaving a dirty tab opens a prompt.  Its "Speichern & Weiter" closes the
\* prompt and leaves the draft alone, or goes on without saving.
Asking(f)   == [f EXCEPT !.prompt = "stays"]
Dropping(f) == [f EXCEPT !.prompt = "drops"]
=============================================================================
