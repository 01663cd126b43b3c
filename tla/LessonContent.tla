--------------------------- MODULE LessonContent ---------------------------
(***************************************************************************)
(* The lesson content form of the class book, which has no save button:    *)
(* leaving a field starts a timer of a second, and when it runs out the    *)
(* field is sent.  One teacher, one tab; a field's text is a count of how  *)
(* often it was changed.                                                   *)
(***************************************************************************)
EXTENDS Integers

CONSTANTS Fields,        \* thema, lehrstoff, hausaufgabe
          NoField,
          MaxChanges     \* changes of a field
ASSUME ContentAssumption == NoField \notin Fields /\ MaxChanges \in Nat

\* What the form shows and the server has; the field with the focus; the field
\* and text the timer was started with; the requests on their way; whether one
\* was refused; whether the form is mounted.
VARIABLES shownText, storedText, focus, debounce, patches, refused, mountedForm
contentVars == <<shownText, storedText, focus, debounce, patches, refused, mountedForm>>

NoTimer == [field |-> NoField, value |-> 0]
Timer == [field : Fields, value : 0 .. MaxChanges]

ContentInit ==
    /\ shownText = [f \in Fields |-> 0] /\ storedText = shownText
    /\ focus = NoField /\ debounce = NoTimer /\ patches = {}
    /\ refused = FALSE /\ mountedForm = TRUE

ContentTypeOK ==
    /\ shownText \in [Fields -> 0 .. MaxChanges] /\ storedText \in [Fields -> 0 .. MaxChanges]
    /\ focus \in Fields \cup {NoField} /\ debounce \in Timer \cup {NoTimer}
    /\ patches \subseteq Timer /\ {refused, mountedForm} \subseteq BOOLEAN

FocusField(f) ==
    /\ mountedForm /\ focus = NoField
    /\ focus' = f
    /\ UNCHANGED <<shownText, storedText, debounce, patches, refused, mountedForm>>

Change ==
    /\ focus # NoField /\ shownText[focus] < MaxChanges
    /\ shownText' = [shownText EXCEPT ![focus] = @ + 1]
    /\ UNCHANGED <<storedText, focus, debounce, patches, refused, mountedForm>>

\* There is one timer for the three fields: starting it stops it.
handleBlurSave ==
    /\ focus # NoField
    /\ debounce' = [field |-> focus, value |-> shownText[focus]] /\ focus' = NoField
    /\ UNCHANGED <<shownText, storedText, patches, refused, mountedForm>>

SecondPassed ==
    /\ debounce # NoTimer
    /\ patches' = patches \cup {debounce} /\ debounce' = NoTimer
    /\ UNCHANGED <<shownText, storedText, focus, refused, mountedForm>>

\* The request writes the field it carries and no other.
PatchServed(p) ==
    /\ patches' = patches \ {p}
    /\ storedText' = [storedText EXCEPT ![p.field] = p.value]
    /\ UNCHANGED <<shownText, focus, debounce, refused, mountedForm>>

PatchRefused(p) ==
    /\ patches' = patches \ {p} /\ refused' = TRUE
    /\ UNCHANGED <<shownText, storedText, focus, debounce, mountedForm>>

\* Unmounting stops the timer.
Unmount ==
    /\ mountedForm
    /\ mountedForm' = FALSE /\ focus' = NoField /\ debounce' = NoTimer
    /\ UNCHANGED <<shownText, storedText, patches, refused>>

ContentNext ==
    \/ \E f \in Fields : FocusField(f)
    \/ Change \/ handleBlurSave \/ SecondPassed \/ Unmount
    \/ \E p \in patches : PatchServed(p) \/ PatchRefused(p)

ContentSpec == ContentInit /\ [][ContentNext]_contentVars

\* Refuted by the shared timer: once no field has the focus, no timer runs, and
\* every request was accepted, the server has what the form shows.
EachFieldSavesOnBlur ==
    mountedForm /\ focus = NoField /\ debounce = NoTimer /\ patches = {} /\ ~refused
        => storedText = shownText
=============================================================================
