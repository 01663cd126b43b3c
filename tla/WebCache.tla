------------------------------ MODULE WebCache ------------------------------
(***************************************************************************)
(* One tab of the web client: an action of a page and a query that shows   *)
(* what the action changes, and between them the query cache (a library:   *)
(* modelled from how the hooks use it).  The tab may leave the page and    *)
(* come back at any time, data may grow old or not, answers may be slow,   *)
(* requests may fail and events may be lost.  Versions count how often the *)
(* rows were written.  The query's first load is over.                     *)
(***************************************************************************)
EXTENDS WebPages, Integers

CONSTANT MaxWrites
ASSUME MaxWritesAssumption == MaxWrites \in Nat \ {0}

\* The action and the query; how often the rows were written; the call of the
\* action, or the event that announces it; the version the tab was told to
\* show; the version it shows; the version on its way; whether what is shown
\* counts as stale; whether the page is mounted; whether the last fetch failed.
\* Auxiliary: a change was announced on a page that had been left with an older
\* answer on its way, and nothing was asked for since.
VARIABLES pair, written, calling, told, shown, asked, stale, mounted, failed, aux_overtaken
cacheVars == <<pair, written, calling, told, shown, asked, stale, mounted, failed, aux_overtaken>>

action == pair[1]
query == pair[2]

\* What a query that swallows its errors shows after one.
Nothing == -1

\* Nothing was asked for, or the request has not reached the server.
NoFetch == -1
Unserved == -2

CacheInit ==
    /\ pair \in Pairs
    /\ written = 0 /\ told = 0 /\ shown = 0 /\ asked = NoFetch
    /\ calling = "none" /\ stale = FALSE /\ mounted = TRUE /\ failed = FALSE
    /\ aux_overtaken = FALSE

CacheTypeOK ==
    /\ pair \in Pairs
    /\ written \in 0..MaxWrites /\ told \in 0..written
    /\ shown \in Nothing..written /\ asked \in Unserved..written
    /\ calling \in {"none", "sent", "served"}
    /\ {stale, mounted, failed, aux_overtaken} \subseteq BOOLEAN

-----------------------------------------------------------------------------
\* The action's request, or another user's change and the event it causes

SendCall ==
    /\ calling = "none" /\ written < MaxWrites
    /\ calling' = "sent"
    /\ UNCHANGED <<pair, written, told, shown, asked, stale, mounted, failed, aux_overtaken>>

ServeCall ==
    /\ calling = "sent"
    /\ calling' = "served" /\ written' = written + 1
    /\ UNCHANGED <<pair, told, shown, asked, stale, mounted, failed, aux_overtaken>>

\* A refused request has written nothing, unless it was one of several: no
\* hook has an onSettled, so nothing is invalidated.
RefuseCall ==
    /\ calling = "sent"
    /\ calling' = "none"
    /\ written' \in {written} \cup (IF action.rowByRow THEN {written + 1} ELSE {})
    /\ UNCHANGED <<pair, told, shown, asked, stale, mounted, failed, aux_overtaken>>

\* The answer of a served request, or the event, gets lost.
LoseCall ==
    /\ calling = "served"
    /\ calling' = "none"
    /\ UNCHANGED <<pair, written, told, shown, asked, stale, mounted, failed, aux_overtaken>>

\* The hook's onSuccess, which runs on any page, or the socket's handler.  An
\* invalidated query counts as stale and, where it is mounted, is asked for
\* again at once: an answer on its way is dropped.  On a page that was left,
\* the library lets an answer on its way win over the invalidation.
Settle ==
    /\ calling = "served" /\ (action.by = "page socket" => mounted)
    /\ calling' = "none" /\ told' = written
    /\ aux_overtaken' = (aux_overtaken \/ (~mounted /\ asked \in 0 .. written - 1))
    /\ IF Refreshes(action, query)
         THEN /\ stale' = TRUE
              /\ asked' = IF mounted THEN Unserved ELSE asked
         ELSE UNCHANGED <<stale, asked>>
    /\ UNCHANGED <<pair, written, shown, mounted, failed>>

-----------------------------------------------------------------------------
\* The query

FetchServed ==
    /\ asked = Unserved
    /\ asked' = written /\ aux_overtaken' = FALSE
    /\ UNCHANGED <<pair, written, calling, told, shown, stale, mounted, failed>>

FetchAnswered ==
    /\ asked \in Nat
    /\ asked' = NoFetch /\ shown' = asked /\ stale' = FALSE /\ failed' = FALSE
    /\ UNCHANGED <<pair, written, calling, told, mounted, aux_overtaken>>

\* After one retry the old answer stays, with an error beside it; a hook that
\* swallows errors stores null or an empty list as a good answer instead.
FetchFails ==
    /\ asked # NoFetch
    /\ asked' = NoFetch
    /\ IF query.swallows
         THEN shown' = Nothing /\ stale' = FALSE /\ failed' = FALSE
         ELSE failed' = TRUE /\ UNCHANGED <<shown, stale>>
    /\ UNCHANGED <<pair, written, calling, told, mounted, aux_overtaken>>

\* staleTime passes.
GrowOld ==
    /\ ~stale /\ query.fresh # "always"
    /\ stale' = TRUE
    /\ UNCHANGED <<pair, written, calling, told, shown, asked, mounted, failed, aux_overtaken>>

LeavePage ==
    /\ mounted
    /\ mounted' = FALSE
    /\ UNCHANGED <<pair, written, calling, told, shown, asked, stale, failed, aux_overtaken>>

\* A mounted page, and one whose window gets the focus back, asks again only
\* for what is stale.
ReturnToPage ==
    /\ mounted' = TRUE
    /\ asked' = IF asked = NoFetch /\ (stale \/ (~mounted /\ query.fresh = "never"))
                  THEN Unserved ELSE asked
    /\ UNCHANGED <<pair, written, calling, told, shown, stale, failed, aux_overtaken>>

CacheNext ==
    \/ SendCall \/ ServeCall \/ RefuseCall \/ LoseCall \/ Settle
    \/ FetchServed \/ FetchAnswered \/ FetchFails \/ GrowOld \/ LeavePage \/ ReturnToPage

CacheSpec == CacheInit /\ [][CacheNext]_cacheVars

-----------------------------------------------------------------------------
\* Properties

\* The changes whose hook or handler forgets a query of its own page.
Overlooked ==
    \* students moved or grouped from the class's page or from their own
    {<<"useMoveStudent", "useClass">>, <<"useBulkMoveStudents", "useClass">>,
     <<"useMoveStudent", "useStudent">>,
     <<"useRemoveStudentFromClass", "useDashboardStatus">>,
     <<"useApplyRules", "useClassGroups">>,
    \* a resolved conflict, a finished solve, the checklist after either
     <<"useResolveConflict", "useConflictSuggestions">>,
     <<"useResolveConflict", "useSolveReport">>,
     <<"useResolveConflict", "useDashboardStatus">>,
     <<"solve:complete", "useRecentTimetableRuns">>,
     <<"solve:complete", "useTimetableConflicts">>,
     <<"solve:complete", "useConflictSuggestions">>,
     <<"solve:complete", "useSolveReport">>,
    \* solver tuning, which the checklist counts
     <<"useUpdateConstraintWeights", "useDashboardStatus">>,
     <<"useCreateConstraintTemplate", "useDashboardStatus">>,
     <<"useDeleteConstraintTemplate", "useDashboardStatus">>,
    \* the import history lists a job as soon as it is uploaded
     <<"useUploadImport", "useImportHistory">>, <<"useDryRun", "useImportHistory">>,
    \* the fairness statistics and the pages of offered substitutions
     <<"useSetEntfall", "useSubstitutionStats">>,
     <<"useSetStillarbeit", "useSubstitutionStats">>,
     <<"useUploadHandoverAttachment", "useMyAbsenceSubstitutions">>,
     <<"connect", "useRoomAvailability">>,
    \* keys nothing is mounted under, or that leave one view out
     <<"useUpdateLessonContent", "useClassbookEntryByTimetableLesson">>,
     <<"classbook:entry-updated", "useClassbookEntryByTimetableLesson">>,
     <<"useUpdateGradeWeights", "useGradeMatrixOfCategory">>,
     <<"useUpdateExam", "useExamCollisionCheck">>,
     <<"useDeleteExam", "useExamCollisionCheck">>,
     <<"message:read", "useReadReceipts">>, <<"poll:vote", "useMessages">>}
    \* candidates are ranked once, and no event reaches the substitutions
    \cup ({"useCreateAbsence", "useCancelAbsence", "useAssignSubstitute", "useSetEntfall",
           "useSetStillarbeit", "timetable:cancelled", "timetable:substitution"}
            \X {"useRankedCandidates"})
    \cup ({"timetable:cancelled", "timetable:substitution"}
            \X {"usePendingSubstitutions", "useOfferedSubstitutions",
                "useMyAbsenceSubstitutions"})

\* Once a page is mounted, nothing it asked for is on its way and no error is
\* shown, it shows every change its own user's requests were answered for and
\* every change a socket announced, also after it was left and opened again,
\* but for one case: it was left while an answer from before the change was on
\* its way to it.  That answer ends the invalidation, and the page shows it on
\* return as if it were fresh, until the query is next asked for.
ShowsWhatWasTold ==
    mounted /\ asked = NoFetch /\ ~failed /\ shown # Nothing /\ ~aux_overtaken => shown >= told

\* It does so for every action and query of a page but the overlooked ones.
ChangesAreShown == ShowsWhatWasTold \/ <<action.name, query.name>> \in Overlooked

\* Refuted for the hooks that swallow errors: a mounted page never takes an
\* error for an empty answer.
FailuresAreShown == mounted => shown # Nothing

\* Refuted for the bulk move, whose comment announces a toast about the part
\* that was done: with no request open, a page shows all its user has written.
PartsAreShown ==
    action.rowByRow /\ calling = "none" /\ mounted /\ asked = NoFetch /\ ~failed
        => shown = written
=============================================================================
