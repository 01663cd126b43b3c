----------------------------- MODULE AdminForms -----------------------------
(***************************************************************************)
(* The forms of the administration pages: each component's dialog, tab or  *)
(* buttons, described by what its state hooks, effects and handlers do.    *)
(***************************************************************************)
EXTENDS WebForm

\* Classes.  The page's prompt guards its tabs; what a tab shows is compared
\* with the class, and nothing else can be saved.
ClassDetailTabs(tab) == Asking(Anew(DirtyOnly(Comparing(tab))))

ClassCreateDialog       == SeededOnce(CreateDialog("ClassCreateDialog"))
DeleteClassDialog       == NamingAffected(Awaited(Command("DeleteClassDialog")))
ClassStammdatenTab      == ClassDetailTabs(Tab("ClassStammdatenTab"))
ClassStudentsTab        == RowAction("ClassStudentsTab")
StundentafelTab         == ClassDetailTabs(Following(Tab("StundentafelTab")))
ResetStundentafel       == Lone(Unguarded(Command("ResetStundentafel")))
ApplyStundentafelDialog ==
    NeverEmptied(Lone(SeededOnce(EditDialog("ApplyStundentafelDialog"))))
GroupOverridesPanel     == RowAction("GroupOverridesPanel")
GroupRuleBuilderTable   == Anew(EntryTab("GroupRuleBuilderTable"))
GroupRuleRow            == RowAction("GroupRuleRow")
ApplyRulesPreviewDialog == Lone(Command("ApplyRulesPreviewDialog"))

ClassForms ==
    {ClassCreateDialog, DeleteClassDialog, ClassStammdatenTab, ClassStudentsTab,
     StundentafelTab, ResetStundentafel, ApplyStundentafelDialog, GroupOverridesPanel,
     GroupRuleBuilderTable, GroupRuleRow, ApplyRulesPreviewDialog}

-----------------------------------------------------------------------------
\* Students and subjects.  The page keeps the student's request, and takes the
\* tab for clean with its answer.  A new parent is stored, then linked.
StudentDetailTabs(tab) == Asking(Clearing(Held(Comparing(tab))))

StudentCreateDialog    == CreateDialog("StudentCreateDialog")
StudentStammdatenTab   == StudentDetailTabs(Tab("StudentStammdatenTab"))
ArchiveStudentDialog   == Awaited(Unguarded(Command("ArchiveStudentDialog")))
RestoreStudentDialog   == Awaited(Unguarded(Command("RestoreStudentDialog")))
DeleteStudentDialog    == NamingAffected(Awaited(Command("DeleteStudentDialog")))
MoveStudentDialog      == Awaited(EachOne(CreateDialog("MoveStudentDialog")))
ParentSearchPopover    == Unguarded(Command("ParentSearchPopover"))
StudentParentsTab      == Unguarded(Command("StudentParentsTab"))
InlineCreateParentForm == Awaited(TwoParts(CreateDialog("InlineCreateParentForm")))
SubjectFormDialog      == EditDialog("SubjectFormDialog")
DeleteSubjectDialog    == NamingAffected(Awaited(Command("DeleteSubjectDialog")))

StudentForms ==
    {StudentCreateDialog, StudentStammdatenTab, ArchiveStudentDialog,
     RestoreStudentDialog, DeleteStudentDialog, MoveStudentDialog, ParentSearchPopover,
     StudentParentsTab, InlineCreateParentForm, SubjectFormDialog, DeleteSubjectDialog}

-----------------------------------------------------------------------------
\* Teachers.  Their page keeps the tabs' request, and lets a dirty one go
\* without asking.
TeacherDetailTabs(tab) == tab

TeacherCreateDialog      == CreateDialog("TeacherCreateDialog")
StammdatenTab            == TeacherDetailTabs(Tab("StammdatenTab"))
LehrverpflichtungTab     == TeacherDetailTabs(Tab("LehrverpflichtungTab"))
VerfuegbarkeitsGrid      == TeacherDetailTabs(Tab("VerfuegbarkeitsGrid"))
VerfuegbarkeitsMobileList == TeacherDetailTabs(Tab("VerfuegbarkeitsMobileList"))
ErmaessigungenList       == TeacherDetailTabs(Tab("ErmaessigungenList"))
ArchiveTeacherDialog     == Awaited(Unguarded(Command("ArchiveTeacherDialog")))
DeleteTeacherDialog      == NamingAffected(Awaited(Command("DeleteTeacherDialog")))
KeycloakLinkDialog       == NeverEmptied(SeededOnce(CreateDialog("KeycloakLinkDialog")))
KeycloakLinkSection      == Lone(Unguarded(Command("KeycloakLinkSection")))

TeacherForms ==
    {TeacherCreateDialog, StammdatenTab, LehrverpflichtungTab, VerfuegbarkeitsGrid,
     VerfuegbarkeitsMobileList, ErmaessigungenList, ArchiveTeacherDialog,
     DeleteTeacherDialog, KeycloakLinkDialog, KeycloakLinkSection}

-----------------------------------------------------------------------------
\* Users.  Relinking a person unlinks the old account first.  The page asks
\* about changed roles and about a new override, not about a changed one.
UserDetailTabs(tab) == Dropping(Anew(DirtyOnly(tab)))

UserRolesTab         ==
    UserDetailTabs(Undoing(ResetByConflict(Comparing(Following(Tab("UserRolesTab"))))))
NewOverrideRow       == UserDetailTabs(Held(Entry("NewOverrideRow")))
OverrideRow          == Anew(DirtyOnly(Comparing(Following(Tab("OverrideRow")))))
DisableUserDialog    == Anew(Unguarded(Command("DisableUserDialog")))
EnableUserDialog     == Anew(Unguarded(Command("EnableUserDialog")))
LinkPersonDialog     == ClosedByConflict(CreateDialog("LinkPersonDialog"))
UnlinkPersonDialog   == Lone(Unguarded(Command("UnlinkPersonDialog")))
ReLinkConflictDialog == Lone(Held(TwoParts(Command("ReLinkConflictDialog"))))

UserForms ==
    {UserRolesTab, NewOverrideRow, OverrideRow, DisableUserDialog, EnableUserDialog,
     LinkPersonDialog, UnlinkPersonDialog, ReLinkConflictDialog}

-----------------------------------------------------------------------------
\* The school and its years.
SchoolSettingsTabs(tab) == Dropping(Anew(DirtyOnly(WhenClean(tab))))

SchoolDetailsTab         == SchoolSettingsTabs(Locked(Tab("SchoolDetailsTab")))
TimeGridTab              == SchoolSettingsTabs(Tab("TimeGridTab"))
ActivateSchoolYearDialog == Command("ActivateSchoolYearDialog")
DeleteSchoolYearDialog   == ClosedByConflict(Command("DeleteSchoolYearDialog"))
CreateSchoolYearDialog   == CreateDialog("CreateSchoolYearDialog")
HolidaysList             == Held(Anew(Entry("HolidaysList")))
HolidayRow               == RowAction("HolidayRow")
AutonomousDaysList       == Held(Anew(Entry("AutonomousDaysList")))
AutonomousDayRow         == RowAction("AutonomousDayRow")
OptionsTab               == EmptiedAtOnce(Command("OptionsTab"))

SchoolForms ==
    {SchoolDetailsTab, TimeGridTab, ActivateSchoolYearDialog, DeleteSchoolYearDialog,
     CreateSchoolYearDialog, HolidaysList, HolidayRow, AutonomousDaysList,
     AutonomousDayRow, OptionsTab}

-----------------------------------------------------------------------------
\* Solver tuning and conflicts.  The weights are taken from the server once:
\* later ones only make the tab dirty.  A name that changes in the list of
\* classes or subjects fills the editing dialogs anew.
SolverTuningTabs(tab) == Dropping(Undoing(Anew(DirtyOnly(Comparing(tab)))))

ConstraintWeightsTab == SolverTuningTabs(Tab("ConstraintWeightsTab"))
AddEditClassRestrictionDialog ==
    WithLists(EditDialog("AddEditClassRestrictionDialog"))
AddEditSubjectPreferredSlotDialog ==
    WithLists(EditDialog("AddEditSubjectPreferredSlotDialog"))
AddEditSubjectMorningPreferenceDialog ==
    WithLists(EditDialog("AddEditSubjectMorningPreferenceDialog"))
ClassRestrictionsTab       == RowAction("ClassRestrictionsTab")
SubjectMorningSubTab       == RowAction("SubjectMorningSubTab")
SubjectPreferredSlotSubTab == RowAction("SubjectPreferredSlotSubTab")
RestrictionSwitch          == RowAction("RestrictionSwitch")
ConflictResolutionDialog   == EditDialog("ConflictResolutionDialog")

SolverForms ==
    {ConstraintWeightsTab, AddEditClassRestrictionDialog, AddEditSubjectPreferredSlotDialog,
     AddEditSubjectMorningPreferenceDialog, ClassRestrictionsTab, SubjectMorningSubTab,
     SubjectPreferredSlotSubTab, RestrictionSwitch, ConflictResolutionDialog}

-----------------------------------------------------------------------------
\* Data protection.  No dialog closes while its request is on its way; the
\* confirmations close whatever the answer is.
RequestDeletionDialog == Held(EachOne(CreateDialog("RequestDeletionDialog")))
RequestExportDialog   == Held(CreateDialog("RequestExportDialog"))
RetentionEditDialog   == Locked(Held(EditDialog("RetentionEditDialog")))
DsfaEditDialog        == Held(EditDialog("DsfaEditDialog"))
VvzEditDialog         == Held(EditDialog("VvzEditDialog"))
RetentionTab          == Held(EmptiedAnyway(Command("RetentionTab")))
DsfaTable             == Held(EmptiedAnyway(Command("DsfaTable")))
VvzTable              == Held(EmptiedAnyway(Command("VvzTable")))
ConsentsTab           == Held(EmptiedAnyway(Command("ConsentsTab")))

DataProtectionForms ==
    {RequestDeletionDialog, RequestExportDialog, RetentionEditDialog, DsfaEditDialog,
     VvzEditDialog, RetentionTab, DsfaTable, VvzTable, ConsentsTab}

FormsOfAdmin ==
    ClassForms \cup StudentForms \cup TeacherForms \cup UserForms \cup SchoolForms
        \cup SolverForms \cup DataProtectionForms
=============================================================================
