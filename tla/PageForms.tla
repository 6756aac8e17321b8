----------------------------- MODULE PageForms -----------------------------
(***************************************************************************)
(* The dialogs and forms of src/web/src/pages, one at a time: opening,     *)
(* typing, submitting, closing - also while the answer is still on its way *)
(* - and what the answer does to the form that is on the screen by then.   *)
(* A component stays mounted when its dialog closes, so that its fields    *)
(* and its mutation live on from one opening to the next.                  *)
(*                                                                         *)
(* All fields of a form are one draft: what it was filled from (base, a    *)
(* version of the data the page shows, 0 for a form's own default) and the *)
(* opening in which the user last typed into it (typed, 0 for untouched).  *)
(* A page is rendered again before its user acts again.                    *)
(***************************************************************************)
EXTENDS Naturals

CONSTANTS
  FormsInUse,   \* the forms that are used: one in a behaviour
  MaxOpenings,  \* a bound
  MaxSends,     \* submissions: a bound
  MaxSaved      \* changes of the data behind the form, by anybody: a bound

ASSUME FormBounds ==
  MaxOpenings \in Nat \ {0} /\ MaxSends \in Nat /\ MaxSaved \in Nat \ {0}

\* guarded: onOpenChange does nothing while the mutation isPending.
\* drops: closing the form empties its fields, does not, or depends on the button.
\* fills: what opening it puts into the fields, and whether new data do so again.
\* success: what onSuccess does with the form, after a body was read (answer).
\* clears: onSuccess empties the fields.
\* once: the submit button is disabled while the mutation isPending.
Form(guarded, drops, fills, success, clears, answer, once) ==
  [guarded |-> guarded, drops |-> drops, fills |-> fills, success |-> success,
   clears |-> clears, answer |-> answer, once |-> once]

\* A dialog with a handleOpenChange, which empties the fields.
GuardedDialog(success, clears) ==
  Form(TRUE, {TRUE}, "nothing", success, clears, "body", TRUE)

\* A dialog whose useEffect fills the fields when it opens and when the data change.
EditDialog(answer) == Form(FALSE, {FALSE}, "data", "closes", FALSE, answer, TRUE)

\* A form on the page that is shown and hidden.
InlineForm(drops) == Form(FALSE, drops, "nothing", "closes", TRUE, "body", TRUE)

EditConfigDialog == EditDialog("body")
BandwidthDialog == EditDialog("body")
QuotaDialog == EditDialog("empty")
\* onSuccess calls handleOpenChange, which looks at isPending.
CreateSnapshotDialog == GuardedDialog("asks", FALSE)
\* onSuccess calls onOpenChange itself and leaves the fields as they are ...
CreateNetworkDialog == GuardedDialog("closes", FALSE)
\* ... or empties them.
CreateInstanceDialog == GuardedDialog("closes", TRUE)
\* submitted: the form gives way to a notice.
PullImageDialog == GuardedDialog("notice", FALSE)
ProxyRuleForm == InlineForm({FALSE})
SSHKeyForm == InlineForm({FALSE})
\* The cancel button empties the fields, the button that hides the form does not.
CreatePlanForm == InlineForm({TRUE, FALSE})
\* startEdit copies the row; the button is never disabled.
EditPlanForm == Form(FALSE, {FALSE}, "opening", "closes", FALSE, "body", FALSE)
\* Always on the page.
AllowedImageForm == Form(FALSE, {}, "nothing", "stays", TRUE, "body", TRUE)
\* setPwValue("") when it is opened; answered with 204.
PasswordDialog == Form(FALSE, {FALSE}, "blank", "closes", TRUE, "empty", FALSE)

Forms ==
  [ editConfig |-> EditConfigDialog, bandwidth |-> BandwidthDialog, quota |-> QuotaDialog,
    createSnapshot |-> CreateSnapshotDialog, createNetwork |-> CreateNetworkDialog,
    createInstance |-> CreateInstanceDialog, pullImage |-> PullImageDialog,
    proxyRule |-> ProxyRuleForm, sshKey |-> SSHKeyForm, createPlan |-> CreatePlanForm,
    editPlan |-> EditPlanForm, allowedImage |-> AllowedImageForm,
    password |-> PasswordDialog ]

ASSUME FormsAssumption == FormsInUse \subseteq DOMAIN Forms

VARIABLES
  form,      \* the form of this behaviour
  open,      \* it is on the screen
  opening,   \* how often it was opened
  draft,     \* its fields
  notice,    \* it shows its notice instead
  sends,     \* submissions so far
  pending,   \* the submissions the page waits for
  accepted,  \* the openings whose submission was answered with success
  saved,     \* version of the data behind the form
  shown      \* version the page has, 0 for none

formVars == << form, open, opening, draft, notice, sends, pending, accepted, saved, shown >>

The == Forms[form]
Blank == [base |-> 0, typed |-> 0]
Filled(version) == [base |-> version, typed |-> 0]
IsPending == pending # {}

FormsInit ==
  /\ form \in FormsInUse
  /\ open = (The.drops = {})
  /\ opening = IF The.drops = {} THEN 1 ELSE 0
  /\ draft = Blank /\ notice = FALSE
  /\ sends = 0 /\ pending = {} /\ accepted = {}
  /\ saved = 1 /\ shown = 0
-----------------------------------------------------------------------------
\* The user.

OpenForm ==
  /\ ~ open /\ opening < MaxOpenings
  /\ The.fills = "opening" => shown # 0
  /\ open' = TRUE
  /\ opening' = opening + 1
  /\ draft' = CASE The.fills \in {"data", "opening"} -> Filled(shown)
                [] The.fills = "blank" -> Blank
                [] OTHER -> draft
  /\ UNCHANGED << form, notice, sends, pending, accepted, saved, shown >>

Type ==
  /\ open /\ ~ notice
  /\ draft' = [draft EXCEPT !.typed = opening]
  /\ UNCHANGED << form, open, opening, notice, sends, pending, accepted, saved, shown >>

Submit ==
  /\ open /\ ~ notice /\ sends < MaxSends
  /\ The.once => ~ IsPending
  /\ sends' = sends + 1
  /\ pending' = pending \union
       {[id |-> sends + 1, opening |-> opening, draft |-> draft, served |-> FALSE]}
  /\ UNCHANGED << form, open, opening, draft, notice, accepted, saved, shown >>

\* Closing without a look at the mutation.
CloseAnyway ==
  /\ open
  /\ \E empties \in The.drops :
       /\ open' = FALSE
       /\ draft' = IF empties THEN Blank ELSE draft
       /\ notice' = IF empties THEN FALSE ELSE notice
  /\ UNCHANGED << form, opening, sends, pending, accepted, saved, shown >>

\* Closing that leaves the notice for the next opening.
CloseKeepsNotice ==
  /\ open
  /\ The.guarded => ~ IsPending
  /\ \E empties \in The.drops :
       /\ open' = FALSE
       /\ draft' = IF empties THEN Blank ELSE draft
       /\ UNCHANGED notice
  /\ UNCHANGED << form, opening, sends, pending, accepted, saved, shown >>

\* The cross, the cancel button, the Escape key, a click outside.
CloseForm ==
  /\ open
  /\ The.guarded => ~ IsPending
  /\ \E empties \in The.drops :
       /\ open' = FALSE
       /\ draft' = IF empties THEN Blank ELSE draft
       /\ notice' = IF empties THEN FALSE ELSE notice
  /\ UNCHANGED << form, opening, sends, pending, accepted, saved, shown >>
-----------------------------------------------------------------------------
\* The answers.

\* The handler makes the change.
Serve(r) ==
  /\ ~ r.served /\ saved < MaxSaved
  /\ saved' = saved + 1
  /\ pending' = (pending \ {r}) \union {[r EXCEPT !.served = TRUE]}
  /\ UNCHANGED << form, open, opening, draft, notice, sends, accepted, shown >>

\* onSuccess closes the form that is open now and leaves its fields.
ClosesUncleared ==
  /\ The.success = "closes"
  /\ open' = FALSE
  /\ UNCHANGED << draft, notice >>

\* onSuccess closes the form that is open now, whichever opening was submitted.
Closes ==
  /\ The.success = "closes"
  /\ open' = FALSE
  /\ draft' = IF The.clears THEN Blank ELSE draft
  /\ UNCHANGED notice

\* While onSuccess runs the mutation may still be pending for handleOpenChange.
AsksToClose ==
  /\ The.success = "asks"
  /\ \/ UNCHANGED << open, draft >>
     \/ open' = FALSE /\ draft' = Blank
  /\ UNCHANGED notice

ShowsNotice ==
  /\ The.success = "notice"
  /\ notice' = TRUE
  /\ UNCHANGED << open, draft >>

StaysOpen ==
  /\ The.success = "stays"
  /\ draft' = IF The.clears THEN Blank ELSE draft
  /\ UNCHANGED << open, notice >>

Succeed(r) ==
  /\ r.served /\ The.answer = "body"
  /\ Closes \/ AsksToClose \/ ShowsNotice \/ StaysOpen
  /\ pending' = pending \ {r}
  /\ accepted' = accepted \union {r.opening}
  /\ UNCHANGED << form, opening, sends, saved, shown >>

\* Refused, lost before or after the change was made, or answered with an empty body,
\* on which request fails: the form stays as it is, with an error.
FailToSubmit(r) ==
  /\ pending' = pending \ {r}
  /\ UNCHANGED << form, open, opening, draft, notice, sends, accepted, saved, shown >>
-----------------------------------------------------------------------------
\* The data behind the form.

SomebodySaves ==
  /\ saved < MaxSaved
  /\ saved' = saved + 1
  /\ UNCHANGED << form, open, opening, draft, notice, sends, pending, accepted, shown >>

\* A useEffect on [open] alone.
ShowOnly ==
  /\ shown < saved
  /\ shown' \in (shown + 1)..saved
  /\ UNCHANGED << form, open, opening, draft, notice, sends, pending, accepted, saved >>

\* A query is answered, and the effect on the data fills an open dialog again.
Show ==
  /\ shown < saved
  /\ shown' \in (shown + 1)..saved
  /\ draft' = IF open /\ The.fills = "data" THEN Filled(shown') ELSE draft
  /\ UNCHANGED << form, open, opening, notice, sends, pending, accepted, saved >>

FormsNext ==
  \/ OpenForm \/ Type \/ Submit \/ CloseForm
  \/ \E r \in pending : Serve(r) \/ Succeed(r) \/ FailToSubmit(r)
  \/ SomebodySaves \/ Show

FormsSpec == FormsInit /\ [][FormsNext]_formVars
-----------------------------------------------------------------------------
Drafts == [base : 0..MaxSaved, typed : 0..MaxOpenings]
Submissions ==
  [id : 1..MaxSends, opening : 1..MaxOpenings, draft : Drafts, served : BOOLEAN]

FormsTypeOK ==
  /\ form \in FormsInUse /\ open \in BOOLEAN /\ opening \in 0..MaxOpenings
  /\ draft \in Drafts /\ notice \in BOOLEAN
  /\ sends \in 0..MaxSends /\ pending \subseteq Submissions
  /\ accepted \subseteq 1..MaxOpenings
  /\ saved \in 1..MaxSaved /\ shown \in 0..saved

\* A guarded dialog waits for its own submission: whatever is closed, emptied or
\* reported when the answer comes is the opening it was sent from, never a later one.
\* (The other dialogs can be closed and opened again in the meantime, and the answer
\* then closes what the user has begun anew.)
OwnAnswer ==
  The.guarded => \A r \in pending : open /\ r.opening = opening /\ pending = {r}

\* "Being pulled" is said to the user who has submitted the pull that was accepted,
\* in that opening of the dialog.
NoticeIsOwn == notice => open /\ opening \in accepted

\* A dialog that edits what the page shows is never saved on the base of an older
\* version than the page had by then: it is filled anew when newer data come in.
NoStaleBase == open /\ The.fills = "data" => draft.base = shown

\* Forms every way out of which empties the fields, or that are filled when they open.
StartsAfresh ==
  \/ The.drops = {TRUE} /\ (The.success = "closes" => The.clears)
  \/ The.fills # "nothing"

\* What was typed in an earlier opening is not submitted from a later one.
NothingLeftOver == StartsAfresh /\ open => draft.typed \in {0, opening}

\* "不立即关闭弹窗，弹窗内部显示"创建中"提示": an accepted instance keeps its dialog
\* open, with a notice.
CreationIsNoticed ==
  form = "createInstance" /\ opening \in accepted => open /\ notice
=============================================================================
