--------------------------- MODULE PageFormsProofs ---------------------------
(***************************************************************************)
(* Proofs about PageForms, for every form of the table and any number of   *)
(* openings, submissions and changes of the data: what an answer meets,    *)
(* and what a form has in its fields.                                      *)
(***************************************************************************)
EXTENDS PageForms, TLAPS

-----------------------------------------------------------------------------
(* The table *)

\* What the proofs take from it: a guarded dialog is submitted once, the notice is that
\* of a guarded dialog, and a dialog that edits data closes on success and is not
\* always there.
FormSound(f) ==
  /\ f.guarded => f.once
  /\ f.success = "notice" => f.guarded /\ f.drops = {TRUE}
  /\ f.fills = "data" => f.success = "closes" /\ f.drops # {}
  /\ f.fills \in {"nothing", "data", "opening", "blank"}

\* The kinds of forms are sound.
LEMMA KindsSound ==
  /\ FormSound(GuardedDialog("asks", FALSE)) /\ FormSound(GuardedDialog("closes", FALSE))
  /\ FormSound(GuardedDialog("closes", TRUE)) /\ FormSound(GuardedDialog("notice", FALSE))
  /\ FormSound(EditDialog("body")) /\ FormSound(EditDialog("empty"))
  /\ FormSound(InlineForm({FALSE})) /\ FormSound(InlineForm({TRUE, FALSE}))
<1>1. /\ FormSound(GuardedDialog("asks", FALSE)) /\ FormSound(GuardedDialog("closes", FALSE))
      /\ FormSound(GuardedDialog("closes", TRUE)) /\ FormSound(GuardedDialog("notice", FALSE))
  BY DEF FormSound, GuardedDialog, Form
<1>2. FormSound(EditDialog("body")) /\ FormSound(EditDialog("empty"))
  BY DEF FormSound, EditDialog, Form
<1>3. FormSound(InlineForm({FALSE})) /\ FormSound(InlineForm({TRUE, FALSE}))
  BY DEF FormSound, InlineForm, Form
<1> QED
  BY <1>1, <1>2, <1>3

\* So are those of the table.
LEMMA TableSound == \A f \in DOMAIN Forms : FormSound(Forms[f])
<1>1. /\ FormSound(EditConfigDialog) /\ FormSound(BandwidthDialog) /\ FormSound(QuotaDialog)
      /\ FormSound(CreateSnapshotDialog) /\ FormSound(CreateNetworkDialog)
      /\ FormSound(CreateInstanceDialog) /\ FormSound(PullImageDialog)
      /\ FormSound(ProxyRuleForm) /\ FormSound(SSHKeyForm) /\ FormSound(CreatePlanForm)
  BY KindsSound DEF EditConfigDialog, BandwidthDialog, QuotaDialog, CreateSnapshotDialog,
     CreateNetworkDialog, CreateInstanceDialog, PullImageDialog, ProxyRuleForm, SSHKeyForm,
     CreatePlanForm
<1>2. FormSound(EditPlanForm) /\ FormSound(AllowedImageForm) /\ FormSound(PasswordDialog)
  BY DEF FormSound, EditPlanForm, AllowedImageForm, PasswordDialog, Form
<1> QED
  BY <1>1, <1>2 DEF Forms

\* The form in use is one of them.
LEMMA TheSound ==
  ASSUME form \in FormsInUse
  PROVE  FormSound(The)
BY TableSound, FormsAssumption DEF The
-----------------------------------------------------------------------------
(* Types *)

\* An open form has been opened.
Opened == open => opening # 0

\* What a form is filled with is a draft.
LEMMA DraftsTyped ==
  ASSUME FormsTypeOK
  PROVE  Blank \in Drafts /\ Filled(shown) \in Drafts
<1>1. shown \in 0..MaxSaved /\ 0 \in 0..MaxSaved /\ 0 \in 0..MaxOpenings
  BY FormBounds DEF FormsTypeOK
<1> QED
  BY <1>1 DEF Blank, Filled, Drafts

\* An answer leaves draft, notice and screen as values of their types.
LEMMA AnswerTyped ==
  ASSUME FormsTypeOK, Opened, Closes \/ AsksToClose \/ ShowsNotice \/ StaysOpen
  PROVE  /\ open' \in BOOLEAN /\ draft' \in Drafts /\ notice' \in BOOLEAN
         /\ open' => open
<1>1. Blank \in Drafts /\ draft \in Drafts /\ open \in BOOLEAN /\ notice \in BOOLEAN
  BY DraftsTyped DEF FormsTypeOK
<1>2. CASE Closes
  BY <1>1, <1>2 DEF Closes
<1>3. CASE AsksToClose
  <2>1. CASE UNCHANGED << open, draft >>
    <3>1. open' = open /\ draft' = draft /\ notice' = notice
      BY <1>3, <2>1 DEF AsksToClose
    <3> QED
      BY <1>1, <3>1
  <2>2. CASE open' = FALSE /\ draft' = Blank
    <3>1. notice' = notice
      BY <1>3 DEF AsksToClose
    <3> QED
      BY <1>1, <2>2, <3>1
  <2> QED
    BY <1>3, <2>1, <2>2 DEF AsksToClose
<1>4. CASE ShowsNotice
  BY <1>1, <1>4 DEF ShowsNotice
<1>5. CASE StaysOpen
  BY <1>1, <1>5 DEF StaysOpen
<1> QED
  BY <1>2, <1>3, <1>4, <1>5

\* Any step keeps the types.
LEMMA FormsTypeStep ==
  ASSUME FormsTypeOK, Opened, [FormsNext]_formVars
  PROVE  FormsTypeOK' /\ Opened'
<1>1. CASE OpenForm
  BY <1>1, DraftsTyped, FormBounds DEF OpenForm, FormsTypeOK, Opened
<1>2. CASE Type
  <2>1. opening \in 0..MaxOpenings /\ draft \in Drafts
    BY DEF FormsTypeOK
  <2>2. draft' \in Drafts
    BY <1>2, <2>1 DEF Type, Drafts
  <2> QED
    BY <1>2, <2>2 DEF Type, FormsTypeOK, Opened
<1>3. CASE Submit
  <2>1. sends + 1 \in 1..MaxSends /\ opening \in 1..MaxOpenings /\ draft \in Drafts
    BY <1>3, FormBounds DEF Submit, FormsTypeOK, Opened
  <2>2. [id |-> sends + 1, opening |-> opening, draft |-> draft, served |-> FALSE]
          \in Submissions
    BY <2>1 DEF Submissions
  <2>3. sends' \in 0..MaxSends
    BY <1>3, <2>1, FormBounds DEF Submit
  <2> QED
    BY <1>3, <2>2, <2>3 DEF Submit, FormsTypeOK, Opened
<1>4. CASE CloseForm
  BY <1>4, DraftsTyped DEF CloseForm, FormsTypeOK, Opened
<1>5. ASSUME NEW r \in pending, Serve(r) PROVE FormsTypeOK' /\ Opened'
  <2>1. r \in Submissions
    BY DEF FormsTypeOK
  <2>2. [r EXCEPT !.served = TRUE] \in Submissions
    BY <2>1 DEF Submissions
  <2>3. saved' \in 1..MaxSaved /\ shown \in 0..saved'
    BY <1>5, FormBounds DEF Serve, FormsTypeOK
  <2> QED
    BY <1>5, <2>2, <2>3 DEF Serve, FormsTypeOK, Opened
<1>6. ASSUME NEW r \in pending, Succeed(r) PROVE FormsTypeOK' /\ Opened'
  <2>1. r.opening \in 1..MaxOpenings
    BY DEF FormsTypeOK, Submissions
  <2>2. open' \in BOOLEAN /\ draft' \in Drafts /\ notice' \in BOOLEAN /\ (open' => open)
    BY <1>6, AnswerTyped DEF Succeed
  <2> QED
    BY <1>6, <2>1, <2>2 DEF Succeed, FormsTypeOK, Opened
<1>7. ASSUME NEW r \in pending, FailToSubmit(r) PROVE FormsTypeOK' /\ Opened'
  BY <1>7 DEF FailToSubmit, FormsTypeOK, Opened
<1>8. CASE SomebodySaves
  BY <1>8, FormBounds DEF SomebodySaves, FormsTypeOK, Opened
<1>9. CASE Show
  <2>1. shown' \in 0..saved /\ shown' \in 0..MaxSaved /\ 0 \in 0..MaxOpenings
    BY <1>9, FormBounds DEF Show, FormsTypeOK
  <2>2. Filled(shown') \in Drafts
    BY <2>1 DEF Filled, Drafts
  <2> QED
    BY <1>9, <2>1, <2>2 DEF Show, FormsTypeOK, Opened
<1>10. CASE UNCHANGED formVars
  BY <1>10 DEF formVars, FormsTypeOK, Opened
<1> QED
  BY <1>1, <1>2, <1>3, <1>4, <1>5, <1>6, <1>7, <1>8, <1>9, <1>10 DEF FormsNext

\* The behaviour begins with them.
LEMMA FormsTypeInit ==
  ASSUME FormsInit
  PROVE  FormsTypeOK /\ Opened
<1>1. /\ 0 \in 0..MaxSaved /\ 0 \in 0..MaxOpenings /\ 1 \in 0..MaxOpenings
      /\ 0 \in 0..MaxSends /\ 1 \in 1..MaxSaved /\ 0 \in 0..1
  BY FormBounds
<1>2. Blank \in Drafts
  BY <1>1 DEF Blank, Drafts
<1>3. open \in BOOLEAN /\ opening \in 0..MaxOpenings /\ (open => opening # 0)
  <2>1. CASE The.drops = {}
    <3>1. open = TRUE /\ opening = 1
      BY <2>1 DEF FormsInit
    <3> QED
      BY <1>1, <3>1
  <2>2. CASE The.drops # {}
    <3>1. open = FALSE /\ opening = 0
      BY <2>2 DEF FormsInit
    <3> QED
      BY <1>1, <3>1
  <2> QED
    BY <2>1, <2>2
<1>4. /\ form \in FormsInUse /\ draft \in Drafts /\ notice \in BOOLEAN
      /\ pending \subseteq Submissions /\ accepted \subseteq 1..MaxOpenings
  BY <1>2 DEF FormsInit
<1>5. sends \in 0..MaxSends /\ saved \in 1..MaxSaved /\ shown \in 0..saved
  BY <1>1 DEF FormsInit
<1> QED
  BY <1>3, <1>4, <1>5 DEF FormsTypeOK, Opened

\* Screen, fields, submissions and data keep to their types, and a form that is open was
\* opened.
THEOREM FormsTypeCorrect == FormsSpec => [](FormsTypeOK /\ Opened)
<1>1. FormsInit => FormsTypeOK /\ Opened
  BY FormsTypeInit
<1>2. (FormsTypeOK /\ Opened) /\ [FormsNext]_formVars => (FormsTypeOK /\ Opened)'
  BY FormsTypeStep
<1> QED
  BY <1>1, <1>2, PTL DEF FormsSpec
-----------------------------------------------------------------------------
(* What an answer meets *)

\* A notice is shown by the dialog that has one.
NoticeOfDialog == notice => The.success = "notice"

\* No answer meets a guarded dialog other than in its own opening.
LEMMA OwnAnswerStep ==
  ASSUME FormsTypeOK, OwnAnswer, [FormsNext]_formVars
  PROVE  OwnAnswer'
<1> SUFFICES ASSUME The'.guarded, NEW q \in pending'
             PROVE  open' /\ q.opening = opening' /\ pending' = {q}
  BY DEF OwnAnswer
<1>0. The' = The /\ The.once
  <2>1. form' = form
    BY DEF FormsNext, formVars, OpenForm, Type, Submit, CloseForm, Serve, Succeed,
       FailToSubmit, SomebodySaves, Show
  <2> QED
    BY <2>1, TheSound DEF The, FormsTypeOK, FormSound
<1>1. CASE OpenForm
  BY <1>0, <1>1 DEF OpenForm, OwnAnswer
<1>2. CASE Type
  BY <1>0, <1>2 DEF Type, OwnAnswer
<1>3. CASE Submit
  <2>1. pending = {}
    BY <1>0, <1>3, Zenon DEF Submit, IsPending
  <2>2. open /\ open' = open /\ opening' = opening
    BY <1>3 DEF Submit
  <2>3. \E new : pending' = {new} /\ new.opening = opening
    <3> DEFINE new == [id |-> sends + 1, opening |-> opening, draft |-> draft, served |-> FALSE]
    <3>1. pending' = {new}
      BY <1>3, <2>1 DEF Submit
    <3>2. new.opening = opening
      OBVIOUS
    <3> QED
      BY <3>1, <3>2
  <2> QED
    BY <2>2, <2>3
<1>4. CASE CloseForm
  BY <1>0, <1>4 DEF CloseForm, IsPending
<1>5. ASSUME NEW r \in pending, Serve(r)
      PROVE  open' /\ q.opening = opening' /\ pending' = {q}
  <2>1. pending = {r} /\ open /\ r.opening = opening /\ r \in Submissions
    BY <1>0 DEF OwnAnswer, FormsTypeOK
  <2>2. [r EXCEPT !.served = TRUE].opening = r.opening
    BY <2>1 DEF Submissions
  <2> QED
    BY <1>5, <2>1, <2>2 DEF Serve
<1>6. ASSUME NEW r \in pending, Succeed(r) \/ FailToSubmit(r)
      PROVE  open' /\ q.opening = opening' /\ pending' = {q}
  <2>1. pending = {r}
    BY <1>0 DEF OwnAnswer
  <2> QED
    BY <1>6, <2>1 DEF Succeed, FailToSubmit
<1>7. CASE SomebodySaves \/ Show \/ UNCHANGED formVars
  BY <1>0, <1>7 DEF SomebodySaves, Show, formVars, OwnAnswer
<1> QED
  BY <1>1, <1>2, <1>3, <1>4, <1>5, <1>6, <1>7 DEF FormsNext

\* The notice comes with its own answer and goes with the dialog.
LEMMA NoticeStep ==
  ASSUME FormsTypeOK, OwnAnswer, NoticeIsOwn, NoticeOfDialog, [FormsNext]_formVars
  PROVE  NoticeIsOwn' /\ NoticeOfDialog'
<1>0. The' = The
  BY DEF The, FormsNext, formVars, OpenForm, Type, Submit, CloseForm, Serve, Succeed,
     FailToSubmit, SomebodySaves, Show
<1>1. CASE OpenForm
  BY <1>0, <1>1 DEF OpenForm, NoticeIsOwn, NoticeOfDialog
<1>2. CASE Type \/ Submit \/ SomebodySaves \/ Show \/ UNCHANGED formVars
  BY <1>0, <1>2 DEF Type, Submit, SomebodySaves, Show, formVars, NoticeIsOwn, NoticeOfDialog
<1>3. CASE CloseForm
  <2>1. notice' => notice
    BY <1>3 DEF CloseForm
  <2>2. ~ notice'
    <3> SUFFICES ASSUME notice PROVE ~ notice'
      BY <2>1
    <3>1. The.drops = {TRUE}
      BY TheSound DEF FormsTypeOK, FormSound, NoticeOfDialog
    <3> QED
      BY <1>3, <3>1 DEF CloseForm
  <2> QED
    BY <2>2 DEF NoticeIsOwn, NoticeOfDialog
<1>4. ASSUME NEW r \in pending, Serve(r) \/ FailToSubmit(r)
      PROVE  NoticeIsOwn' /\ NoticeOfDialog'
  BY <1>0, <1>4 DEF Serve, FailToSubmit, NoticeIsOwn, NoticeOfDialog
<1>5. ASSUME NEW r \in pending, Succeed(r)
      PROVE  NoticeIsOwn' /\ NoticeOfDialog'
  <2>1. CASE ShowsNotice
    <3>1. The.guarded
      BY <2>1, TheSound DEF ShowsNotice, FormsTypeOK, FormSound
    <3>2. open /\ r.opening = opening
      BY <3>1 DEF OwnAnswer
    <3> QED
      BY <1>0, <1>5, <2>1, <3>2 DEF Succeed, ShowsNotice, NoticeIsOwn, NoticeOfDialog
  <2>2. CASE Closes \/ AsksToClose \/ StaysOpen
    <3>1. ~ notice /\ ~ notice'
      BY <2>2 DEF Closes, AsksToClose, StaysOpen, NoticeOfDialog
    <3> QED
      BY <3>1 DEF NoticeIsOwn, NoticeOfDialog
  <2> QED
    BY <1>5, <2>1, <2>2 DEF Succeed
<1> QED
  BY <1>1, <1>2, <1>3, <1>4, <1>5 DEF FormsNext

\* An answer finds a guarded dialog in the opening it was sent from.
THEOREM AnswersAreOwn == FormsSpec => []OwnAnswer
<1>1. FormsInit => OwnAnswer
  BY DEF FormsInit, OwnAnswer
<1>2. FormsTypeOK /\ OwnAnswer /\ [FormsNext]_formVars => OwnAnswer'
  BY OwnAnswerStep
<1> QED
  BY <1>1, <1>2, FormsTypeCorrect, PTL DEF FormsSpec

\* "Being pulled" is shown only for a pull of this opening that was accepted.
THEOREM NoticesAreOwn == FormsSpec => []NoticeIsOwn
<1>1. FormsInit => NoticeIsOwn /\ NoticeOfDialog
  BY DEF FormsInit, NoticeIsOwn, NoticeOfDialog
<1>2. FormsTypeOK /\ OwnAnswer /\ (NoticeIsOwn /\ NoticeOfDialog) /\ [FormsNext]_formVars
        => (NoticeIsOwn /\ NoticeOfDialog)'
  BY NoticeStep
<1> QED
  BY <1>1, <1>2, FormsTypeCorrect, AnswersAreOwn, PTL DEF FormsSpec
-----------------------------------------------------------------------------
(* What a form has in its fields *)

\* A step leaves the kind of the form.
LEMMA FormKept ==
  ASSUME [FormsNext]_formVars
  PROVE  The' = The
BY DEF The, FormsNext, formVars, OpenForm, Type, Submit, CloseForm, Serve, Succeed,
   FailToSubmit, SomebodySaves, Show

\* Every step refills an edit dialog that is open with newer data, or leaves both.
LEMMA BaseStep ==
  ASSUME FormsTypeOK, NoStaleBase, [FormsNext]_formVars
  PROVE  NoStaleBase'
<1> SUFFICES ASSUME open', The.fills = "data"
             PROVE  draft'.base = shown'
  BY FormKept DEF NoStaleBase
<1>1. CASE OpenForm
  BY <1>1 DEF OpenForm, Filled
<1>2. CASE Type
  <2>1. draft.base = shown /\ draft \in Drafts
    BY <1>2 DEF Type, NoStaleBase, FormsTypeOK
  <2> QED
    BY <1>2, <2>1 DEF Type, Drafts
<1>3. CASE Submit \/ SomebodySaves \/ UNCHANGED formVars
  BY <1>3 DEF Submit, SomebodySaves, formVars, NoStaleBase
<1>4. CASE CloseForm
  BY <1>4 DEF CloseForm
<1>5. ASSUME NEW r \in pending, Serve(r) \/ FailToSubmit(r)
      PROVE  draft'.base = shown'
  BY <1>5 DEF Serve, FailToSubmit, NoStaleBase
<1>6. ASSUME NEW r \in pending, Succeed(r)
      PROVE  draft'.base = shown'
  <2>1. The.success = "closes"
    BY TheSound DEF FormsTypeOK, FormSound
  <2>2. Closes
    BY <1>6, <2>1 DEF Succeed, AsksToClose, ShowsNotice, StaysOpen
  <2> QED
    BY <2>2 DEF Closes
<1>7. CASE Show
  BY <1>7 DEF Show, Filled
<1> QED
  BY <1>1, <1>2, <1>3, <1>4, <1>5, <1>6, <1>7 DEF FormsNext

\* A dialog that edits the page's data is saved on the newest version the page has.
THEOREM BaseIsNew == FormsSpec => []NoStaleBase
<1>1. FormsInit => NoStaleBase
  <2> SUFFICES ASSUME FormsInit, The.fills = "data"
               PROVE  ~ open
    BY DEF NoStaleBase
  <2>1. The.drops # {}
    BY TheSound DEF FormsInit, FormSound
  <2> QED
    BY <2>1 DEF FormsInit
<1>2. FormsTypeOK /\ NoStaleBase /\ [FormsNext]_formVars => NoStaleBase'
  BY BaseStep
<1> QED
  BY <1>1, <1>2, FormsTypeCorrect, PTL DEF FormsSpec

\* Nothing typed is left in a form that starts afresh without being filled, once it is
\* closed; and in an open one, only what was typed in this opening.
LeftEmpty ==
  StartsAfresh => IF open THEN draft.typed \in {0, opening}
                          ELSE The.fills = "nothing" => draft.typed = 0

\* An answer keeps it.
LEMMA AnswerLeavesEmpty ==
  ASSUME FormsTypeOK, LeftEmpty, StartsAfresh, The' = The, opening' = opening,
         Closes \/ AsksToClose \/ ShowsNotice \/ StaysOpen
  PROVE  IF open' THEN draft'.typed \in {0, opening'}
                  ELSE The.fills = "nothing" => draft'.typed = 0
<1>1. Blank.typed = 0
  BY DEF Blank
<1>2. CASE Closes
  <2>1. ~ open'
    BY <1>2 DEF Closes
  <2>2. ASSUME The.fills = "nothing" PROVE draft'.typed = 0
    <3>1. The.clears
      BY <1>2, <2>2 DEF Closes, StartsAfresh
    <3>2. draft' = Blank
      BY <1>2, <3>1, Zenon DEF Closes
    <3> QED
      BY <1>1, <3>2
  <2> QED
    BY <2>1, <2>2
<1>3. CASE AsksToClose
  <2>1. CASE UNCHANGED << open, draft >>
    BY <2>1 DEF LeftEmpty
  <2>2. CASE open' = FALSE /\ draft' = Blank
    BY <1>1, <2>2
  <2> QED
    BY <1>3, <2>1, <2>2 DEF AsksToClose
<1>4. CASE ShowsNotice
  BY <1>4 DEF ShowsNotice, LeftEmpty
<1>5. CASE StaysOpen
  <2>1. open' = open /\ (draft' = Blank \/ draft' = draft)
    BY <1>5 DEF StaysOpen
  <2> QED
    BY <1>1, <2>1 DEF LeftEmpty
<1> QED
  BY <1>2, <1>3, <1>4, <1>5

\* So does every other step.
LEMMA EmptyStep ==
  ASSUME FormsTypeOK, LeftEmpty, [FormsNext]_formVars
  PROVE  LeftEmpty'
<1>0. The' = The /\ (StartsAfresh' => StartsAfresh)
  BY FormKept DEF StartsAfresh
<1> SUFFICES ASSUME StartsAfresh
             PROVE  IF open' THEN draft'.typed \in {0, opening'}
                             ELSE The.fills = "nothing" => draft'.typed = 0
  BY <1>0 DEF LeftEmpty
<1>1. CASE OpenForm
  <2>1. ~ open /\ open'
    BY <1>1 DEF OpenForm
  <2>2. CASE The.fills = "nothing"
    BY <1>1, <2>1, <2>2 DEF OpenForm, LeftEmpty
  <2>3. CASE The.fills \in {"data", "opening", "blank"}
    BY <1>1, <2>1, <2>3 DEF OpenForm, Filled, Blank
  <2>4. The.fills \in {"nothing", "data", "opening", "blank"}
    BY TheSound DEF FormsTypeOK, FormSound
  <2> QED
    BY <2>2, <2>3, <2>4
<1>2. CASE Type
  <2>1. draft \in Drafts
    BY DEF FormsTypeOK
  <2>2. draft'.typed = opening
    BY <1>2, <2>1 DEF Type, Drafts
  <2> QED
    BY <1>2, <2>2 DEF Type
<1>3. CASE Submit \/ SomebodySaves \/ UNCHANGED formVars
  BY <1>3 DEF Submit, SomebodySaves, formVars, LeftEmpty
<1>4. CASE CloseForm
  <2>1. ~ open'
    BY <1>4 DEF CloseForm
  <2>2. ASSUME The.fills = "nothing" PROVE draft'.typed = 0
    <3>1. The.drops = {TRUE}
      BY <2>2 DEF StartsAfresh
    <3>2. draft' = Blank
      BY <1>4, <3>1 DEF CloseForm
    <3> QED
      BY <3>2 DEF Blank
  <2> QED
    BY <2>1, <2>2
<1>5. ASSUME NEW r \in pending, Serve(r) \/ FailToSubmit(r)
      PROVE  IF open' THEN draft'.typed \in {0, opening'}
                      ELSE The.fills = "nothing" => draft'.typed = 0
  BY <1>5 DEF Serve, FailToSubmit, LeftEmpty
<1>6. ASSUME NEW r \in pending, Succeed(r)
      PROVE  IF open' THEN draft'.typed \in {0, opening'}
                      ELSE The.fills = "nothing" => draft'.typed = 0
  <2>1. /\ Closes \/ AsksToClose \/ ShowsNotice \/ StaysOpen
        /\ opening' = opening
    BY <1>6 DEF Succeed
  <2> QED
    BY <1>0, <2>1, AnswerLeavesEmpty
<1>7. CASE Show
  <2>1. open' = open /\ opening' = opening
    BY <1>7 DEF Show
  <2>2. CASE open /\ The.fills = "data"
    <3>1. draft' = Filled(shown')
      BY <1>7, <2>2 DEF Show
    <3> QED
      BY <2>1, <2>2, <3>1 DEF Filled
  <2>3. CASE ~ (open /\ The.fills = "data")
    <3>1. draft' = draft
      BY <1>7, <2>3 DEF Show
    <3> QED
      BY <2>1, <3>1 DEF LeftEmpty
  <2> QED
    BY <2>2, <2>3
<1> QED
  BY <1>1, <1>2, <1>3, <1>4, <1>5, <1>6, <1>7 DEF FormsNext

\* What was typed in one opening is not there in the next.
THEOREM NothingIsLeftOver == FormsSpec => []NothingLeftOver
<1>1. FormsInit => LeftEmpty
  BY DEF FormsInit, LeftEmpty, Blank
<1>2. FormsTypeOK /\ LeftEmpty /\ [FormsNext]_formVars => LeftEmpty'
  BY EmptyStep
<1>3. LeftEmpty => NothingLeftOver
  BY DEF LeftEmpty, NothingLeftOver
<1> QED
  BY <1>1, <1>2, <1>3, FormsTypeCorrect, PTL DEF FormsSpec
=============================================================================
