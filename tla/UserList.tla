------------------------------ MODULE UserList ------------------------------
(***************************************************************************)
(* UsersPage.tsx, which keeps its list itself: reload when the page opens, *)
(* reload again after a user was created, and no order between the two     *)
(* answers.  The list is the number of changes it has seen.                *)
(***************************************************************************)
EXTENDS Naturals

CONSTANTS
  MaxUserChanges,   \* changes of the users: a bound
  MaxCreates        \* submissions of the form: a bound

ASSUME UserBounds == MaxUserChanges \in Nat \ {0} /\ MaxCreates \in Nat

VARIABLES
  usersNow,    \* the users of the panel, as a version
  users,       \* the page's list, 0 before the first answer
  loading, loadError,
  creating,    \* the form: idle, sent, made, reloading
  creates,     \* submissions so far
  created,     \* the version the last accepted one has made
  reloads,     \* the lists that are being fetched
  overlapped   \* two fetches were out at the same time

usersVars == << usersNow, users, loading, loadError, creating, creates, created, reloads,
                overlapped >>

Reload(by) == [by |-> by, stage |-> "asked", version |-> 0]

UsersInit ==
  /\ usersNow = 1 /\ users = 0 /\ loading = TRUE /\ loadError = FALSE
  /\ creating = "idle" /\ creates = 0 /\ created = 0
  /\ reloads = {Reload("mount")} /\ overlapped = FALSE

\* onCreate; the button is disabled until it has returned.
SubmitUser ==
  /\ creating = "idle" /\ creates < MaxCreates
  /\ creating' = "sent" /\ creates' = creates + 1
  /\ UNCHANGED << usersNow, users, loading, loadError, created, reloads, overlapped >>

MakeUser ==
  /\ creating = "sent" /\ usersNow < MaxUserChanges
  /\ usersNow' = usersNow + 1
  /\ creating' = "made" /\ created' = usersNow + 1
  /\ UNCHANGED << users, loading, loadError, creates, reloads, overlapped >>

\* An error is reported; the list is left as it is.
CreateFails ==
  /\ creating \in {"sent", "made"}
  /\ creating' = "idle" /\ created' = 0
  /\ UNCHANGED << usersNow, users, loading, loadError, creates, reloads, overlapped >>

\* The list is asked for while the user is being made.
ReloadsAtOnce ==
  /\ creating \in {"sent", "made"}
  /\ \A r \in reloads : r.by # "create"
  /\ creating' = creating
  /\ loading' = TRUE /\ loadError' = FALSE
  /\ reloads' = reloads \union {Reload("create")}
  /\ overlapped' = (overlapped \/ reloads # {})
  /\ UNCHANGED << usersNow, users, creates, created >>

\* The form closes, and the list is asked for.
CreateReloads ==
  /\ creating = "made"
  /\ creating' = "reloading"
  /\ loading' = TRUE /\ loadError' = FALSE
  /\ reloads' = reloads \union {Reload("create")}
  /\ overlapped' = (overlapped \/ reloads # {})
  /\ UNCHANGED << usersNow, users, creates, created >>

\* Other administrators; and this one's own deletions, whose answer 204 request cannot
\* read, so that the reload behind them is never reached.
UsersChange ==
  /\ usersNow < MaxUserChanges
  /\ usersNow' = usersNow + 1
  /\ UNCHANGED << users, loading, loadError, creating, creates, created, reloads,
                  overlapped >>

AnswerList(r) ==
  /\ r.stage = "asked"
  /\ reloads' = (reloads \ {r}) \union {[r EXCEPT !.stage = "answered", !.version = usersNow]}
  /\ UNCHANGED << usersNow, users, loading, loadError, creating, creates, created,
                  overlapped >>

\* reload ends; onCreate ends with the one it has waited for.
Ended(r) ==
  /\ reloads' = reloads \ {r}
  /\ loading' = FALSE
  /\ creating' = IF r.by = "create" THEN "idle" ELSE creating
  /\ UNCHANGED << usersNow, creates, created, overlapped >>

ShowList(r) ==
  /\ r.stage = "answered"
  /\ users' = r.version
  /\ Ended(r)
  /\ UNCHANGED loadError

ListFails(r) ==
  /\ loadError' = TRUE
  /\ Ended(r)
  /\ UNCHANGED users

UsersNext ==
  \/ SubmitUser \/ MakeUser \/ CreateFails \/ CreateReloads \/ UsersChange
  \/ \E r \in reloads : AnswerList(r) \/ ShowList(r) \/ ListFails(r)

UsersSpec == UsersInit /\ [][UsersNext]_usersVars
-----------------------------------------------------------------------------
\* When the button comes back after a user was accepted, the list has that user or the
\* page shows that it could not be loaded - as long as the list of the page's opening
\* was not still on its way, whose answer may come last and be older.
CreatedIsListed ==
  creating = "idle" /\ created # 0 /\ ~ overlapped => users >= created \/ loadError
=============================================================================
