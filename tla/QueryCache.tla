----------------------------- MODULE QueryCache -----------------------------
(***************************************************************************)
(* What the pages take from @tanstack/react-query, as src/web/src/main.tsx *)
(* sets it up: one cache for the page load, an entry per query key, at     *)
(* most one fetch per entry, a failed fetch repeated retry times, and      *)
(* invalidateQueries, which starts a fetch anew.  The library is external; *)
(* only the retries are the panel's choice.                                *)
(*                                                                         *)
(* A fetch is asked, answered (the server reads what it has at that        *)
(* moment) and delivered.  The mounted pages are what the entries are for: *)
(* every key has an observer.                                              *)
(***************************************************************************)
EXTENDS Naturals

CONSTANTS
  Keys,      \* query keys
  NoData,    \* an entry no answer has come for
  Retries    \* how often a failed fetch is repeated

ASSUME RetriesAssumption == Retries \in Nat

VARIABLES
  server,    \* what the server would answer for each key now
  cache,     \* the data of each entry
  fetch,     \* its fetch: idle, asked, answered
  answer,    \* what the server answered
  tries,     \* failures of the fetch so far
  invalid    \* the entry is to be fetched again: isInvalidated

queryVars == << cache, fetch, answer, tries, invalid >>

QueryInit ==
  /\ cache = [k \in Keys |-> NoData]
  /\ fetch = [k \in Keys |-> "asked"]
  /\ answer = [k \in Keys |-> NoData]
  /\ tries = [k \in Keys |-> 0]
  /\ invalid = [k \in Keys |-> FALSE]

\* A first load, or a reload that found nothing: isLoading.
Loading(k) == cache[k] = NoData /\ fetch[k] # "idle"

\* A fetch by a timer, a focus of the window or a mount: none while one is in flight.
Ask(k) ==
  /\ fetch[k] = "idle"
  /\ fetch' = [fetch EXCEPT ![k] = "asked"]
  /\ tries' = [tries EXCEPT ![k] = 0]
  /\ UNCHANGED << cache, answer, invalid >>

Answer(k) ==
  /\ fetch[k] = "asked"
  /\ fetch' = [fetch EXCEPT ![k] = "answered"]
  /\ answer' = [answer EXCEPT ![k] = server[k]]
  /\ UNCHANGED << cache, tries, invalid >>

\* The entry is no longer invalid, whatever was asked for since the answer.
Deliver(k) ==
  /\ fetch[k] = "answered"
  /\ cache' = [cache EXCEPT ![k] = answer[k]]
  /\ fetch' = [fetch EXCEPT ![k] = "idle"]
  /\ invalid' = [invalid EXCEPT ![k] = FALSE]
  /\ UNCHANGED << answer, tries >>

\* The first failure is the last.
FailForGood(k) ==
  /\ fetch[k] # "idle"
  /\ fetch' = [fetch EXCEPT ![k] = "idle"]
  /\ tries' = [tries EXCEPT ![k] = @ + 1]
  /\ UNCHANGED << cache, answer, invalid >>

\* The entry keeps its data and stays invalid when the last try fails.
Fail(k) ==
  /\ fetch[k] # "idle"
  /\ fetch' = [fetch EXCEPT ![k] = IF tries[k] < Retries THEN "asked" ELSE "idle"]
  /\ tries' = [tries EXCEPT ![k] = @ + 1]
  /\ UNCHANGED << cache, answer, invalid >>

\* A fetch that would only bring older data is let go on: the old answer counts.
InvalidateKeepsFetch(ks) ==
  /\ invalid' = [k \in Keys |-> invalid[k] \/ k \in ks]
  /\ fetch' = [k \in Keys |-> IF k \in ks /\ fetch[k] = "idle" THEN "asked" ELSE fetch[k]]
  /\ tries' = [k \in Keys |-> IF k \in ks /\ fetch[k] = "idle" THEN 0 ELSE tries[k]]
  /\ UNCHANGED << cache, answer >>

\* invalidateQueries: the fetch in flight is given up and another begins, but for
\* the first load, which goes on (cancelRefetch has nothing to fall back on).
Invalidate(ks) ==
  /\ invalid' = [k \in Keys |-> invalid[k] \/ k \in ks]
  /\ fetch' = [k \in Keys |-> IF k \in ks /\ ~ Loading(k) THEN "asked" ELSE fetch[k]]
  /\ tries' = [k \in Keys |-> IF k \in ks /\ ~ Loading(k) THEN 0 ELSE tries[k]]
  /\ UNCHANGED << cache, answer >>
=============================================================================
