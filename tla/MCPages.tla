------------------------------ MODULE MCPages ------------------------------
(***************************************************************************)
(* Parts that share nothing, in one run: the pages, of which a tab of the  *)
(* browser shows one, and the panel's key store.                           *)
(***************************************************************************)
EXTENDS PageForms, KeyPicker, Chart, UserList, Console, SSHKeys

VARIABLE page

vars == << page, formVars, keysVars, chartVars, usersVars, consoleVars, storeVars >>

\* A part that is not looked at has one initial state.
Init ==
  /\ page \in {"forms", "keys", "chart", "users", "console", "store"}
  /\ FormsInit /\ (page # "forms" => form = CHOOSE f \in FormsInUse : TRUE)
  /\ KeysInit /\ (page # "keys" => file = {})
  /\ ChartInit /\ UsersInit
  /\ ConsoleInit /\ (page # "console" => proxied /\ size = CHOOSE s \in Sizes : TRUE)
  /\ StoreInit /\ (page # "store" => onDisk = Missing)

ShowsForms ==
  /\ page = "forms" /\ FormsNext
  /\ UNCHANGED << page, keysVars, chartVars, usersVars, consoleVars, storeVars >>

ShowsKeys ==
  /\ page = "keys" /\ KeysNext
  /\ UNCHANGED << page, formVars, chartVars, usersVars, consoleVars, storeVars >>

ShowsChart ==
  /\ page = "chart" /\ ChartNext
  /\ UNCHANGED << page, formVars, keysVars, usersVars, consoleVars, storeVars >>

ShowsUsers ==
  /\ page = "users" /\ UsersNext
  /\ UNCHANGED << page, formVars, keysVars, chartVars, consoleVars, storeVars >>

ShowsConsole ==
  /\ page = "console" /\ ConsoleNext
  /\ UNCHANGED << page, formVars, keysVars, chartVars, usersVars, storeVars >>

ConsoleGoesOn ==
  /\ page = "console" /\ ConsoleProgress
  /\ UNCHANGED << page, formVars, keysVars, chartVars, usersVars, storeVars >>

StoreWorks ==
  /\ page = "store" /\ StoreNext
  /\ UNCHANGED << page, formVars, keysVars, chartVars, usersVars, consoleVars >>

Next ==
  \/ ShowsForms \/ ShowsKeys \/ ShowsChart \/ ShowsUsers \/ ShowsConsole
  \/ StoreWorks

Spec == Init /\ [][Next]_vars /\ WF_vars(ConsoleGoesOn)
=============================================================================
