------------------------------ MODULE Console ------------------------------
(***************************************************************************)
(* A console: the terminal of ConsolePage.tsx, the development server in   *)
(* between or not (dev-server.ts), and the handler Console, which relays   *)
(* keys and sizes to a bash that Incus runs in the instance.  Keys are     *)
(* numbered as they are sent, a size is a member of Sizes; what bash       *)
(* prints, which no step depends on, is left out.                          *)
(***************************************************************************)
EXTENDS Naturals, Sequences

CONSTANTS
  Sizes,       \* sizes of the terminal
  MaxKeys,     \* keys typed: a bound
  MaxResizes   \* changes of the window: a bound

ASSUME ConsoleBounds == Sizes \subseteq Nat /\ MaxKeys \in Nat /\ MaxResizes \in Nat

VARIABLES
  proxied,      \* the page was served by the development server
  ws,           \* the page's socket: connecting, open, closed
  size,         \* the page's terminal
  early,        \* its last change was made when nobody may have listened
  keys,         \* keys sent
  resizes,      \* changes of the window so far
  toProxy,      \* frames from the page to the development server
  toHandler,    \* frames to the handler
  backend,      \* the server's socket: none, connecting, open, closed
  handler,      \* none, execs, waits, relays, ended
  control,      \* controlConn: the handler has the control socket of the exec
  stdin,        \* the frames with keys that bash got
  stdinClosed,  \* the goroutine that reads from the browser is gone
  termSize      \* the size of bash's terminal

consoleVars == << proxied, ws, size, early, keys, resizes, toProxy, toHandler, backend,
                  handler, control, stdin, stdinClosed, termSize >>
pageVars == << ws, size, early, keys, resizes >>
handlerVars == << handler, control, stdin, stdinClosed, termSize >>

Frame(kind, n) == [kind |-> kind, n |-> n]

\* The size goes with the request, and the exec starts with it.
ConsoleInit ==
  /\ proxied \in BOOLEAN
  /\ ws = "connecting" /\ size \in Sizes /\ early = FALSE
  /\ keys = 0 /\ resizes = 0
  /\ toProxy = << >> /\ toHandler = << >> /\ backend = "none"
  /\ handler = "none" /\ control = FALSE
  /\ stdin = << >> /\ stdinClosed = FALSE /\ termSize = size
-----------------------------------------------------------------------------
\* The page.

Send(frame) ==
  IF proxied THEN toProxy' = Append(toProxy, frame) /\ UNCHANGED toHandler
             ELSE toHandler' = Append(toHandler, frame) /\ UNCHANGED toProxy

\* onopen fits the terminal to its container and tells nobody.
PageOpens ==
  /\ ws = "connecting"
  /\ IF proxied THEN backend # "none" ELSE handler # "none"
  /\ ws' = "open"
  /\ size' \in Sizes
  /\ early' = (early \/ size' # size)
  /\ UNCHANGED << proxied, keys, resizes, toProxy, toHandler, backend, handlerVars >>

\* onData: a key that is typed before the socket is open is gone.
PressKey ==
  /\ ws = "open" /\ keys < MaxKeys
  /\ keys' = keys + 1
  /\ Send(Frame("key", keys + 1))
  /\ UNCHANGED << proxied, ws, size, early, resizes, backend, handlerVars >>

\* fitAndResize: the server is told if the socket is open.
FitAndResize ==
  /\ ws # "closed" /\ resizes < MaxResizes
  /\ resizes' = resizes + 1
  /\ size' \in Sizes \ {size}
  /\ early' = (ws # "open" \/ (proxied /\ backend # "open"))
  /\ IF ws = "open" THEN Send(Frame("size", size')) ELSE UNCHANGED << toProxy, toHandler >>
  /\ UNCHANGED << proxied, ws, keys, backend, handlerVars >>

\* The page is left: the close goes behind the frames that were sent.
LeavePage ==
  /\ ws # "closed"
  /\ ws' = "closed"
  /\ Send(Frame("close", 0))
  /\ UNCHANGED << proxied, size, early, keys, resizes, backend, handlerVars >>

\* onclose.
PageHears ==
  /\ ws # "closed"
  /\ IF proxied THEN backend = "closed" ELSE handler = "ended"
  /\ ws' = "closed"
  /\ UNCHANGED << proxied, size, early, keys, resizes, toProxy, toHandler, backend,
                  handlerVars >>
-----------------------------------------------------------------------------
\* The development server.

ProxyUpgrades ==
  /\ proxied /\ backend = "none"
  /\ backend' = "connecting"
  /\ UNCHANGED << proxied, pageVars, toProxy, toHandler, handlerVars >>

BackendOpens ==
  /\ backend = "connecting" /\ handler # "none"
  /\ backend' = "open"
  /\ UNCHANGED << proxied, pageVars, toProxy, toHandler, handlerVars >>

\* The close of the page without the close of the backend.
ProxyForgets ==
  /\ proxied /\ backend # "none" /\ toProxy # << >>
  /\ toProxy' = Tail(toProxy)
  /\ toHandler' = IF Head(toProxy).kind # "close" /\ backend = "open"
                  THEN Append(toHandler, Head(toProxy)) ELSE toHandler
  /\ UNCHANGED << proxied, pageVars, backend, handlerVars >>

\* message drops what comes while the backend is not open; close closes it.
ProxyTakes ==
  /\ proxied /\ backend # "none" /\ toProxy # << >>
  /\ toProxy' = Tail(toProxy)
  /\ LET frame == Head(toProxy)
         closes == frame.kind = "close"
     IN  /\ backend' = IF closes THEN "closed" ELSE backend
         /\ toHandler' = IF closes \/ backend = "open" THEN Append(toHandler, frame)
                                                       ELSE toHandler
  /\ UNCHANGED << proxied, pageVars, handlerVars >>

BackendCloses ==
  /\ handler = "ended" /\ backend \in {"connecting", "open"}
  /\ backend' = "closed"
  /\ UNCHANGED << proxied, pageVars, toProxy, toHandler, handlerVars >>
-----------------------------------------------------------------------------
\* The handler.

Upgrade ==
  /\ handler = "none" /\ (proxied => backend = "connecting")
  /\ handler' = "execs"
  /\ UNCHANGED << proxied, pageVars, toProxy, toHandler, backend, control, stdin,
                  stdinClosed, termSize >>

\* ExecInstance; its failure ends the handler.
ExecInstance ==
  /\ handler = "execs"
  /\ handler' \in {"waits", "ended"}
  /\ UNCHANGED << proxied, pageVars, toProxy, toHandler, backend, control, stdin,
                  stdinClosed, termSize >>

\* The control socket, or five seconds without it: then it is never used.
GetControl ==
  /\ handler = "waits"
  /\ handler' = "relays"
  /\ control' \in BOOLEAN
  /\ UNCHANGED << proxied, pageVars, toProxy, toHandler, backend, stdin, stdinClosed,
                  termSize >>

\* The goroutine that reads is started before the wait.
ReadsAtOnce == handler \in {"waits", "relays"} /\ ~ stdinClosed

Reads == handler = "relays" /\ ~ stdinClosed

\* One look at controlConn for all frames.
RelayControlled ==
  /\ Reads /\ toHandler # << >>
  /\ toHandler' = Tail(toHandler)
  /\ LET frame == Head(toHandler)
     IN  /\ stdin' = IF frame.kind = "key" /\ control THEN Append(stdin, frame) ELSE stdin
         /\ termSize' = IF frame.kind = "size" /\ control THEN frame.n ELSE termSize
         /\ stdinClosed' = (frame.kind = "close")
  /\ UNCHANGED << proxied, pageVars, toProxy, backend, handler, control >>

\* A binary frame is for bash, a text frame for its terminal; the end of the socket is
\* the end of bash's input.
Relay ==
  /\ Reads /\ toHandler # << >>
  /\ toHandler' = Tail(toHandler)
  /\ LET frame == Head(toHandler)
     IN  /\ stdin' = IF frame.kind = "key" THEN Append(stdin, frame) ELSE stdin
         /\ termSize' = IF frame.kind = "size" /\ control THEN frame.n ELSE termSize
         /\ stdinClosed' = (frame.kind = "close")
  /\ UNCHANGED << proxied, pageVars, toProxy, backend, handler, control >>

\* bash ends when it likes; op.Wait and DataDone return, and the deferred Close.
BashEnds ==
  /\ handler = "relays"
  /\ handler' = "ended"
  /\ UNCHANGED << proxied, pageVars, toProxy, toHandler, backend, control, stdin,
                  stdinClosed, termSize >>

ConsoleNext ==
  \/ PageOpens \/ PressKey \/ FitAndResize \/ LeavePage \/ PageHears
  \/ ProxyUpgrades \/ BackendOpens \/ ProxyTakes \/ BackendCloses
  \/ Upgrade \/ ExecInstance \/ GetControl \/ Relay \/ BashEnds

ConsoleSpec == ConsoleInit /\ [][ConsoleNext]_consoleVars

\* Events that are delivered, calls that return, the five seconds that pass.
ConsoleProgress ==
  \/ PageHears \/ ProxyTakes \/ BackendCloses \/ ExecInstance \/ GetControl \/ Relay
-----------------------------------------------------------------------------
IsKey(frame) == frame.kind = "key"
Numbers(frames) == {frames[i].n : i \in {k \in 1..Len(frames) : IsKey(frames[k])}}
Rising(frames) ==
  \A i, j \in 1..Len(frames) :
    i < j /\ IsKey(frames[i]) /\ IsKey(frames[j]) => frames[i].n < frames[j].n
Below(low, high) == \A a \in low, b \in high : a < b
InARow(numbers) == \A a, b \in numbers : a..b \subseteq numbers

\* The keys that bash has got or will have got when it has read what is on its way to
\* the handler.
Heard == Numbers(stdin) \union Numbers(toHandler)
UnderWay == Heard \union Numbers(toProxy)

\* Once the handler has heard a key it misses none and mixes none up, whatever sizes go
\* between them and whether it has a control socket: what bash got and what waits for it
\* are keys in order and in a row.  They begin with the first unless the development
\* server was quicker than its backend; and until the backend is closed, what waits in
\* front of it goes on with them, to the last key that was sent.
KeysArrive ==
  /\ Rising(stdin) /\ Rising(toHandler) /\ Rising(toProxy)
  /\ Below(Numbers(stdin), Numbers(toHandler)) /\ Below(Heard, Numbers(toProxy))
  /\ InARow(Heard)
  /\ backend # "closed" => InARow(UnderWay) /\ (UnderWay # {} => keys \in UnderWay)
  /\ ~ proxied => Heard = 1..keys

\* When every frame has been read, bash's terminal has the size of the page's - if the
\* control socket came in time, and the last change was made when its page, and the
\* development server behind it, could pass it on.
SizeFollows ==
  Reads /\ control /\ ~ early /\ toProxy = << >> /\ toHandler = << >>
    => termSize = size

\* A page that was left takes the input of its bash with it, also through the
\* development server; and a console that has ended is reported to its page.
ConsoleEnds ==
  /\ (ws = "closed" /\ handler # "none") ~> (stdinClosed \/ handler = "ended")
  /\ (handler = "ended") ~> (ws = "closed")
=============================================================================
