---------------------------- MODULE UdhcpcClient ----------------------------
(***************************************************************************)
(* One DHCPClient of pkg/udhcpc/client.go: the udhcpc process, the handler *)
(* it runs for each event (cmd/udhcpc-handler, a writer of the same pipe), *)
(* the scanner goroutine of Start, the one-place channel, its reader, the  *)
(* goroutine that calls cmd.Wait, and the caller: GetIP with Reap ("once") *)
(* or the dhcpManager's supervisor with Release ("persistent").            *)
(*                                                                         *)
(* os/exec is external: Wait returns when the process has exited, and it   *)
(* closes the read end of StdoutPipe, whatever is still unread in it.      *)
(***************************************************************************)
EXTENDS Subsequences

CONSTANT MaxLines   \* bound on the lines written to the pipe

ASSUME MaxLinesAssumption == MaxLines \in Nat \ {0}

Kind == {"bound", "other"}   \* other: deconfig, leasefail, nak, collision
Line == Kind \cup {"noise"}   \* noise: a line that is no event in JSON

VARIABLES
  mode,      \* who uses the client: "once" or "persistent"
  process,   \* udhcpc: "running", "ok" (exit status 0) or "failed"
  signal,    \* the strongest signal sent to it: "none", "term" or "kill"
  handler,   \* a handler process is running
  written,   \* the number of lines written
  leased,    \* one of them was "bound" (or "renew")
  pipe,      \* the unread lines
  readEnd,   \* the read end of the pipe is open
  scanner,   \* the scanner goroutine: "read", "send" or "done"
  line,      \* the event it has decoded
  events,    \* the channel
  reader,    \* the loop over the channel: "range", "stopped" or "done"
  info,      \* the reader has seen a lease
  waiter,    \* the goroutine in cmd.Wait: "none", "wait", "send" or "done"
  expired,   \* the deadline of the caller's context has passed
  caller,    \* "start", "select", "await" (<-readerDone) or "returned"
  result     \* what the caller got: "none", "lease", "nolease" or "error"

childVars  == <<process, signal, handler, written, leased>>
scanVars   == <<readEnd, scanner, line>>
callerVars == <<waiter, expired, caller, result>>
vars == <<mode, childVars, pipe, scanVars, events, reader, info, callerVars>>

TypeOK ==
  /\ mode \in {"once", "persistent"}
  /\ process \in {"running", "ok", "failed"}
  /\ signal \in {"none", "term", "kill"}
  /\ handler \in BOOLEAN
  /\ written \in 0 .. MaxLines /\ leased \in BOOLEAN
  /\ pipe \in Seq(Line) /\ Len(pipe) <= written
  /\ readEnd \in BOOLEAN
  /\ scanner \in {"read", "send", "done"} /\ line \in Kind
  /\ events \in Seq(Kind) /\ Len(events) <= 1
  /\ reader \in {"range", "stopped", "done"}
  /\ info \in BOOLEAN
  /\ waiter \in {"none", "wait", "send", "done"}
  /\ expired \in BOOLEAN
  /\ caller \in {"start", "select", "await", "returned"}
  /\ result \in {"none", "lease", "nolease", "error"}

\* Start has succeeded.
Init ==
  /\ mode \in {"once", "persistent"}
  /\ process = "running" /\ signal = "none" /\ handler = FALSE
  /\ written = 0 /\ leased = FALSE
  /\ pipe = <<>> /\ readEnd = TRUE
  /\ scanner = "read" /\ line = "other"
  /\ events = <<>>
  /\ reader = "range" /\ info = FALSE
  /\ waiter = "none" /\ expired = FALSE /\ caller = "start" /\ result = "none"

Exited == process # "running"

----------------------------------------------------------------------------
(* udhcpc (external) and its handler.                                       *)

\* udhcpc runs its script for an event.
HandlerStarts ==
  /\ process = "running" /\ ~handler /\ written < MaxLines
  /\ mode = "once" => ~leased
  /\ handler' = TRUE
  /\ UNCHANGED <<mode, process, signal, written, leased, pipe, scanVars, events,
                 reader, info, callerVars>>

\* The handler writes its line (a write to a closed pipe is lost) and exits ...
HandlerWrites == \E k \in Kind :
  /\ handler /\ handler' = FALSE
  /\ written' = written + 1
  /\ leased' = (leased \/ k = "bound")
  /\ pipe' = IF readEnd THEN Append(pipe, k) ELSE pipe
  /\ UNCHANGED <<mode, process, signal, scanVars, events, reader, info,
                 callerVars>>

\* ... or exits without a line: it does not know the event's type, or cannot
\* parse the IPv6 address and dereferences the nil network it got instead.
HandlerSilent ==
  /\ handler /\ handler' = FALSE
  /\ UNCHANGED <<mode, process, signal, written, leased, pipe, scanVars, events,
                 reader, info, callerVars>>

\* The pipe is udhcpc's own standard output: what it prints itself is no event.
StrayLine ==
  /\ process = "running" /\ ~handler /\ written < MaxLines
  /\ written' = written + 1 /\ pipe' = Append(pipe, "noise")
  /\ UNCHANGED <<mode, process, signal, handler, leased, scanVars, events, reader,
                 info, callerVars>>

\* With -q udhcpc exits after its lease; it waits for its script, a killed one
\* does not.  It may also exit for a reason of its own, or on SIGTERM.
ProcessExits ==
  /\ process = "running" /\ (handler => signal = "kill")
  /\ process' = IF mode = "once" /\ leased /\ signal = "none" THEN "ok"
                                                              ELSE "failed"
  /\ UNCHANGED <<mode, signal, handler, written, leased, pipe, scanVars, events,
                 reader, info, callerVars>>

----------------------------------------------------------------------------
(* Start's scanner goroutine.                                               *)

\* A line that cannot be decoded is logged and skipped.
ScanLine ==
  /\ scanner = "read" /\ pipe # <<>> /\ pipe' = Tail(pipe)
  /\ IF Head(pipe) \in Kind THEN line' = Head(pipe) /\ scanner' = "send"
                           ELSE UNCHANGED <<line, scanner>>
  /\ UNCHANGED <<mode, childVars, readEnd, events, reader, info, callerVars>>

\* End of file, when no writer is left, or an error on the closed read end.
ScanEnds ==
  /\ scanner = "read" /\ pipe = <<>>
  /\ ~readEnd \/ (Exited /\ ~handler)
  /\ scanner' = "done"
  /\ UNCHANGED <<mode, childVars, pipe, readEnd, line, events, reader, info,
                 callerVars>>

\* Mutant: a channel without a bound.
ScanSendsAnyway ==
  /\ scanner = "send"
  /\ events' = Append(events, line)
  /\ scanner' = "read"
  /\ UNCHANGED <<mode, childVars, pipe, readEnd, line, reader, info, callerVars>>

\* Mutant: the send is a select with a default, a full channel drops the event.
ScanSendsOrDrops ==
  /\ scanner = "send"
  /\ events' = IF events = <<>> THEN <<line>> ELSE events
  /\ scanner' = "read"
  /\ UNCHANGED <<mode, childVars, pipe, readEnd, line, reader, info, callerVars>>

\* events <- event, into the one-place buffer.
ScanSends ==
  /\ scanner = "send" /\ events = <<>>
  /\ events' = <<line>>
  /\ scanner' = "read"
  /\ UNCHANGED <<mode, childVars, pipe, readEnd, line, reader, info, callerVars>>

----------------------------------------------------------------------------
(* The reader: GetIP's goroutine, or processEvents.                         *)

ReaderTakes ==
  /\ reader = "range" /\ events # <<>>
  /\ info' = (info \/ Head(events) = "bound")
  /\ events' = Tail(events)
  /\ UNCHANGED <<mode, childVars, pipe, scanVars, reader, callerVars>>

ReaderEnds ==
  /\ reader = "range" /\ events = <<>> /\ scanner = "done"
  /\ reader' = "done"
  /\ UNCHANGED <<mode, childVars, pipe, scanVars, events, info, callerVars>>

\* processEvents returns because the manager was stopped.
ReaderStopped ==
  /\ mode = "persistent" /\ reader = "range"
  /\ reader' = "stopped"
  /\ UNCHANGED <<mode, childVars, pipe, scanVars, events, info, callerVars>>

----------------------------------------------------------------------------
(* Reap, Release, and the goroutine in which they wait.                     *)

\* Mutant: Reap asks udhcpc to end, as Release does.
CallTerminates ==
  /\ caller = "start" /\ (mode = "persistent" => reader # "range")
  /\ signal' = IF process = "running" THEN "term" ELSE signal
  /\ waiter' = "wait" /\ caller' = "select"
  /\ UNCHANGED <<mode, process, handler, written, leased, pipe, scanVars, events,
                 reader, info, expired, result>>

\* GetIP calls Reap at once, the supervisor calls Release when its reader has
\* returned; Release begins with SIGTERM.
Call ==
  /\ caller = "start" /\ (mode = "persistent" => reader # "range")
  /\ signal' = IF mode = "persistent" /\ process = "running" THEN "term"
                                                             ELSE signal
  /\ waiter' = "wait" /\ caller' = "select"
  /\ UNCHANGED <<mode, process, handler, written, leased, pipe, scanVars, events,
                 reader, info, expired, result>>

\* cmd.Wait returns and has closed the pipe: of the unread lines only those
\* that are in the scanner's buffer already are left.  errChan is not buffered.
WaitReturns ==
  /\ waiter = "wait" /\ Exited
  /\ readEnd' = FALSE /\ waiter' = "send"
  /\ \E n \in 0 .. Len(pipe) : pipe' = SubSeq(pipe, 1, n)
  /\ UNCHANGED <<mode, childVars, scanner, line, events, reader, info,
                 expired, caller, result>>

Expire ==
  /\ caller = "select" /\ ~expired
  /\ expired' = TRUE
  /\ UNCHANGED <<mode, childVars, pipe, scanVars, events, reader, info, waiter,
                 caller, result>>

\* Where the caller goes from its select: GetIP waits for its reader.
Awaits == IF mode = "once" THEN "await" ELSE "returned"

SelectExit ==
  /\ caller = "select" /\ waiter = "send"
  /\ waiter' = "done" /\ caller' = Awaits
  /\ result' = IF process = "failed" THEN "error" ELSE result
  /\ UNCHANGED <<mode, childVars, pipe, scanVars, events, reader, info, expired>>

\* Mutant: the deadline passes and the process is left alone.
SelectDeadlineNoKill ==
  /\ caller = "select" /\ expired
  /\ caller' = Awaits /\ result' = "error"
  /\ UNCHANGED <<mode, childVars, pipe, scanVars, events, reader, info, waiter,
                 expired>>

SelectDeadline ==
  /\ caller = "select" /\ expired
  /\ signal' = IF process = "running" THEN "kill" ELSE signal
  /\ caller' = Awaits /\ result' = "error"
  /\ UNCHANGED <<mode, process, handler, written, leased, pipe, scanVars, events,
                 reader, info, waiter, expired>>

\* Mutant: GetIP does not wait for its reader.
GetIPReturnsEarly ==
  /\ caller = "await"
  /\ caller' = "returned"
  /\ result' = IF result = "error" THEN "error"
               ELSE IF info THEN "lease" ELSE "nolease"
  /\ UNCHANGED <<mode, childVars, pipe, scanVars, events, reader, info, waiter,
                 expired>>

\* <-readerDone, then the answer: ErrNoLease if the reader saw no lease.
GetIPReturns ==
  /\ caller = "await" /\ reader = "done"
  /\ caller' = "returned"
  /\ result' = IF result = "error" THEN "error"
               ELSE IF info THEN "lease" ELSE "nolease"
  /\ UNCHANGED <<mode, childVars, pipe, scanVars, events, reader, info, waiter,
                 expired>>

----------------------------------------------------------------------------

Child   == HandlerStarts \/ HandlerWrites \/ HandlerSilent \/ StrayLine
             \/ ProcessExits
Scanner == ScanLine \/ ScanEnds \/ ScanSends
Caller  == Call \/ SelectExit \/ SelectDeadline \/ GetIPReturns

Next == Child \/ Scanner \/ ReaderTakes \/ ReaderEnds \/ ReaderStopped
          \/ Caller \/ WaitReturns \/ Expire

\* The goroutines run, deadlines pass, a killed process dies.  Nothing is assumed
\* of a udhcpc that was not killed, nor of the handler.
Fairness ==
  /\ WF_vars(Scanner) /\ WF_vars(ReaderTakes \/ ReaderEnds)
  /\ WF_vars(Caller) /\ WF_vars(WaitReturns) /\ WF_vars(Expire)
  /\ WF_vars(signal = "kill" /\ ProcessExits)

Spec     == Init /\ [][Next]_vars
FairSpec == Spec /\ Fairness

----------------------------------------------------------------------------
(* Properties.                                                              *)

\* Reap and Release return: a hanging udhcpc is killed at the deadline, and the
\* reader GetIP then waits for comes to its end even if a handler that outlived
\* udhcpc still holds the pipe, because cmd.Wait closes it.
CallReturns == caller = "select" ~> caller = "returned"

\* Whoever called, udhcpc is dead or dies soon after: no DHCP client is left
\* running for an interface nobody watches any more.
ProcessEnds == caller = "select" ~> Exited

\* GetIP leaves no goroutine of its reader or scanner behind, and none in
\* cmd.Wait unless its deadline passed.
OnceLeavesNothing == mode = "once" /\ caller = "returned" =>
  /\ reader = "done" /\ scanner = "done"
  /\ expired \/ waiter = "done"

\* Reap lets udhcpc finish (client.go:155-158): before the deadline of GetIP's
\* context no signal is sent to it, in any interleaving.
ReapNeverSignals == mode = "once" /\ signal # "none" => expired

\* The events reach the reader in the order udhcpc reported them and none is
\* skipped, through the pipe, the scanner and the channel, until cmd.Wait cuts
\* the stream (client.go:117-143: buffering one event decouples the two sides).
\* A line that cannot be decoded is as good as none.
Sending == IF scanner = "send" THEN <<line>> ELSE <<>>
Stream  == INSTANCE EventStream WITH stream <- events \o Sending \o Kept(pipe, Kind),
                                     cut <- ~readEnd
DeliversInOrder == Stream!Spec

\* A udhcpc that wrote its lease and exited by itself, with no deadline passed,
\* makes GetIP return the lease (client.go:237-240: Reap returned, so the scanner
\* has seen the end of the pipe, and the race is eliminated).
BoundIsReturned ==
  mode = "once" /\ caller = "returned" /\ process = "ok" /\ ~expired
    => result = "lease"
=============================================================================
