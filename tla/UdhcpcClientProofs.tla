------------------------- MODULE UdhcpcClientProofs -------------------------
(***************************************************************************)
(* Proofs about UdhcpcClient, for any number of events: types, that Reap   *)
(* lets udhcpc finish, that GetIP leaves nothing behind, and that the      *)
(* goroutines and buffers implement EventStream.                           *)
(***************************************************************************)
EXTENDS UdhcpcClient, SubsequenceLemmas

(* The inductive invariant.                                                 *)

\* The types of what carries the events ...
StreamTypes ==
  /\ pipe \in Seq(Line) /\ Len(pipe) <= written
  /\ events \in Seq(Kind) /\ Len(events) <= 1
  /\ line \in Kind

\* ... and of everything else; a handler that runs has yet to write its line.
ControlTypes ==
  /\ mode \in {"once", "persistent"}
  /\ process \in {"running", "ok", "failed"}
  /\ signal \in {"none", "term", "kill"}
  /\ handler \in BOOLEAN
  /\ leased \in BOOLEAN
  /\ readEnd \in BOOLEAN
  /\ scanner \in {"read", "send", "done"}
  /\ reader \in {"range", "stopped", "done"}
  /\ info \in BOOLEAN
  /\ waiter \in {"none", "wait", "send", "done"}
  /\ expired \in BOOLEAN
  /\ caller \in {"start", "select", "await", "returned"}
  /\ result \in {"none", "lease", "nolease", "error"}

LineTypes ==
  /\ written \in 0 .. MaxLines
  /\ handler => written < MaxLines

Types == StreamTypes /\ ControlTypes /\ LineTypes

\* cmd.Wait closes the pipe, and nobody else does.
WaitCloses == readEnd <=> waiter \in {"none", "wait"}

\* The channel is closed by the scanner's end and ranged over to its end.
ReaderIsLast == reader = "done" => scanner = "done" /\ events = <<>>

\* Where the caller may be, and the goroutine it started.
CallerProgress ==
  /\ caller = "start" <=> waiter = "none"
  /\ caller \in {"start", "select"} => waiter # "done"
  /\ caller \in {"await", "returned"} => expired \/ waiter = "done"
  /\ expired => caller # "start"

\* GetIP's reader is not stopped, it waits for it, and signals only at the deadline.
OnceProgress == mode = "once" =>
  /\ reader # "stopped"
  /\ caller = "returned" => reader = "done"
  /\ signal # "none" => expired

Progress == WaitCloses /\ ReaderIsLast /\ CallerProgress /\ OnceProgress

ClientInv == Types /\ Progress

----------------------------------------------------------------------------
(* Types.                                                                   *)

LEMMA TypesGiveTypeOK == Types => TypeOK
  BY DEF Types, StreamTypes, ControlTypes, LineTypes, TypeOK

LEMMA InitTypes == ASSUME Init PROVE Types
<1>1. <<>> \in Seq(Kind) /\ <<>> \in Seq(Line) /\ Len(<<>>) = 0
  BY EmptySeq
<1>2. StreamTypes
  BY <1>1 DEF Init, StreamTypes, Kind
<1>3. LineTypes
  BY MaxLinesAssumption DEF Init, LineTypes
<1> QED BY <1>2, <1>3 DEF Init, Types, ControlTypes

\* udhcpc and its handler keep the types: the pipe has no more lines than were
\* written.
LEMMA ChildTypes == ASSUME Types, Child PROVE Types'
<1> USE DEF Types, scanVars, callerVars
<1>1. CASE HandlerStarts
  BY <1>1 DEF HandlerStarts, StreamTypes, ControlTypes, LineTypes
<1>2. CASE HandlerWrites
  <2>1. PICK k \in Kind : HandlerWrites!(k)
    BY <1>2 DEF HandlerWrites
  <2>2. /\ pipe \in Seq(Line) /\ k \in Line
        /\ Len(pipe) \in Nat /\ Len(pipe) <= written
    BY LenProperties DEF StreamTypes, Line
  <2>3. /\ Append(pipe, k) \in Seq(Line)
        /\ Len(Append(pipe, k)) = Len(pipe) + 1
    BY <2>2, AppendProperties
  <2>4. LineTypes'
    BY <2>1, MaxLinesAssumption DEF LineTypes
  <2>5. pipe' \in Seq(Line) /\ Len(pipe') <= written'
    BY <2>1, <2>2, <2>3, MaxLinesAssumption DEF LineTypes
  <2>6. StreamTypes'
    BY <2>1, <2>5 DEF StreamTypes
  <2>7. handler' \in BOOLEAN /\ leased' \in BOOLEAN
    BY <2>1
  <2>8. ControlTypes'
    BY <2>1, <2>7 DEF ControlTypes
  <2> QED BY <2>4, <2>6, <2>8
<1>3. CASE HandlerSilent
  <2>1. StreamTypes' /\ LineTypes'
    BY <1>3 DEF HandlerSilent, StreamTypes, LineTypes
  <2>2. handler' \in BOOLEAN
    BY <1>3 DEF HandlerSilent
  <2>3. ControlTypes'
    BY <1>3, <2>2 DEF HandlerSilent, ControlTypes
  <2> QED BY <2>1, <2>3
<1>4. CASE ProcessExits
  BY <1>4 DEF ProcessExits, StreamTypes, ControlTypes, LineTypes
<1>5. CASE StrayLine
  <2>1. /\ pipe \in Seq(Line) /\ "noise" \in Line
        /\ Len(pipe) \in Nat /\ Len(pipe) <= written
    BY LenProperties DEF StreamTypes, Line
  <2>2. /\ Append(pipe, "noise") \in Seq(Line)
        /\ Len(Append(pipe, "noise")) = Len(pipe) + 1
    BY <2>1, AppendProperties
  <2>3. LineTypes'
    BY <1>5, MaxLinesAssumption DEF StrayLine, LineTypes
  <2>4. StreamTypes'
    BY <1>5, <2>1, <2>2, MaxLinesAssumption DEF StrayLine, StreamTypes, LineTypes
  <2>5. ControlTypes'
    BY <1>5 DEF StrayLine, ControlTypes
  <2> QED BY <2>3, <2>4, <2>5
<1> QED BY <1>1, <1>2, <1>3, <1>4, <1>5 DEF Child

\* So do the scanner and the reader, which move one event on.
LEMMA ScannerTypes == ASSUME Types, Scanner PROVE Types'
<1> USE DEF Types, childVars, callerVars
<1>1. CASE ScanLine
  <2>1. pipe \in Seq(Line) /\ pipe # <<>> /\ Len(pipe) \in Nat
    BY <1>1, LenProperties DEF ScanLine, StreamTypes
  <2>2. /\ Tail(pipe) \in Seq(Line)
        /\ Len(Tail(pipe)) = Len(pipe) - 1
    BY <2>1, HeadTailProperties
  <2>3. StreamTypes'
    BY <1>1, <2>1, <2>2 DEF ScanLine, StreamTypes, LineTypes
  <2> QED BY <1>1, <2>3 DEF ScanLine, ControlTypes, LineTypes
<1>2. CASE ScanEnds
  BY <1>2 DEF ScanEnds, StreamTypes, ControlTypes, LineTypes
<1>3. CASE ScanSends
  <2>1. <<line>> \in Seq(Kind) /\ Len(<<line>>) = 1
    BY DEF StreamTypes
  <2>2. StreamTypes'
    BY <1>3, <2>1 DEF ScanSends, StreamTypes
  <2> QED BY <1>3, <2>2 DEF ScanSends, ControlTypes, LineTypes
<1> QED BY <1>1, <1>2, <1>3 DEF Scanner

LEMMA ReaderTypes ==
  ASSUME Types, ReaderTakes \/ ReaderEnds \/ ReaderStopped PROVE Types'
<1> USE DEF Types, childVars, scanVars, callerVars
<1>1. CASE ReaderTakes
  <2>1. events \in Seq(Kind) /\ events # <<>> /\ Len(events) \in Nat
    BY <1>1, LenProperties DEF ReaderTakes, StreamTypes
  <2>2. Tail(events) \in Seq(Kind) /\ Len(Tail(events)) = Len(events) - 1
    BY <2>1, HeadTailProperties
  <2>3. StreamTypes'
    BY <1>1, <2>1, <2>2 DEF ReaderTakes, StreamTypes
  <2>4. ControlTypes'
    BY <1>1 DEF ReaderTakes, ControlTypes
  <2> QED BY <1>1, <2>3, <2>4 DEF ReaderTakes, LineTypes
<1>2. CASE ReaderEnds
  BY <1>2 DEF ReaderEnds, StreamTypes, ControlTypes, LineTypes
<1>3. CASE ReaderStopped
  BY <1>3 DEF ReaderStopped, StreamTypes, ControlTypes, LineTypes
<1> QED BY <1>1, <1>2, <1>3

\* What cmd.Wait leaves of the pipe is a prefix of it.
LEMMA CutPipe ==
  ASSUME Types, NEW n \in 0 .. Len(pipe)
  PROVE  /\ SubSeq(pipe, 1, n) \in Seq(Line)
         /\ Len(SubSeq(pipe, 1, n)) = n
         /\ \A i \in 1 .. n : SubSeq(pipe, 1, n)[i] = pipe[i]
<1>1. pipe \in Seq(Line)
  BY DEF Types, StreamTypes
<1>2. Len(pipe) \in Nat
  BY <1>1, LenProperties
<1>3. \A i \in 1 .. n : pipe[i] \in Line
  BY <1>1, <1>2, ElementOfSeq
<1>4. n \in Int /\ 1 \in Int
  BY <1>2
<1> QED BY <1>2, <1>3, <1>4, SubSeqProperties

LEMMA CallerTypes ==
  ASSUME Types, Caller \/ WaitReturns \/ Expire PROVE Types'
<1> USE DEF Types, childVars, scanVars, Awaits
<1>1. CASE Call
  BY <1>1 DEF Call, StreamTypes, ControlTypes, LineTypes
<1>2. CASE SelectExit
  BY <1>2 DEF SelectExit, StreamTypes, ControlTypes, LineTypes
<1>3. CASE SelectDeadline
  BY <1>3 DEF SelectDeadline, StreamTypes, ControlTypes, LineTypes
<1>4. CASE GetIPReturns
  BY <1>4 DEF GetIPReturns, StreamTypes, ControlTypes, LineTypes
<1>5. CASE WaitReturns
  <2>1. PICK n \in 0 .. Len(pipe) : pipe' = SubSeq(pipe, 1, n)
    BY <1>5 DEF WaitReturns
  <2>2. Len(pipe) \in Nat
    BY LenProperties DEF StreamTypes
  <2>3. StreamTypes'
    BY <1>5, <2>1, <2>2, CutPipe DEF WaitReturns, StreamTypes, LineTypes
  <2>4. readEnd' \in BOOLEAN
    BY <1>5 DEF WaitReturns
  <2>5. ControlTypes'
    BY <1>5, <2>4 DEF WaitReturns, ControlTypes
  <2>6. LineTypes'
    BY <1>5 DEF WaitReturns, LineTypes
  <2> QED BY <2>3, <2>5, <2>6
<1>6. CASE Expire
  <2>1. StreamTypes' /\ LineTypes'
    BY <1>6 DEF Expire, StreamTypes, LineTypes
  <2>2. expired' \in BOOLEAN
    BY <1>6 DEF Expire
  <2>3. ControlTypes'
    BY <1>6, <2>2 DEF Expire, ControlTypes
  <2> QED BY <2>1, <2>3
<1> QED BY <1>1, <1>2, <1>3, <1>4, <1>5, <1>6 DEF Caller

LEMMA StepTypes == ASSUME Types, [Next]_vars PROVE Types'
<1>1. CASE UNCHANGED vars
  BY <1>1 DEF vars, childVars, scanVars, callerVars,
              Types, StreamTypes, ControlTypes, LineTypes
<1> QED BY <1>1, ChildTypes, ScannerTypes, ReaderTypes, CallerTypes DEF Next

----------------------------------------------------------------------------
(* Where the goroutines and the caller are.                                 *)

LEMMA InitProgress == ASSUME Init PROVE Progress
  BY DEF Init, Progress, WaitCloses, ReaderIsLast, CallerProgress, OnceProgress

LEMMA StepProgress == ASSUME Types, Progress, [Next]_vars PROVE Progress'
<1> USE DEF Progress, WaitCloses, ReaderIsLast, CallerProgress, OnceProgress,
            childVars, scanVars, callerVars
<1> USE DEF Types, ControlTypes
<1>1. CASE Child
  BY <1>1 DEF Child, HandlerStarts, HandlerWrites, HandlerSilent, StrayLine, ProcessExits
<1>2. CASE Scanner
  BY <1>2 DEF Scanner, ScanLine, ScanEnds, ScanSends
<1>3. CASE ReaderTakes \/ ReaderEnds \/ ReaderStopped
  BY <1>3 DEF ReaderTakes, ReaderEnds, ReaderStopped
<1>4. CASE Call
  BY <1>4 DEF Call
<1>5. CASE SelectExit \/ SelectDeadline
  BY <1>5 DEF SelectExit, SelectDeadline, Awaits
<1>6. CASE GetIPReturns
  BY <1>6 DEF GetIPReturns
<1>7. CASE WaitReturns
  BY <1>7 DEF WaitReturns
<1>8. CASE Expire
  BY <1>8 DEF Expire
<1>9. CASE UNCHANGED vars
  BY <1>9 DEF vars
<1> HIDE DEF Progress, Types
<1> QED BY <1>1, <1>2, <1>3, <1>4, <1>5, <1>6, <1>7, <1>8, <1>9 DEF Next, Caller

LEMMA InitInv == Init => ClientInv
  BY InitTypes, InitProgress DEF ClientInv

LEMMA StepInv == ClientInv /\ [Next]_vars => ClientInv'
  BY StepTypes, StepProgress DEF ClientInv

LEMMA Invariance == Spec => []ClientInv
  BY InitInv, StepInv, PTL DEF Spec

\* The types are kept: no more lines than were written wait in the pipe, and the
\* channel never holds more than the one event it was made for.
THEOREM TypeCorrect == Spec => []TypeOK
<1>1. ClientInv => TypeOK
  BY TypesGiveTypeOK DEF ClientInv
<1> QED BY <1>1, Invariance, PTL

\* No signal is sent to the udhcpc of GetIP before GetIP's deadline: Reap waits.
THEOREM ReapLetsFinish == Spec => []ReapNeverSignals
<1>1. ClientInv => ReapNeverSignals
  BY DEF ClientInv, Progress, OnceProgress, ReapNeverSignals
<1> QED BY <1>1, Invariance, PTL

\* When GetIP returns its reader and scanner are done, and the goroutine in cmd.Wait
\* too unless the deadline passed.
THEOREM NothingLeft == Spec => []OnceLeavesNothing
<1>1. ClientInv => OnceLeavesNothing
  BY DEF ClientInv, Types, ControlTypes, Progress, CallerProgress, OnceProgress,
         ReaderIsLast, OnceLeavesNothing
<1> QED BY <1>1, Invariance, PTL
----------------------------------------------------------------------------
(* The pipe, the scanner and the channel implement EventStream.             *)

\* The unread events of the pipe, and those on their way to the reader.
Unread == Kept(pipe, Kind)
Way == events \o Sending \o Unread

\* The three places are sequences, and an event on its way is in one of them.
LEMMA WayTypes ==
  ASSUME Types
  PROVE  /\ Unread \in Seq(Kind) /\ events \in Seq(Kind) /\ Sending \in Seq(Kind)
         /\ Len(Unread) \in Nat
         /\ events \o Sending \in Seq(Kind) /\ Len(events \o Sending) \in Nat
         /\ Way \in Seq(Kind)
         /\ Len(Way) = Len(events \o Sending) + Len(Unread)
<1>1. Unread \in Seq(Kind) /\ events \in Seq(Kind) /\ line \in Kind
  <2>1. pipe \in Seq(Line) /\ events \in Seq(Kind) /\ line \in Kind
    BY DEF Types, StreamTypes
  <2>2. Line \cap Kind = Kind
    BY DEF Line
  <2> QED BY <2>1, <2>2, KeptType DEF Unread
<1>2. Sending \in Seq(Kind)
  BY <1>1 DEF Sending
<1>3. events \o Sending \in Seq(Kind)
  BY <1>1, <1>2, ConcatProperties
<1> QED BY <1>1, <1>2, <1>3, ConcatProperties, LenProperties DEF Way

\* A sequence that begins with an element.
LEMMA FirstOfConcat ==
  ASSUME NEW S, NEW x \in S, NEW t \in Seq(S)
  PROVE  /\ <<x>> \o t # <<>> /\ Head(<<x>> \o t) = x
         /\ Tail(<<x>> \o t) = t
  OBVIOUS

\* A prefix of the last part is a prefix of the whole.
LEMMA PrefixOfConcat ==
  ASSUME NEW S, NEW s \in Seq(S), NEW t \in Seq(S), NEW n \in 0 .. Len(t)
  PROVE  s \o SubSeq(t, 1, n) = SubSeq(s \o t, 1, Len(s) + n)
<1> DEFINE u == SubSeq(t, 1, n)
           w == s \o t
           m == Len(s) + n
<1>1. Len(s) \in Nat /\ Len(t) \in Nat
  BY LenProperties
<1>2. \A i \in 1 .. n : t[i] \in S
  BY <1>1, ElementOfSeq
<1>3. n \in Int /\ 1 \in Int /\ n \in Nat
  BY <1>1
<1>4. u \in Seq(S) /\ Len(u) = n /\ \A i \in 1 .. n : u[i] = t[i]
  BY <1>2, <1>3, SubSeqProperties
<1>5. w \in Seq(S) /\ Len(w) = Len(s) + Len(t)
      /\ \A i \in 1 .. Len(w) : w[i] = IF i <= Len(s) THEN s[i] ELSE t[i - Len(s)]
  BY <1>1, ConcatProperties
<1>6. m \in Int /\ \A i \in 1 .. m : i \in 1 .. Len(w)
  BY <1>1, <1>3, <1>5
<1>7. \A i \in 1 .. m : w[i] \in S
  BY <1>5, <1>6, ElementOfSeq
<1> HIDE DEF u, w, m
<1>8. /\ SubSeq(w, 1, m) \in Seq(S) /\ Len(SubSeq(w, 1, m)) = m
      /\ \A i \in 1 .. m : SubSeq(w, 1, m)[i] = w[i]
  <2>1. /\ SubSeq(w, 1, m) \in Seq(S)
        /\ Len(SubSeq(w, 1, m)) = IF 1 <= m THEN m - 1 + 1 ELSE 0
        /\ \A i \in 1 .. m - 1 + 1 : SubSeq(w, 1, m)[i] = w[1 + i - 1]
    BY <1>6, <1>7, SubSeqProperties
  <2> QED BY <1>1, <1>3, <2>1 DEF m
<1>9. /\ s \o u \in Seq(S) /\ Len(s \o u) = m
      /\ \A i \in 1 .. m : (s \o u)[i] = IF i <= Len(s) THEN s[i] ELSE u[i - Len(s)]
  BY <1>1, <1>4, ConcatProperties DEF m
<1>10. \A i \in 1 .. m : (s \o u)[i] = SubSeq(w, 1, m)[i]
  <2> TAKE i \in 1 .. m
  <2>1. CASE i <= Len(s)
    BY <1>1, <1>5, <1>6, <1>8, <1>9, <2>1
  <2>2. CASE ~(i <= Len(s))
    <3>1. i - Len(s) \in 1 .. n
      BY <1>1, <1>3, <2>2 DEF m
    <3> QED BY <1>4, <1>5, <1>6, <1>8, <1>9, <2>2, <3>1
  <2> QED BY <2>1, <2>2
<1>11. s \o u = SubSeq(w, 1, m)
  BY <1>8, <1>9, <1>10, SeqEqual
<1> QED BY <1>11 DEF u, w, m

LEMMA StreamInit == Init => Stream!Init
<1> SUFFICES ASSUME Init PROVE Way = <<>> /\ (~readEnd) = FALSE /\ info = FALSE
  BY DEF Stream!Init, Way, Unread
<1>1. events \o Sending = <<>>
  BY EmptySeq, ConcatEmptySeq DEF Init, Sending
<1>2. (events \o Sending) \o Unread = <<>>
  BY <1>1, KeptEmpty, EmptySeq, ConcatEmptySeq DEF Init, Unread
<1> QED BY <1>2 DEF Init, Way

\* Steps that touch none of the places keep the stream.
LEMMA StreamFrame ==
  ASSUME UNCHANGED <<events, line, scanner, pipe, readEnd, info>>
  PROVE  UNCHANGED Stream!vars
<1>1. UNCHANGED Sending
  BY DEF Sending
<1>2. (events \o Sending \o Kept(pipe, Kind))' = events \o Sending \o Kept(pipe, Kind)
  BY <1>1 DEF Kept
<1>3. (~readEnd)' = ~readEnd
  OBVIOUS
<1> QED BY <1>2, <1>3 DEF Stream!vars

\* The handler's line is a report, unless it comes after the cut; a line that is
\* no event is none.
LEMMA ChildStream ==
  ASSUME Types, Child PROVE [Stream!Next]_(Stream!vars)
<1> USE DEF scanVars, callerVars
<1>1. CASE HandlerStarts \/ HandlerSilent \/ ProcessExits
  BY <1>1, StreamFrame DEF HandlerStarts, HandlerSilent, ProcessExits
<1>2. CASE HandlerWrites
  <2>1. PICK k \in Kind : HandlerWrites!(k)
    BY <1>2 DEF HandlerWrites
  <2>2. CASE readEnd
    <3>1. Append(Unread, k) = Unread \o <<k>> /\ <<k>> \in Seq(Kind)
      BY WayTypes, AppendIsConcat
    <3>6. Unread' = Append(Unread, k)
      <4>1. pipe \in Seq(Line) /\ k \in Line /\ pipe' = Append(pipe, k)
        BY <2>1, <2>2 DEF Types, StreamTypes, Line
      <4>2. Kept(Append(pipe, k), Kind) = Append(Kept(pipe, Kind), k)
        BY <4>1, KeptAppend
      <4> QED BY <4>1, <4>2 DEF Unread
    <3>2. (events \o Sending) \o (Unread \o <<k>>) = Way \o <<k>>
      BY <3>1, WayTypes, ConcatAssociative DEF Way
    <3>3. Way \o <<k>> = Append(Way, k)
      BY WayTypes, AppendIsConcat
    <3>4. Way' = Append(Way, k)
      BY <2>1, <3>1, <3>2, <3>3, <3>6 DEF Way, Sending
    <3>5. Stream!Report
      BY <2>1, <2>2, <3>4 DEF Stream!Report, Way, Unread
    <3> QED BY <3>5 DEF Stream!Next
  <2>3. CASE ~readEnd
    BY <2>1, <2>3, StreamFrame
  <2> QED BY <2>2, <2>3
<1>3. CASE StrayLine
  <2>1. Unread' = Unread
    <3>1. /\ pipe \in Seq(Line) /\ "noise" \in Line /\ "noise" \notin Kind
          /\ pipe' = Append(pipe, "noise")
      BY <1>3 DEF StrayLine, Types, StreamTypes, Line, Kind
    <3>2. Kept(Append(pipe, "noise"), Kind) = Kept(pipe, Kind)
      BY <3>1, KeptAppend
    <3> QED BY <3>1, <3>2 DEF Unread
  <2>2. UNCHANGED <<events, Sending, readEnd, info>>
    BY <1>3 DEF StrayLine, Sending
  <2> QED BY <2>1, <2>2 DEF Stream!vars, Unread
<1> QED BY <1>1, <1>2, <1>3 DEF Child

\* The scanner moves an event from one place to the next.
LEMMA ScannerStream ==
  ASSUME Types, Scanner PROVE UNCHANGED Stream!vars
<1> USE DEF childVars, callerVars
<1>1. CASE ScanLine
  <2>1. /\ pipe \in Seq(Line) /\ pipe # <<>> /\ pipe' = Tail(pipe)
        /\ pipe[1] = Head(pipe) /\ Sending = <<>>
        /\ UNCHANGED <<events, readEnd, info>>
    BY <1>1 DEF ScanLine, Types, StreamTypes, Sending
  <2>2. CASE Head(pipe) \notin Kind
    <3>1. Unread' = Unread
      BY <2>1, <2>2, KeptTail DEF Unread
    <3>2. Sending' = Sending
      BY <1>1, <2>1, <2>2 DEF ScanLine, Sending
    <3> QED BY <2>1, <3>1, <3>2 DEF Stream!vars, Unread
  <2>3. CASE Head(pipe) \in Kind
    <3> DEFINE x == Head(pipe)
    <3>1. Sending' = <<x>>
      BY <1>1, <2>3 DEF ScanLine, Sending
    <3>2. Unread # <<>> /\ Unread' = Tail(Unread) /\ Head(Unread) = x
      <4>1. /\ Kept(pipe, Kind) # <<>> /\ Kept(pipe, Kind)[1] = x
            /\ Kept(Tail(pipe), Kind) = Tail(Kept(pipe, Kind))
        BY <2>1, <2>3, KeptTail
      <4> QED BY <2>1, <4>1 DEF Unread
    <3> HIDE DEF x
    <3>3. x \in Kind /\ Tail(Unread) \in Seq(Kind) /\ <<x>> \in Seq(Kind)
      BY <2>3, <3>2, WayTypes, HeadTailProperties
    <3>4. Unread = <<x>> \o Tail(Unread)
      BY <3>2, WayTypes
    <3>5. events \o Sending = events
      BY <2>1, WayTypes, ConcatEmptySeq
    <3>6. Way = events \o (<<x>> \o Tail(Unread))
      BY <3>4, <3>5 DEF Way
    <3>7. Way = (events \o <<x>>) \o Tail(Unread)
      <4>1. events \in Seq(Kind)
        BY WayTypes
      <4> HIDE DEF Way
      <4> QED BY <3>3, <3>6, <4>1, ConcatAssociative
    <3>8. Way' = Way
      BY <2>1, <3>1, <3>2, <3>7 DEF Way
    <3> QED BY <2>1, <3>8 DEF Stream!vars, Way, Unread
  <2> QED BY <2>2, <2>3
<1>2. CASE ScanEnds
  <2>1. UNCHANGED Sending
    BY <1>2 DEF ScanEnds, Sending
  <2>2. UNCHANGED <<events, pipe, readEnd, info>>
    BY <1>2 DEF ScanEnds
  <2> QED BY <2>1, <2>2 DEF Stream!vars, Kept
<1>3. CASE ScanSends
  <2>1. /\ events = <<>> /\ Sending = <<line>>
        /\ events' = <<line>> /\ Sending' = <<>>
    BY <1>3 DEF ScanSends, Sending
  <2>2. events' \o Sending' = events \o Sending
    BY <2>1, WayTypes, ConcatEmptySeq
  <2> QED BY <1>3, <2>2 DEF ScanSends, Stream!vars, Kept
<1> QED BY <1>1, <1>2, <1>3 DEF Scanner

\* The reader receives what has been on its way longest.
LEMMA ReaderStream ==
  ASSUME Types, ReaderTakes PROVE Stream!Receive
<1> DEFINE rest == Sending \o Unread
<1>1. events # <<>> /\ events' = Tail(events)
      /\ info' = (info \/ Head(events) = "bound")
      /\ UNCHANGED <<readEnd, Unread, Sending>>
  BY DEF ReaderTakes, scanVars, Sending, Unread, Kept
<1>2. Head(events) \in Kind /\ Tail(events) \in Seq(Kind) /\ rest \in Seq(Kind)
      /\ <<Head(events)>> \in Seq(Kind)
  BY <1>1, WayTypes, HeadTailProperties, ConcatProperties
<1>3. events = <<Head(events)>> \o Tail(events)
  BY <1>1, WayTypes
<1>4. Way = events \o rest
  BY WayTypes, ConcatAssociative DEF Way
<1>5. Way = <<Head(events)>> \o (Tail(events) \o rest)
  BY <1>2, <1>3, <1>4, ConcatAssociative
<1>6. Tail(events) \o rest \in Seq(Kind)
  BY <1>2, ConcatProperties
<1>7. Way # <<>> /\ Head(Way) = Head(events) /\ Tail(Way) = Tail(events) \o rest
  BY <1>2, <1>5, <1>6, FirstOfConcat
<1>8. (Tail(events) \o Sending) \o Unread = Tail(events) \o rest
  BY <1>2, WayTypes, ConcatAssociative
<1>9. Way' = Tail(Way)
  BY <1>1, <1>7, <1>8 DEF Way
<1> QED BY <1>1, <1>7, <1>9 DEF Stream!Receive, Way, Unread

\* cmd.Wait cuts the stream somewhere in the pipe.
LEMMA WaitStream ==
  ASSUME Types, WaitCloses, WaitReturns PROVE Stream!Cut
<1>1. PICK n \in 0 .. Len(Unread) : Unread' = SubSeq(Unread, 1, n)
  <2>1. PICK i \in 0 .. Len(pipe) : pipe' = SubSeq(pipe, 1, i)
    BY DEF WaitReturns
  <2> QED BY <2>1, KeptBeginning DEF Unread, Types, StreamTypes
<1>2. readEnd /\ readEnd' = FALSE /\ UNCHANGED <<events, Sending, info>>
  BY DEF WaitReturns, WaitCloses, Sending
<1> DEFINE m == Len(events \o Sending) + n
<1>3. m \in 0 .. Len(Way)
  BY WayTypes
<1>4. Way' = SubSeq(Way, 1, m)
  BY <1>1, <1>2, WayTypes, PrefixOfConcat DEF Way
<1> QED BY <1>2, <1>3, <1>4 DEF Stream!Cut, Way, Unread

LEMMA StreamStep ==
  ASSUME ClientInv, [Next]_vars PROVE [Stream!Next]_(Stream!vars)
<1> USE DEF ClientInv
<1>1. CASE Child
  BY <1>1, ChildStream
<1>2. CASE Scanner
  BY <1>2, ScannerStream
<1>3. CASE ReaderTakes
  BY <1>3, ReaderStream DEF Stream!Next
<1>4. CASE ReaderEnds \/ ReaderStopped
  BY <1>4, StreamFrame DEF ReaderEnds, ReaderStopped, scanVars
<1>5. CASE Caller
  BY <1>5, StreamFrame
  DEF Caller, Call, SelectExit, SelectDeadline, GetIPReturns, scanVars
<1>6. CASE WaitReturns
  BY <1>6, WaitStream DEF Stream!Next, Progress
<1>7. CASE Expire
  BY <1>7, StreamFrame DEF Expire, scanVars
<1>8. CASE UNCHANGED vars
  BY <1>8, StreamFrame DEF vars, scanVars
<1> QED BY <1>1, <1>2, <1>3, <1>4, <1>5, <1>6, <1>7, <1>8 DEF Next

\* Through the pipe, the scanner and the one-place channel the reader receives the
\* events in the order udhcpc reported them, and none is skipped before cmd.Wait
\* cuts the stream: the client implements EventStream.
THEOREM EventsInOrder == Spec => DeliversInOrder
<1>1. Spec => Stream!Init /\ [][Stream!Next]_(Stream!vars)
  BY StreamInit, StreamStep, Invariance, PTL DEF Spec
<1> QED BY <1>1 DEF DeliversInOrder, Stream!Spec
=============================================================================
