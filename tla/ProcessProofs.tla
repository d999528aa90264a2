---------------------------- MODULE ProcessProofs ----------------------------
(***************************************************************************)
(* What main starts and waits for, besides the handlers: the session, for  *)
(* any number of messages and pipes of any capacity (Lifecycle); and the   *)
(* watcher, for any documents and any number of unread events (HotReload). *)
(***************************************************************************)
EXTENDS Lifecycle, HotReload, SequenceTheorems, TLAPS

\* The child is busy while it owes lines.
Owing == child = "busy" <=> owes > 0

\* stdio's relay ends at the child's end with nothing left in the pipe, or it
\* is deaf; and Run waits for it.
Heard ==
    /\ relay = "ended" /\ mode = "stdio" => Deaf \/ (fromChild = <<>> /\ ~ Lives)
    /\ mode = "stdio" /\ main \in {"closing", "exited", "failed"} => relay = "ended"

\* No line is lost or overtaken on its way, and nothing follows a torn one:
\* the child that wrote it is dead.
Intact ==
    /\ main # "killed" => relayed \o fromChild = written
    /\ \A i \in DOMAIN written : written[i].form = "torn" => i = Len(written) /\ child = "failed"

IInv == TypeOK /\ Owing /\ Heard /\ Intact

\* The head of one sequence moved to the end of another: together they stay.
LEMMA MovesTheHead ==
    ASSUME NEW S, NEW p \in Seq(S), NEW q \in Seq(S), q # <<>>
    PROVE  Append(p, Head(q)) \o Tail(q) = p \o q
  <1>1. Head(q) \in S /\ Tail(q) \in Seq(S) /\ q = <<Head(q)>> \o Tail(q)
    BY HeadTailProperties, ConcatSimplifications
  <1>2. PICK h \in S, t \in Seq(S) : h = Head(q) /\ t = Tail(q)
    BY <1>1
  <1>3. Append(p, h) = p \o <<h>>
    BY AppendIsConcat
  <1>4. (p \o <<h>>) \o t = p \o (<<h>> \o t)
    BY ConcatAssociative
  <1> QED
    BY <1>1, <1>2, <1>3, <1>4

\* A line the child writes goes behind all others.
LEMMA PutsBehind ==
    ASSUME IInv, Lives, NEW form \in Forms, Puts(form)
    PROVE  /\ written' \in Seq(Lines) /\ fromChild' \in Seq(Lines)
           /\ Len(fromChild') = Len(fromChild) + 1
           /\ relayed \o fromChild = written => relayed \o fromChild' = written'
           /\ fromChild # <<>> => Head(fromChild') = Head(fromChild)
           /\ fromChild' # <<>>
           /\ \A i \in DOMAIN written' : written'[i].form = "torn" =>
                                             i = Len(written') /\ form = "torn"
  <1> DEFINE line == [no |-> Len(written) + 1, form |-> form]
  <1>1. /\ written \in Seq(Lines) /\ fromChild \in Seq(Lines) /\ relayed \in Seq(Lines)
        /\ fromChild' = Append(fromChild, line) /\ written' = Append(written, line)
    BY DEF Puts, IInv, TypeOK
  <1>2. line \in Lines /\ line.form = form
    BY <1>1, LenProperties DEF Lines
  <1> HIDE DEF line
  <1>3. /\ written' \in Seq(Lines) /\ fromChild' \in Seq(Lines)
        /\ Len(fromChild') = Len(fromChild) + 1 /\ Len(written') = Len(written) + 1
        /\ fromChild' # <<>>
        /\ \A i \in 1 .. Len(written) : written'[i] = written[i]
        /\ written'[Len(written) + 1] = line
    BY <1>1, <1>2, AppendProperties
  <1>4. relayed \o fromChild = written => relayed \o fromChild' = written'
    <2>1. /\ fromChild' = fromChild \o <<line>> /\ written' = written \o <<line>>
          /\ <<line>> \in Seq(Lines)
      BY <1>1, <1>2, AppendIsConcat
    <2>2. relayed \o (fromChild \o <<line>>) = (relayed \o fromChild) \o <<line>>
      BY <1>1, <2>1, ConcatAssociative
    <2> QED
      BY <2>1, <2>2
  <1>5. fromChild # <<>> => Head(fromChild') = Head(fromChild)
    BY <1>1, <1>2, HeadTailAppend
  <1>6. ASSUME NEW i \in DOMAIN written', written'[i].form = "torn"
        PROVE  i = Len(written') /\ form = "torn"
    <2>1. /\ DOMAIN written = 1 .. Len(written) /\ DOMAIN written' = 1 .. Len(written) + 1
          /\ Len(written) \in Nat
      BY <1>1, <1>3, LenProperties
    <2>2. i \notin DOMAIN written
      BY <1>3, <1>6, <2>1 DEF IInv, Intact, Lives
    <2>3. i = Len(written) + 1
      BY <2>1, <2>2
    <2> QED
      BY <1>2, <1>3, <1>6, <2>3
  <1> QED
    BY <1>3, <1>4, <1>5, <1>6

-----------------------------------------------------------------------------
\* The client, the signal and the loops: nothing of the child's lines moves.
LEMMA LoopStep ==
    ASSUME IInv,
           \/ \E kind \in Kinds : Send(kind)
           \/ Hangup \/ Signal \/ Scan \/ LoopEnds \/ PostUpstream \/ Refuse
           \/ Decide("service") \/ Decide("terminal")
    PROVE  IInv'
  <1>1. /\ UNCHANGED <<mode, fromChild, toChild, child, owes, written, relay, relayed, inflight>>
        /\ main' \in {main, "killed"} \/ (mode = "bridge" /\ main' = "closing")
    BY DEF Send, Hangup, Signal, Scan, LoopEnds, PostUpstream, Refuse, Decide, Prints, Return,
       ends, kid, pipes
  <1>2. main # "killed"
    BY DEF Send, Hangup, Signal, Scan, LoopEnds, PostUpstream, Refuse, Decide, Alive
  <1>3. TypeOK'
    <2>1. stdin' \in Seq(Kinds)
      <3>1. CASE \E kind \in Kinds : Send(kind)
        BY <3>1, AppendProperties DEF Send, IInv, TypeOK
      <3>2. CASE Scan
        BY <3>2, HeadTailProperties DEF Scan, IInv, TypeOK
      <3>3. CASE Hangup \/ Signal \/ LoopEnds \/ PostUpstream \/ Refuse
                 \/ Decide("service") \/ Decide("terminal")
        BY <3>3 DEF Hangup, Signal, LoopEnds, PostUpstream, Refuse, Decide, IInv, TypeOK
      <3> QED
        BY <3>1, <3>2, <3>3
    <2>2. loop' \in {"scanning", "forward", "refuse", "service", "terminal", "ended"}
      <3>1. CASE Scan
        <4>1. Head(stdin) \in Kinds
          BY <3>1, HeadTailProperties DEF Scan, IInv, TypeOK
        <4> QED
          BY <3>1, <4>1 DEF Scan, Kinds
      <3>2. CASE (\E kind \in Kinds : Send(kind)) \/ Hangup \/ Signal \/ LoopEnds
                 \/ PostUpstream \/ Refuse \/ Decide("service") \/ Decide("terminal")
        BY <3>2 DEF Send, Hangup, Signal, LoopEnds, PostUpstream, Refuse, Decide, IInv, TypeOK
      <3> QED
        BY <3>1, <3>2
    <2>3. /\ client' \in {"sending", "closed", "left"} /\ sent' \in 0 .. MaxLines
          /\ signalled' \in BOOLEAN /\ childStdin' \in {"open", "closed"}
          /\ trail' \in {"nothing", "record"}
      <3>1. signalled' \in BOOLEAN
        BY DEF Send, Hangup, Signal, Scan, LoopEnds, PostUpstream, Refuse, Decide, IInv, TypeOK
      <3>2. trail' \in {"nothing", "record"}
        BY DEF Send, Hangup, Signal, Scan, LoopEnds, PostUpstream, Refuse, Decide, MayRecord,
           IInv, TypeOK
      <3>3. client' \in {"sending", "closed", "left"} /\ sent' \in 0 .. MaxLines
        BY LifecycleAssumption DEF Send, Hangup, Signal, Scan, LoopEnds, PostUpstream, Refuse,
           Decide, ends, IInv, TypeOK
      <3>4. childStdin' \in {"open", "closed"}
        BY DEF Send, Hangup, Signal, Scan, LoopEnds, PostUpstream, Refuse, Decide, pipes, IInv,
           TypeOK
      <3> QED
        BY <3>1, <3>2, <3>3, <3>4
    <2> QED
      BY <1>1, <2>1, <2>2, <2>3 DEF IInv, TypeOK
  <1>4. Owing' /\ Heard' /\ Intact'
    BY <1>1, <1>2 DEF IInv, Owing, Heard, Intact, Deaf, Lives
  <1> QED
    BY <1>3, <1>4 DEF IInv

\* A line is written to the child, which takes it.
LEMMA ForwardStep ==
    ASSUME IInv, WriteToChild \/ Takes
    PROVE  IInv'
  <1>1. UNCHANGED <<mode, fromChild, written, relay, relayed, main>>
    BY DEF WriteToChild, Takes, ends, kid, pipes
  <1>2. toChild' \in Seq({"message"}) /\ Len(toChild') <= PipeCap
    <2>1. toChild \in Seq({"message"}) /\ Len(toChild) <= PipeCap /\ PipeCap \in Nat
          /\ Len(toChild) \in Nat
      BY LifecycleAssumption, LenProperties DEF IInv, TypeOK
    <2>2. CASE WriteToChild
      BY <2>1, <2>2, AppendProperties DEF WriteToChild
    <2>3. CASE Takes
      <3>1. Tail(toChild) \in Seq({"message"}) /\ Len(Tail(toChild)) = Len(toChild) - 1
        BY <2>1, <2>3, HeadTailProperties DEF Takes
      <3> QED
        BY <2>1, <2>3, <3>1 DEF Takes
    <2> QED
      BY <2>2, <2>3
  <1>3. /\ child' \in {"idle", "busy", "exited", "failed"} /\ owes' \in 0 .. Answers /\ Owing'
        /\ (Lives' <=> Lives) /\ (child' = "failed" <=> child = "failed")
    BY LifecycleAssumption DEF WriteToChild, Takes, kid, IInv, TypeOK, Owing, Lives
  <1>4. TypeOK'
    <2>1. trail' \in {"nothing", "record"}
      BY DEF WriteToChild, Takes, MayRecord, IInv, TypeOK
    <2>2. loop' \in {"scanning", "forward", "refuse", "service", "terminal", "ended"}
      BY DEF WriteToChild, Takes, IInv, TypeOK
    <2>3. UNCHANGED <<client, sent, stdin, signalled, childStdin, inflight>>
      BY DEF WriteToChild, Takes, ends
    <2> QED
      BY <1>1, <1>2, <1>3, <2>1, <2>2, <2>3 DEF IInv, TypeOK
  <1>5. Heard' /\ Intact'
    BY <1>1, <1>3 DEF IInv, Heard, Intact, Deaf
  <1> QED
    BY <1>3, <1>4, <1>5 DEF IInv

-----------------------------------------------------------------------------
\* The child writes a line, exits, or dies in the middle of one.
LEMMA ChildStep ==
    ASSUME IInv, (\E form \in Forms : Answer(form)) \/ ChildExits \/ Crash \/ Kill
    PROVE  IInv'
  <1>0. /\ PipeCap \in Nat /\ Answers \in Nat /\ Len(fromChild) \in Nat /\ owes \in Nat
        /\ Lives /\ main \notin {"exited", "failed", "killed"}
    BY LifecycleAssumption, LenProperties
       DEF Answer, ChildExits, Crash, Kill, Lives, Alive, IInv, TypeOK
  <1>1. UNCHANGED <<mode, relay, relayed, main, client, sent, stdin, signalled, loop, toChild,
                    childStdin, inflight, trail>>
    BY DEF Answer, ChildExits, Crash, Kill, Dies, ends, pipes
  <1>2. CASE ChildExits
    <2>1. UNCHANGED <<fromChild, written, owes>> /\ child = "idle"
          /\ child' \in {"exited", "failed"}
      BY <1>2, LifecycleAssumption DEF ChildExits, pipes
    <2> QED
      BY <1>1, <2>1 DEF IInv, TypeOK, Owing, Heard, Intact, Deaf, Lives
  <1>3. ASSUME NEW form \in Forms, Puts(form), Len(fromChild) < PipeCap,
               child' \in {"idle", "busy", "failed"}, owes' \in 0 .. Answers, Owing',
               form = "torn" => child' = "failed"
        PROVE  IInv'
    <2>1. /\ written' \in Seq(Lines) /\ fromChild' \in Seq(Lines) /\ Len(fromChild') <= PipeCap
          /\ relayed \o fromChild = written => relayed \o fromChild' = written'
          /\ fromChild # <<>> => Head(fromChild') = Head(fromChild)
          /\ fromChild' # <<>>
          /\ \A i \in DOMAIN written' : written'[i].form = "torn" =>
                                            i = Len(written') /\ form = "torn"
      <3>1. Lives /\ Puts(form) /\ Len(fromChild) + 1 <= PipeCap
        BY <1>0, <1>3
      <3>2. \A i \in DOMAIN written' : written'[i].form = "torn" =>
                                           i = Len(written') /\ form = "torn"
        BY <3>1, PutsBehind
      <3>3. /\ written' \in Seq(Lines) /\ fromChild' \in Seq(Lines)
            /\ Len(fromChild') = Len(fromChild) + 1
        BY <3>1, PutsBehind
      <3>4. /\ relayed \o fromChild = written => relayed \o fromChild' = written'
            /\ fromChild # <<>> => Head(fromChild') = Head(fromChild)
            /\ fromChild' # <<>>
        BY <3>1, PutsBehind
      <3> QED
        BY <3>1, <3>2, <3>3, <3>4
    <2>2. TypeOK'
      BY <1>1, <1>3, <2>1 DEF IInv, TypeOK
    <2>3. Heard' /\ Intact'
      BY <1>0, <1>1, <1>3, <2>1 DEF IInv, Heard, Intact, Deaf
    <2> QED
      BY <1>3, <2>2, <2>3 DEF IInv
  <1>4. ASSUME NEW form \in Forms, Answer(form) PROVE IInv'
    <2>1. owes' \in 0 .. Answers /\ Owing' /\ child' \in {"idle", "busy", "failed"}
      <3>1. owes > 0 /\ owes' = owes - 1 /\ child' = IF owes' = 0 THEN "idle" ELSE "busy"
        BY <1>4 DEF Answer, IInv, Owing
      <3> QED
        BY <1>0, <3>1 DEF IInv, TypeOK, Owing
    <2>2. Puts(form) /\ Len(fromChild) < PipeCap /\ form # "torn"
      BY <1>4 DEF Answer
    <2> QED
      BY <1>3, <2>1, <2>2
  <1>5. CASE Dies
    <2>1. owes' \in 0 .. Answers /\ Owing' /\ child' = "failed"
      BY <1>0, <1>5 DEF Dies, Owing
    <2>2. CASE UNCHANGED <<fromChild, written>>
      <3>1. TypeOK'
        BY <1>1, <2>1, <2>2 DEF IInv, TypeOK
      <3>2. Heard' /\ Intact'
        BY <1>0, <1>1, <2>1, <2>2 DEF IInv, Heard, Intact, Deaf, Lives
      <3> QED
        BY <2>1, <3>1, <3>2 DEF IInv
    <2>3. CASE Len(fromChild) < PipeCap /\ Puts("torn")
      BY <1>3, <2>1, <2>3 DEF Forms
    <2> QED
      BY <1>5, <2>2, <2>3 DEF Dies
  <1> QED
    BY <1>2, <1>4, <1>5 DEF Crash, Kill

\* The relay prints the oldest line, or ends.
LEMMA RelayStep ==
    ASSUME IInv, Relay \/ RelayEnds
    PROVE  IInv'
  <1>1. UNCHANGED <<mode, client, sent, stdin, signalled, loop, toChild, childStdin, child, owes,
                    written, inflight, trail>> /\ relay = "scanning"
        /\ main \in {"running", "closing"}
    BY DEF Relay, RelayEnds, ends, pipes, kid, Alive
  <1>2. CASE Relay
    <2>1. /\ fromChild \in Seq(Lines) /\ fromChild # <<>> /\ relayed \in Seq(Lines)
          /\ Len(fromChild) \in Nat /\ Len(fromChild) <= PipeCap
          /\ fromChild' = Tail(fromChild) /\ relay' = relay /\ PipeCap \in Nat
      BY <1>2, LifecycleAssumption, LenProperties DEF Relay, IInv, TypeOK
    <2>2. /\ Head(fromChild) \in Lines /\ Tail(fromChild) \in Seq(Lines)
          /\ Len(Tail(fromChild)) = Len(fromChild) - 1
          /\ fromChild = <<Head(fromChild)>> \o Tail(fromChild)
      BY <2>1, HeadTailProperties, ConcatSimplifications
    <2>3. /\ client = "left" => relayed' = relayed /\ main' = "killed"
          /\ client # "left" => relayed' = Append(relayed, Head(fromChild)) /\ main' = main
      BY <1>2 DEF Relay, Prints
    <2>4. relayed' \in Seq(Lines)
      <3>1. Append(relayed, Head(fromChild)) \in Seq(Lines)
        BY <2>1, <2>2, AppendProperties
      <3> QED
        BY <2>1, <2>3, <3>1
    <2>5. TypeOK'
      BY <1>1, <2>1, <2>2, <2>3, <2>4 DEF IInv, TypeOK
    <2>6. Heard' /\ Owing'
      BY <1>1, <2>1, <2>3 DEF IInv, Heard, Owing
    <2>7. Intact'
      <3>1. client # "left" => relayed' \o fromChild' = relayed \o fromChild
        BY <2>1, <2>3, MovesTheHead
      <3> QED
        BY <1>1, <2>3, <3>1 DEF IInv, Intact
    <2> QED
      BY <2>5, <2>6, <2>7 DEF IInv
  <1>3. CASE RelayEnds
    <2>1. UNCHANGED <<fromChild, relayed, main>> /\ relay' = "ended"
          /\ IF fromChild = <<>> THEN ~ Lives ELSE Head(fromChild).form = "huge"
      BY <1>3 DEF RelayEnds, pipes
    <2> QED
      BY <1>1, <2>1 DEF IInv, TypeOK, Owing, Heard, Intact, Deaf, Lives
  <1> QED
    BY <1>2, <1>3

\* Handlers of HTTP mode, the end of Run, and what main does then.
LEMMA EndStep ==
    ASSUME IInv, Arrive \/ HandlerEnds \/ HttpRunReturns \/ RunReturns \/ Consume \/ CloseAll
    PROVE  IInv'
  <1>1. UNCHANGED <<mode, client, sent, stdin, signalled, loop, toChild, childStdin, child, owes,
                    written, fromChild, relay, relayed>>
    BY DEF Arrive, HandlerEnds, HttpRunReturns, RunReturns, Consume, CloseAll, ends, pipes, kid
  <1>2. inflight' \in 0 .. MaxLines /\ trail' \in {"nothing", "record"}
    <2>1. inflight \in 0 .. MaxLines /\ MaxLines \in Nat
      BY LifecycleAssumption DEF IInv, TypeOK
    <2>2. inflight' \in 0 .. MaxLines
      BY <2>1 DEF Arrive, HandlerEnds, HttpRunReturns, RunReturns, Consume, CloseAll
    <2>3. trail' \in {"nothing", "record"}
      BY DEF Arrive, HandlerEnds, HttpRunReturns, RunReturns, Consume, CloseAll, MayRecord, IInv,
         TypeOK
    <2> QED
      BY <2>2, <2>3
  <1>3. main' \in {main, "closing", "exited", "failed"} /\ main # "killed"
    BY DEF Arrive, HandlerEnds, HttpRunReturns, RunReturns, Consume, CloseAll, Return, Result,
       Serving, Alive
  <1>4. mode = "stdio" /\ main' \in {"closing", "exited", "failed"} => relay = "ended"
    BY DEF Arrive, HandlerEnds, HttpRunReturns, RunReturns, Consume, CloseAll, IInv, Heard
  <1>5. TypeOK'
    BY <1>1, <1>2, <1>3 DEF IInv, TypeOK
  <1>6. Owing' /\ Heard' /\ Intact'
    BY <1>1, <1>3, <1>4 DEF IInv, Owing, Heard, Intact, Deaf, Lives
  <1> QED
    BY <1>5, <1>6 DEF IInv

-----------------------------------------------------------------------------
LEMMA InitInv == Init => IInv
  <1> SUFFICES ASSUME Init PROVE IInv
    OBVIOUS
  <1>1. <<>> \in Seq(Kinds) /\ <<>> \in Seq(Lines) /\ <<>> \in Seq({"message"}) /\ Len(<<>>) = 0
    BY EmptySeq
  <1>2. TypeOK
    <2>1. mode \in {"stdio", "http", "bridge"}
      BY LifecycleAssumption DEF Init
    <2>2. /\ loop \in {"scanning", "ended"} /\ child \in {"idle", "exited"}
          /\ relay \in {"scanning", "ended"}
      BY DEF Init
    <2>3. /\ toChild = <<>> /\ fromChild = <<>> /\ stdin = <<>> /\ written = <<>> /\ relayed = <<>>
          /\ client = "sending" /\ sent = 0 /\ signalled = FALSE /\ childStdin = "open"
          /\ owes = 0 /\ inflight = 0 /\ trail = "nothing" /\ main = "running" /\ mode \in Modes
      BY DEF Init
    <2>4. MaxLines \in Nat /\ Answers \in Nat /\ PipeCap \in Nat
      BY LifecycleAssumption
    <2>5. sent \in 0 .. MaxLines /\ inflight \in 0 .. MaxLines /\ owes \in 0 .. Answers
          /\ Len(toChild) <= PipeCap /\ Len(fromChild) <= PipeCap
      BY <1>1, <2>3, <2>4
    <2>6. stdin \in Seq(Kinds) /\ toChild \in Seq({"message"}) /\ written \in Seq(Lines)
          /\ fromChild \in Seq(Lines) /\ relayed \in Seq(Lines)
      BY <1>1, <2>3
    <2>7. signalled \in BOOLEAN
      BY <2>3
    <2> QED
      BY <2>2, <2>3, <2>5, <2>6, <2>7 DEF TypeOK
  <1>3. Owing
    BY DEF Init, Owing
  <1>4. Heard
    BY DEF Init, Heard
  <1>5. Intact
    <2>1. <<>> \o <<>> = <<>>
      BY <1>1, ConcatEmptySeq
    <2> QED
      BY <2>1 DEF Init, Intact
  <1> QED
    BY <1>2, <1>3, <1>4, <1>5 DEF IInv

LEMMA StepInv == IInv /\ [Next]_vars => IInv'
  <1> SUFFICES ASSUME IInv, [Next]_vars PROVE IInv'
    OBVIOUS
  <1>1. CASE UNCHANGED vars
    BY <1>1 DEF vars, ends, kid, pipes, IInv, TypeOK, Owing, Heard, Intact, Deaf, Lives
  <1>2. CASE Loop
    BY <1>2, LoopStep, ForwardStep DEF Loop
  <1>3. CASE Child
    BY <1>3, ForwardStep, ChildStep DEF Child
  <1>4. CASE Ends
    BY <1>4, RelayStep, EndStep DEF Ends
  <1>5. CASE \/ \E kind \in Kinds : Send(kind)
             \/ Hangup \/ Signal \/ Decide("terminal")
    BY <1>5, LoopStep
  <1>6. CASE Crash \/ Kill
    BY <1>6, ChildStep
  <1>7. CASE Relay \/ Arrive \/ HandlerEnds
    BY <1>7, RelayStep, EndStep
  <1> QED
    BY <1>1, <1>2, <1>3, <1>4, <1>5, <1>6, <1>7 DEF Next, Gone

LEMMA AlwaysIInv == Spec => []IInv
  BY InitInv, StepInv, PTL DEF Spec

\* The goroutines, the pipes and the child stay in their states, no pipe holds
\* more than its capacity, and the child never owes a negative number of lines.
THEOREM SessionTyping == Spec => []TypeOK
  BY AlwaysIInv, PTL DEF IInv

\* The client gets the child's lines whole and in order, and all of them by the
\* time stdio's Run has returned, in whatever order client, child and signal
\* end the session, unless the relay has gone deaf (Run, relayServerToClient).
THEOREM NothingIsLost == Spec => []NothingLeftBehind
  <1>1. IInv => NothingLeftBehind
    <2> SUFFICES ASSUME IInv PROVE NothingLeftBehind
      OBVIOUS
    <2>1. ASSUME mode = "stdio", main \in {"closing", "exited", "failed"}, ~ Deaf
          PROVE  relayed = written
      <3>1. fromChild = <<>> /\ relayed \o fromChild = written /\ relayed \in Seq(Lines)
        BY <2>1 DEF IInv, Heard, Intact, TypeOK
      <3> QED
        BY <3>1, ConcatEmptySeq
    <2> QED
      BY <2>1 DEF IInv, Intact, NothingLeftBehind
  <1> QED
    BY <1>1, AlwaysIInv, PTL

-----------------------------------------------------------------------------
\* While no event waits and no change went unseen, the goroutine of run has
\* the present content in hand, or has installed it, or has still to read it.
InHand ==
    ~ missed /\ events = 0 =>
        /\ loads = <<>> /\ content \in Loads => eng = content
        /\ \A i \in DOMAIN loads : loads[i].step = "install" => loads[i].doc = content
WatcherInv == WatcherTypeOK /\ InHand

-----------------------------------------------------------------------------
\* run has at most one load in progress, and what Forget leaves is none.
LEMMA OneLoad ==
    ASSUME WatcherTypeOK, NEW i \in DOMAIN loads
    PROVE  /\ i = 1 /\ Len(loads) = 1 /\ DOMAIN loads = {1} /\ loads[i] \in Load
           /\ SubSeq(loads, 1, i - 1) \o SubSeq(loads, i + 1, Len(loads)) = <<>>
  <1>1. loads \in Seq(Load) /\ Len(loads) \in Nat /\ Len(loads) <= 1
        /\ DOMAIN loads = 1 .. Len(loads)
    BY DEF WatcherTypeOK
  <1>2. i = 1 /\ Len(loads) = 1 /\ DOMAIN loads = {1} /\ loads[i] \in Load
    BY <1>1
  <1> DEFINE a == SubSeq(loads, 1, 0)
             b == SubSeq(loads, 2, 1)
  <1>3. a = <<>> /\ b = <<>>
    BY <1>1, <1>2
  <1>4. a \o b = <<>>
    BY <1>3
  <1> QED BY <1>2, <1>4

\* A change that is notified leaves an event unread.
LEMMA NotifiedWaits ==
    ASSUME WatcherTypeOK, Notified
    PROVE  events' \in 0 .. MaxEvents /\ events' > 0 /\ missed' \in BOOLEAN
  BY ReloadAssumption DEF WatcherTypeOK, Notified

\* A change of the file, seen or unseen, keeps the invariant.
LEMMA FileStep ==
    ASSUME WatcherInv, Touch \/ Notified \/ Unseen, content' \in Contents,
           writing' \in Versions \cup {Nil}, writing' # Nil => content' = Torn,
           watch' \in Watches, UNCHANGED <<loads, eng>>
    PROVE  WatcherInv'
  <1>1. CASE Notified
    BY <1>1, NotifiedWaits DEF WatcherInv, WatcherTypeOK, InHand
  <1>2. CASE Unseen
    BY <1>2 DEF WatcherInv, WatcherTypeOK, InHand, Unseen
  <1> QED BY <1>1, <1>2 DEF Touch

\* The goroutine of run takes an event, reads the file and installs it.
LEMMA RunStep ==
    ASSUME WatcherInv, Run
    PROVE  WatcherInv'
  <1>1. CASE TakeEvent
    <2> DEFINE l == [step |-> "read", doc |-> Nil]
    <2>1. l \in Load /\ loads = <<>> /\ loads' = <<l>>
      BY <1>1 DEF TakeEvent, Load
    <2>2. loads' \in Seq(Load) /\ Len(loads') = 1 /\ DOMAIN loads' = {1} /\ loads'[1] = l
      BY <2>1
    <2>3. events' \in 0 .. MaxEvents
      BY <1>1, ReloadAssumption DEF TakeEvent, WatcherInv, WatcherTypeOK
    <2>4. WatcherTypeOK'
      BY <1>1, <2>2, <2>3 DEF TakeEvent, WatcherInv, WatcherTypeOK, file
    <2>5. loads' # <<>> /\ \A i \in DOMAIN loads' : loads'[i].step # "install"
      <3>1. l.step # "install"
        OBVIOUS
      <3> HIDE DEF l
      <3> QED BY <3>1, <2>2
    <2>6. InHand'
      BY <2>5 DEF InHand
    <2> QED BY <2>4, <2>6 DEF WatcherInv
  <1>2. ASSUME NEW i \in DOMAIN loads, Read(i) PROVE WatcherInv'
    <2> DEFINE l == [step |-> "install", doc |-> content]
    <2>1. i = 1 /\ Len(loads) = 1 /\ DOMAIN loads = {1}
      BY OneLoad DEF WatcherInv
    <2>2. l \in Load
      BY DEF Load, WatcherInv, WatcherTypeOK
    <2>3. loads \in Seq(Load) /\ loads' = [loads EXCEPT ![1] = l]
      BY <1>2, <2>1 DEF Read, WatcherInv, WatcherTypeOK
    <2>4. loads' \in Seq(Load) /\ Len(loads') = 1 /\ DOMAIN loads' = {1} /\ loads'[1] = l
      <3> HIDE DEF l
      <3>1. DOMAIN loads' = DOMAIN loads /\ loads'[1] = l
        BY <2>1, <2>3
      <3>2. loads' \in Seq(Load)
        BY <2>2, <2>3, <2>1
      <3> QED BY <3>1, <3>2, <2>1
    <2>5. WatcherTypeOK'
      <3>1. missed' \in BOOLEAN
        BY <1>2 DEF Read
      <3> QED BY <3>1, <1>2, <2>4 DEF Read, WatcherInv, WatcherTypeOK, file
    <2>6. loads' # <<>> /\ \A j \in DOMAIN loads' : loads'[j].doc = content
      <3>1. l.doc = content
        OBVIOUS
      <3>2. loads' # <<>>
        <4>1. Len(loads') # Len(<<>>)
          BY <2>4
        <4> QED BY <4>1
      <3>3. ASSUME NEW j \in DOMAIN loads' PROVE loads'[j] = l
        BY <2>4
      <3> HIDE DEF l
      <3> QED BY <3>1, <3>2, <3>3
    <2>7. InHand'
      BY <1>2, <2>6 DEF Read, InHand, file
    <2> QED BY <2>5, <2>7 DEF WatcherInv
  <1>3. ASSUME NEW i \in DOMAIN loads, Install(i) PROVE WatcherInv'
    <2>1. i = 1 /\ DOMAIN loads = {1} /\ loads[i] \in Load /\ loads' = <<>>
      BY <1>3, OneLoad DEF WatcherInv, Install, Forget
    <2>2. loads' \in Seq(Load) /\ Len(loads') = 0 /\ DOMAIN loads' = {}
      BY <2>1
    <2>3. WatcherTypeOK'
      BY <1>3, <2>2 DEF Install, WatcherInv, WatcherTypeOK, file
    <2>4. InHand'
      BY <1>3, <2>1, <2>2 DEF Install, WatcherInv, InHand, file
    <2> QED BY <2>3, <2>4 DEF WatcherInv
  <1> QED BY <1>1, <1>2, <1>3 DEF Run

\* The documents, the watch, the events and the load in progress have their
\* types, and the engine never enforces a document that does not load; at
\* most one load is in progress; while no event waits its document is the
\* file's.
THEOREM ReloadInvariant == WatcherSpec => []WatcherInv
  <1>1. WatcherInit => WatcherInv
    <2> SUFFICES ASSUME WatcherInit PROVE WatcherInv
      OBVIOUS
    <2>1. loads = <<>> /\ loads \in Seq(Load) /\ Len(loads) = 0 /\ DOMAIN loads = {}
      BY DEF WatcherInit
    <2>2. WatcherTypeOK
      <3>1. missed \in BOOLEAN
        BY DEF WatcherInit
      <3>2. events \in 0 .. MaxEvents
        BY ReloadAssumption DEF WatcherInit
      <3> QED
        BY <2>1, <3>1, <3>2, ReloadAssumption DEF WatcherInit, WatcherTypeOK, Contents, Watches
    <2>3. InHand
      BY <2>1 DEF WatcherInit, InHand
    <2> QED BY <2>2, <2>3 DEF WatcherInv
  <1>2. WatcherInv /\ [WatcherNext]_watcherVars => WatcherInv'
    <2> SUFFICES ASSUME WatcherInv, [WatcherNext]_watcherVars PROVE WatcherInv'
      OBVIOUS
    <2>1. CASE NewWatcher
      BY <2>1 DEF NewWatcher, WatcherInv, WatcherTypeOK, InHand, Watches, file
    <2>2. ASSUME NEW v \in Versions, Truncate(v) PROVE WatcherInv'
      BY <2>2, FileStep DEF Truncate, WatcherInv, WatcherTypeOK, Contents
    <2>3. CASE Fill
      BY <2>3, FileStep DEF Fill, WatcherInv, WatcherTypeOK, Contents
    <2>4. ASSUME NEW v \in Versions, Replace(v) PROVE WatcherInv'
      <3>1. Notified \/ Unseen
        BY <2>4 DEF Replace
      <3>2. /\ watch' \in Watches /\ content' = v /\ UNCHANGED <<writing, loads, eng>>
            /\ writing = Nil
        BY <2>4 DEF Replace, WatcherInv, WatcherTypeOK, Watches
      <3> QED BY <3>1, <3>2, FileStep DEF Contents
    <2>5. CASE OtherFile
      BY <2>5, FileStep DEF OtherFile, WatcherInv, WatcherTypeOK, file
    <2>6. CASE Run
      BY <2>6, RunStep
    <2>7. CASE UNCHANGED watcherVars
      BY <2>7 DEF watcherVars, file, WatcherInv, WatcherTypeOK, InHand
    <2> QED BY <2>1, <2>2, <2>3, <2>4, <2>5, <2>6, <2>7 DEF WatcherNext
  <1> QED BY <1>1, <1>2, PTL DEF WatcherSpec

\* The engine enforces a document that loads, always: WatcherTypeOK of HotReload.
THEOREM ReloadTyping == WatcherSpec => []WatcherTypeOK
  BY ReloadInvariant, PTL DEF WatcherInv

\* At rest, with no change missed, the engine enforces the file.
THEOREM RestIsCurrent == WatcherSpec => []SettledIsCurrent
  <1>1. WatcherInv => SettledIsCurrent
    BY DEF WatcherInv, InHand, SettledIsCurrent, Quiet
  <1> QED BY ReloadInvariant, <1>1, PTL
=============================================================================
