----------------------------- MODULE Lifecycle ------------------------------
(***************************************************************************)
(* How the process lives and ends: Run of the three transports and what    *)
(* main does when it returns.  In stdio mode one goroutine reads standard  *)
(* input and writes to the child, another relays the child's lines; the    *)
(* child, the client and a signal may each end the session, in any order,  *)
(* and Run waits for both goroutines and then for the child.  The bridge   *)
(* has the one loop, HTTP mode a listener and a handler per request.       *)
(***************************************************************************)
EXTENDS Naturals, Sequences

CONSTANTS
    Modes,      \* the transports main may select
    MaxLines,   \* messages the client sends
    Answers,    \* lines the child writes about one message, at most
    Exits,      \* the ways the child may end by itself: "exited", "failed"
    PipeCap     \* lines a pipe to or from the child holds

ASSUME LifecycleAssumption ==
    /\ Modes \subseteq {"stdio", "http", "bridge"} /\ Exits \subseteq {"exited", "failed"}
    /\ MaxLines \in Nat /\ Answers \in Nat /\ PipeCap \in Nat \ {0}

\* What handleToolCall makes of a client line: forwarded, refused, put to a
\* service or to the terminal; or longer than the scanner's 10 MB.
Kinds == {"forward", "refuse", "service", "terminal", "huge"}
Forms == {"whole", "torn", "huge"}         \* and what the child's lines may be

VARIABLES
    mode,       \* the transport
    client,     \* "sending", "closed" its end of our stdin, or "left"
    sent,       \* the messages it has sent
    stdin,      \* its lines, unread
    signalled,  \* SIGTERM or SIGINT came: ctx is done
    loop,       \* interceptClientToServer, or the bridge's Run
    toChild, childStdin,    \* the lines in that pipe, and whether it is open
    child,      \* "idle", "busy", "exited" with code 0, or "failed"
    owes,       \* lines the child has still to write about a message
    written,    \* history: all the child wrote
    fromChild,  \* its output, unread
    relay,      \* relayServerToClient
    relayed,    \* what the relay printed
    inflight,   \* HTTP handlers at work
    trail,      \* whether the audit pipeline holds "nothing" or a record
    main        \* "running" Run, "closing" the parts, and how it ended

ends  == <<client, sent, mode>>
kid   == <<child, owes, written>>
pipes == <<toChild, childStdin, fromChild>>
vars  == <<ends, stdin, signalled, loop, pipes, kid, relay, relayed, inflight, trail, main>>

Alive   == main \in {"running", "closing"}
Lives   == child \in {"idle", "busy"}
Serving == main = "running"

Init ==
    /\ mode \in Modes /\ client = "sending" /\ sent = 0 /\ stdin = <<>>
    /\ signalled = FALSE
    /\ loop = IF mode = "http" THEN "ended" ELSE "scanning"
    /\ toChild = <<>> /\ childStdin = "open" /\ fromChild = <<>>
    /\ child = IF mode = "stdio" THEN "idle" ELSE "exited"
    /\ owes = 0 /\ written = <<>>
    /\ relay = IF mode = "stdio" THEN "scanning" ELSE "ended"
    /\ relayed = <<>> /\ inflight = 0 /\ trail = "nothing" /\ main = "running"

-----------------------------------------------------------------------------
\* The client writes a line, closes its end, or leaves altogether.
Send(kind) ==
    /\ Alive /\ mode # "http" /\ client = "sending" /\ sent < MaxLines
    /\ sent' = sent + 1 /\ stdin' = Append(stdin, kind)
    /\ UNCHANGED <<mode, client, signalled, loop, pipes, kid, relay, relayed, inflight,
                   trail, main>>
Hangup ==
    /\ Alive /\ client # "left"
    /\ client' \in {"closed", "left"} \ {client}
    /\ UNCHANGED <<mode, sent, stdin, signalled, loop, pipes, kid, relay, relayed,
                   inflight, trail, main>>
\* main's signal goroutine: the first signal cancels ctx; later ones are
\* caught too, and nobody reads them.
Signal ==
    /\ Alive /\ ~ signalled /\ signalled' = TRUE
    /\ UNCHANGED <<ends, stdin, loop, pipes, kid, relay, relayed, inflight, trail, main>>

-----------------------------------------------------------------------------
\* Run returned: nil, and main closes the parts; an error, and os.Exit(1).
Return(how) == main' = how
\* A line on standard output; once the client has left it raises SIGPIPE.
Prints == IF client = "left" THEN main' = "killed" ELSE UNCHANGED main
\* A handler may have emitted a record on its way.
MayRecord == trail' \in {trail, "record"}

\* The loops: the next line, or the end of standard input.
ScanAny_ ==                                \* no limit on the length of a line
    /\ Alive /\ loop = "scanning" /\ stdin # <<>>
    /\ loop' = Head(stdin) /\ stdin' = Tail(stdin)
    /\ UNCHANGED <<ends, signalled, pipes, kid, relay, relayed, inflight, trail, main>>
Scan ==
    /\ Alive /\ loop = "scanning" /\ stdin # <<>>
    /\ Head(stdin) # "huge" /\ ~ (mode = "bridge" /\ signalled)
    /\ loop' = Head(stdin) /\ stdin' = Tail(stdin)
    /\ UNCHANGED <<ends, signalled, pipes, kid, relay, relayed, inflight, trail, main>>

\* No more lines, one too long, or in bridge mode one that comes after the
\* signal, which is dropped: the loop ends.  stdio closes the child's input,
\* the bridge's Run returns nil.
ReadsNoMore == IF stdin = <<>> THEN client # "sending"
               ELSE Head(stdin) = "huge" \/ (mode = "bridge" /\ signalled)
LoopEndsOpen_ ==                           \* the child's input is left open
    /\ Alive /\ loop = "scanning" /\ ReadsNoMore
    /\ loop' = "ended"
    /\ IF mode = "bridge" THEN Return("closing") ELSE UNCHANGED main
    /\ UNCHANGED <<ends, stdin, signalled, pipes, kid, relay, relayed, inflight, trail>>
LoopEnds ==
    /\ Alive /\ loop = "scanning" /\ ReadsNoMore
    /\ loop' = "ended" /\ childStdin' = "closed"
    /\ IF mode = "bridge" THEN Return("closing") ELSE UNCHANGED main
    /\ UNCHANGED <<ends, stdin, signalled, toChild, fromChild, kid, relay, relayed,
                   inflight, trail>>

\* stdio forwards: the write blocks on a full pipe, and fails unnoticed when
\* the child is gone.
WriteToChild ==
    /\ Alive /\ mode = "stdio" /\ loop = "forward"
    /\ IF Lives THEN Len(toChild) < PipeCap /\ toChild' = Append(toChild, "message")
                ELSE UNCHANGED toChild
    /\ loop' = "scanning" /\ MayRecord
    /\ UNCHANGED <<ends, stdin, signalled, childStdin, fromChild, kid, relay, relayed,
                   inflight, main>>
\* The bridge forwards: an answer is printed, an error, such as that of a
\* context that is done, only logged.
PostUpstream ==
    /\ Alive /\ mode = "bridge" /\ loop = "forward"
    /\ loop' = "scanning" /\ MayRecord
    /\ Prints \/ UNCHANGED main
    /\ UNCHANGED <<ends, stdin, signalled, pipes, kid, relay, relayed, inflight>>
\* A refusal is printed.
Refuse ==
    /\ Alive /\ loop = "refuse"
    /\ loop' = "scanning" /\ Prints /\ MayRecord
    /\ UNCHANGED <<ends, stdin, signalled, pipes, kid, relay, relayed, inflight>>
\* An approval: a service's ends at the latest with ctx, the terminal's when
\* somebody types.
Decide(asked) ==
    /\ Alive /\ loop = asked /\ loop' \in {"forward", "refuse"}
    /\ UNCHANGED <<ends, stdin, signalled, pipes, kid, relay, relayed, inflight, trail, main>>

-----------------------------------------------------------------------------
\* The child: it reads a message, writes its lines, and exits at the end of
\* its input; one that may fail may do so at any time, and any is killed when
\* ctx is done.  Its last line may be cut short.
Takes ==
    /\ Alive /\ child = "idle" /\ toChild # <<>>
    /\ toChild' = Tail(toChild)
    /\ owes' \in 0 .. Answers /\ child' = IF owes' = 0 THEN "idle" ELSE "busy"
    /\ UNCHANGED <<ends, stdin, signalled, loop, childStdin, fromChild, written, relay,
                   relayed, inflight, trail, main>>
Puts(form) ==
    LET line == [no |-> Len(written) + 1, form |-> form]
    IN fromChild' = Append(fromChild, line) /\ written' = Append(written, line)
Answer(form) ==
    /\ Alive /\ child = "busy" /\ form # "torn" /\ Len(fromChild) < PipeCap
    /\ Puts(form)
    /\ owes' = owes - 1 /\ child' = IF owes' = 0 THEN "idle" ELSE "busy"
    /\ UNCHANGED <<ends, stdin, signalled, loop, toChild, childStdin, relay, relayed,
                   inflight, trail, main>>
ChildExits ==
    /\ Alive /\ child = "idle" /\ toChild = <<>> /\ childStdin = "closed"
    /\ child' \in Exits
    /\ UNCHANGED <<ends, stdin, signalled, loop, pipes, owes, written, relay, relayed,
                   inflight, trail, main>>
Dies ==
    /\ child' = "failed" /\ owes' = 0
    /\ \/ UNCHANGED <<fromChild, written>>
       \/ child = "busy" /\ Len(fromChild) < PipeCap /\ Puts("torn")
    /\ UNCHANGED <<ends, stdin, signalled, loop, toChild, childStdin, relay, relayed,
                   inflight, trail, main>>
Crash == Alive /\ Lives /\ "failed" \in Exits /\ Dies
KillNever_ == FALSE /\ UNCHANGED vars      \* exec.Command, without the context
Kill == Alive /\ Lives /\ signalled /\ Dies

\* relayServerToClient: one line more; its end is the child's, or a line
\* longer than 10 MB, after which nobody reads the pipe.
Relay ==
    /\ Alive /\ relay = "scanning" /\ fromChild # <<>> /\ Head(fromChild).form # "huge"
    /\ fromChild' = Tail(fromChild)
    /\ relayed' = IF client = "left" THEN relayed ELSE Append(relayed, Head(fromChild))
    /\ Prints
    /\ UNCHANGED <<ends, stdin, signalled, loop, toChild, childStdin, kid, relay,
                   inflight, trail>>
RelayEnds ==
    /\ Alive /\ relay = "scanning"
    /\ IF fromChild = <<>> THEN ~ Lives ELSE Head(fromChild).form = "huge"
    /\ relay' = "ended"
    /\ UNCHANGED <<ends, stdin, signalled, loop, pipes, kid, relayed, inflight, trail, main>>

-----------------------------------------------------------------------------
\* HTTP mode: handlers come and go, and Run returns as soon as Shutdown has
\* closed the listener: it waits for no handler.  One that emits after that
\* finds the pipeline's channel closed, and its record is lost.
Arrive ==
    /\ Serving /\ mode = "http" /\ inflight < MaxLines
    /\ inflight' = inflight + 1
    /\ UNCHANGED <<ends, stdin, signalled, loop, pipes, kid, relay, relayed, trail, main>>
HandlerEnds ==
    /\ Alive /\ inflight > 0
    /\ inflight' = inflight - 1
    /\ IF Serving THEN MayRecord ELSE UNCHANGED trail
    /\ UNCHANGED <<ends, stdin, signalled, loop, pipes, kid, relay, relayed, main>>
HttpRunReturns ==
    /\ Serving /\ mode = "http"
    /\ \/ signalled /\ Return("closing")
       \/ ~ signalled /\ Return("failed")  \* the listener fails
    /\ UNCHANGED <<ends, stdin, signalled, loop, pipes, kid, relay, relayed, inflight, trail>>

\* stdio's Run: wg.Wait, then cmd.Wait, whose error is the child's, or ctx's
\* when the kill reached a child that had exited and was not waited for yet.
Result ==
    IF child = "failed" THEN {"failed"}
    ELSE IF signalled THEN {"closing", "failed"} ELSE {"closing"}
RunReturnsEarly_ ==                        \* cmd.Wait before wg.Wait
    /\ Serving /\ mode = "stdio" /\ loop = "ended" /\ ~ Lives
    /\ \E how \in Result : Return(how)
    /\ UNCHANGED <<ends, stdin, signalled, loop, pipes, kid, relay, relayed, inflight, trail>>
RunReturns ==
    /\ Serving /\ mode = "stdio" /\ loop = "ended" /\ relay = "ended" /\ ~ Lives
    /\ \E how \in Result : Return(how)
    /\ UNCHANGED <<ends, stdin, signalled, loop, pipes, kid, relay, relayed, inflight, trail>>

\* The pipeline's consumer; the deferred Close, which waits for it; the end.
Consume ==
    /\ Alive /\ trail = "record" /\ trail' = "nothing"
    /\ UNCHANGED <<ends, stdin, signalled, loop, pipes, kid, relay, relayed, inflight, main>>
CloseAll ==
    /\ main = "closing" /\ trail = "nothing" /\ main' = "exited"
    /\ UNCHANGED <<ends, stdin, signalled, loop, pipes, kid, relay, relayed, inflight, trail>>
Gone == ~ Alive /\ UNCHANGED vars

Loop  == Scan \/ LoopEnds \/ WriteToChild \/ PostUpstream \/ Refuse \/ Decide("service")
Child == Takes \/ (\E form \in Forms : Answer(form)) \/ ChildExits
Ends  == RelayEnds \/ HttpRunReturns \/ RunReturns \/ Consume \/ CloseAll

Next == \/ \E kind \in Kinds : Send(kind)
        \/ Hangup \/ Signal \/ Loop \/ Decide("terminal") \/ Child \/ Crash \/ Kill
        \/ Relay \/ Arrive \/ HandlerEnds \/ Ends \/ Gone

\* The goroutines are scheduled, a service's approval and a POST have their
\* deadlines, the kernel delivers the kill, and a server reads its input,
\* writes its lines and, in one of the ways of Exits, exits at its end, as MCP
\* asks of it.  Nobody need type, hang up or send a signal, and a listener need
\* not fail.
Fairness == /\ WF_vars(Loop) /\ WF_vars(Relay) /\ WF_vars(RelayEnds) /\ WF_vars(Child)
            /\ WF_vars(Kill) /\ WF_vars(signalled /\ HttpRunReturns) /\ WF_vars(RunReturns)
            /\ WF_vars(Consume) /\ WF_vars(CloseAll)
Spec == Init /\ [][Next]_vars /\ Fairness

-----------------------------------------------------------------------------
Lines == [no : Nat, form : Forms]
TypeOK ==
    /\ mode \in Modes /\ client \in {"sending", "closed", "left"} /\ sent \in 0 .. MaxLines
    /\ stdin \in Seq(Kinds) /\ signalled \in BOOLEAN
    /\ loop \in {"scanning", "forward", "refuse", "service", "terminal", "ended"}
    /\ toChild \in Seq({"message"}) /\ Len(toChild) <= PipeCap
    /\ childStdin \in {"open", "closed"}
    /\ child \in {"idle", "busy", "exited", "failed"} /\ owes \in 0 .. Answers
    /\ written \in Seq(Lines) /\ fromChild \in Seq(Lines) /\ Len(fromChild) <= PipeCap
    /\ relay \in {"scanning", "ended"} /\ relayed \in Seq(Lines)
    /\ inflight \in 0 .. MaxLines /\ trail \in {"nothing", "record"}
    /\ main \in {"running", "closing", "exited", "failed", "killed"}

\* The relay met a line it cannot hold, and nobody reads the child any more.
Deaf == relay = "ended" /\ fromChild # <<>> /\ Head(fromChild).form = "huge"

\* The client gets the child's lines as they were written, in order; and when
\* stdio's Run returns it has got all of them, whoever ended the session and
\* in whatever order, unless the relay had gone deaf.  A line cut short by the
\* child's death is the last (Run, relayServerToClient).
NothingLeftBehind ==
    /\ main # "killed" => relayed \o fromChild = written
    /\ mode = "stdio" /\ main \in {"closing", "exited", "failed"} =>
          Deaf \/ relayed = written
    /\ \A i \in DOMAIN written : written[i].form = "torn" => i = Len(written)

\* A client that closes its end is rid of the guard, and of the server behind
\* it, after what it had sent is dealt with; unless the relay is deaf, or a
\* handler sits at the terminal (LoopEnds closes the child's input).
Parted == main \in {"exited", "failed", "killed"}
ClientEndsIt ==
    mode # "http" /\ client # "sending" ~> Parted \/ Deaf \/ loop = "terminal"

\* A signal ends a guard whose client has gone, deaf or not, since it kills
\* the child; and HTTP mode at once (main's signal goroutine, CommandContext).
SignalEndsIt ==
    signalled /\ (client # "sending" \/ mode = "http") ~> Parted \/ loop = "terminal"

\* Every session that somebody ends does end.
SessionEnds == ClientEndsIt /\ SignalEndsIt

\* docs/audit.md:110: "The pipeline flushes on shutdown".  Not when the child
\* has failed, which it has, whatever it meant to do, once a signal killed it:
\* Run then returns an error, and main exits at once (StdioProxy.Run, main).
FlushesOnShutdown == main \in {"exited", "failed"} => trail = "nothing"
=============================================================================
