------------------------------ MODULE Approval ------------------------------
(***************************************************************************)
(* internal/approval: what happens while Guard's AskApproval blocks.  The  *)
(* registry resolves the channel a rule names, falling back from terminals *)
(* it cannot open; the terminal handler prompts on /dev/tty, the webhook   *)
(* and Slack handlers post the request to a service and poll it for the    *)
(* reviewer's verdict until the deadline.                                  *)
(*                                                                         *)
(* Every request has a goroutine of its own in the HTTP proxy; they share  *)
(* the one terminal of the process.  The operator answers a prompt by      *)
(* typing a line, and the line goes to whichever handler reads it.         *)
(***************************************************************************)
EXTENDS Naturals, Sequences, FiniteSets

CONSTANTS
    Requests,   \* approval requests
    Channels,   \* channel names rules may use
    Registry,   \* the channels the startup document defines
    MaxLines,   \* lines typed and not read: a bound of the model
    Nil         \* no channel, no result

\* A channel: its type, the channel it falls back to, and how its reviewer's
\* verdict comes back.  callback_mode is stored and never read, so a webhook is
\* polled in any case; a Slack channel without callback_url has no way back.
Channel == [kind : {"terminal", "webhook", "slack"}, fallback : Channels \cup {Nil},
            answers : {"typed", "poll", "none"}]

ASSUME ApprovalAssumption ==
    /\ DOMAIN Registry \subseteq Channels
    /\ \A ch \in DOMAIN Registry : Registry[ch] \in Channel
    /\ MaxLines \in Nat
    /\ Nil \notin Channels \cup {"approve", "approved"}   \* no name, no answer

VARIABLES
    stage,      \* where the handling of a request is
    channel,    \* the channel it has reached
    visited,    \* handleWithVisited's map: the channels it has tried
    expired,    \* whether its context is done: the deadline, or a client gone
    reached,    \* whether the channel's service received it
    verdict,    \* the reviewer's verdict, as the service holds it
    tty,        \* lines typed and not yet read
    consent,    \* history: the requests whose own reviewer said yes
    exposed,    \* history: the requests other prompts' lines may reach
    late,       \* history: the requests whose context was done when they ended
    result      \* what Handle returned

reviewers == <<reached, verdict, consent>>
terminal  == <<tty, exposed>>
vars == <<stage, channel, visited, expired, reviewers, terminal, late, result>>

Stages   == {"new", "resolving", "prompting", "reading", "posting", "polling",
             "fetching", "done"}
Verdicts == {"approve", "reject"}
Results  == {"approved", "rejected", "timeout", "error"}
Lines    == [to : Requests, says : Verdicts \cup {"view", "eof"}]

AtTty(r) == stage[r] \in {"prompting", "reading"}

Init ==
    /\ stage = [r \in Requests |-> "new"] /\ channel = [r \in Requests |-> Nil]
    /\ visited = [r \in Requests |-> {}] /\ expired = {} /\ reached = {}
    /\ verdict = [r \in Requests |-> Nil] /\ tty = <<>>
    /\ consent = {} /\ exposed = {} /\ late = {}
    /\ result = [r \in Requests |-> Nil]

\* Handle returns for r.
Return(r, how) ==
    /\ stage' = [stage EXCEPT ![r] = "done"] /\ result' = [result EXCEPT ![r] = how]
    /\ late' = IF r \in expired THEN late \cup {r} ELSE late
GoTo(r, next) == stage' = [stage EXCEPT ![r] = next] /\ UNCHANGED <<result, late>>
Consents(r, yes) == consent' = IF yes THEN consent \cup {r} ELSE consent
Verdict(v) == IF v = "approve" THEN "approved" ELSE "rejected"

-----------------------------------------------------------------------------
\* Registry.Handle, called by a transport's handler with the rule's channel.
Handle(r, ch) ==
    /\ stage[r] = "new"
    /\ channel' = [channel EXCEPT ![r] = ch]
    /\ GoTo(r, "resolving")
    /\ UNCHANGED <<visited, expired, reviewers, terminal>>

\* handleWithVisited up to the call of the handler: a channel met before or
\* not defined is an error; a terminal that cannot be opened passes the
\* request to its fallback, and only a terminal does.
OpensTty(r) ==
    /\ GoTo(r, "prompting")
    /\ LET others == {q \in Requests \ {r} : AtTty(q)}
       IN exposed' = IF others = {} /\ tty = <<>> THEN exposed
                     ELSE exposed \cup others \cup {r}
    /\ UNCHANGED channel
FallsBack(r) ==                            \* ErrNoTTY
    /\ IF Registry[channel[r]].fallback = Nil
       THEN Return(r, "error") /\ UNCHANGED channel
       ELSE /\ channel' = [channel EXCEPT ![r] = Registry[channel[r]].fallback]
            /\ UNCHANGED <<stage, result, late>>
    /\ UNCHANGED exposed

ResolveUnvisited_(r) ==                    \* the visited map is not consulted
    /\ stage[r] = "resolving"
    /\ visited' = [visited EXCEPT ![r] = @ \cup {channel[r]}]
    /\ IF channel[r] \notin DOMAIN Registry
       THEN Return(r, "error") /\ UNCHANGED <<channel, exposed>>
       ELSE IF Registry[channel[r]].kind = "terminal"
            THEN OpensTty(r) \/ FallsBack(r)
            ELSE GoTo(r, "posting") /\ UNCHANGED <<channel, exposed>>
    /\ UNCHANGED <<expired, reviewers, tty>>
ResolveUnknown_(r) ==                      \* an unknown channel is not refused
    /\ stage[r] = "resolving"
    /\ visited' = [visited EXCEPT ![r] = @ \cup {channel[r]}]
    /\ GoTo(r, "posting") /\ UNCHANGED <<channel, exposed>>
    /\ UNCHANGED <<expired, reviewers, tty>>
Resolve(r) ==
    /\ stage[r] = "resolving"
    /\ visited' = [visited EXCEPT ![r] = @ \cup {channel[r]}]
    /\ IF channel[r] \in visited[r] \/ channel[r] \notin DOMAIN Registry
       THEN Return(r, "error") /\ UNCHANGED <<channel, exposed>>
       ELSE IF Registry[channel[r]].kind = "terminal"
            THEN OpensTty(r) \/ FallsBack(r)
            ELSE GoTo(r, "posting") /\ UNCHANGED <<channel, exposed>>
    /\ UNCHANGED <<expired, reviewers, tty>>

-----------------------------------------------------------------------------
\* TerminalHandler: the top of the loop looks at the context, and the read
\* that follows blocks until some line comes, however long that takes.  Opening
\* the terminal leaves lines typed earlier unread; "view" stands for every
\* line that is no answer, and an end of file is a read error.
Prompt(r) ==
    /\ stage[r] = "prompting"
    /\ IF r \in expired THEN Return(r, "timeout") ELSE GoTo(r, "reading")
    /\ UNCHANGED <<channel, visited, expired, reviewers, terminal>>

ReadLine(r) ==
    /\ stage[r] = "reading" /\ tty # <<>>
    /\ tty' = Tail(tty)
    /\ CASE Head(tty).says \in Verdicts -> Return(r, Verdict(Head(tty).says))
         [] Head(tty).says = "eof"       -> Return(r, "rejected")
         [] Head(tty).says = "view"      -> GoTo(r, "prompting")
    /\ UNCHANGED <<channel, visited, expired, reviewers, exposed>>

\* The operator answers the prompt of r, which is on the screen.
Type(r, says) ==
    /\ AtTty(r) /\ Len(tty) < MaxLines
    /\ tty' = Append(tty, [to |-> r, says |-> says])
    /\ Consents(r, says = "approve")
    /\ UNCHANGED <<stage, channel, visited, expired, reached, verdict, exposed, late, result>>

-----------------------------------------------------------------------------
\* The webhook and Slack handlers.  The POST carries the context; an error
\* of it ends the request, whatever fallback the channel has.
PostArrives(r) ==
    /\ stage[r] = "posting" /\ r \notin reached /\ r \notin expired
    /\ reached' = reached \cup {r}
    /\ UNCHANGED <<stage, channel, visited, expired, verdict, consent, terminal, late, result>>

\* The answer to the POST: a webhook that answers 200 with a decision has
\* decided; Slack's answer is not looked at, and without a callback URL its
\* request is rejected here.
PostReturns(r) ==
    /\ stage[r] = "posting" /\ r \in reached /\ r \notin expired
    /\ LET ch == Registry[channel[r]]
       IN \/ /\ ch.kind = "webhook" /\ ch.answers = "poll" /\ verdict[r] # Nil
             /\ Return(r, Verdict(verdict[r]))
          \/ ch.answers = "none" /\ Return(r, "rejected")
          \/ ch.answers # "none" /\ GoTo(r, "polling")
    /\ UNCHANGED <<channel, visited, expired, reviewers, terminal>>

PostFails(r) ==
    /\ stage[r] = "posting"
    /\ Return(r, "error")
    /\ UNCHANGED <<channel, visited, expired, reviewers, terminal>>

\* A tick of the poll timer, the answer to the GET, its failure, and the end
\* of the context, which the select may find together with a tick.
Poll(r) ==
    /\ stage[r] = "polling"
    /\ GoTo(r, "fetching")
    /\ UNCHANGED <<channel, visited, expired, reviewers, terminal>>
FetchUnbounded_(r) ==                      \* the GET does not carry the context
    /\ stage[r] = "fetching"
    /\ IF Registry[channel[r]].answers = "poll" /\ verdict[r] # Nil
       THEN Return(r, Verdict(verdict[r])) ELSE GoTo(r, "polling")
    /\ UNCHANGED <<channel, visited, expired, reviewers, terminal>>
FetchAnyones_(r) ==                        \* the GET does not name the request
    /\ stage[r] = "fetching" /\ r \notin expired
    /\ \/ \E q \in Requests : /\ verdict[q] # Nil /\ channel[q] = channel[r]
                              /\ Return(r, Verdict(verdict[q]))
       \/ GoTo(r, "polling")
    /\ UNCHANGED <<channel, visited, expired, reviewers, terminal>>
FetchReturns(r) ==
    /\ stage[r] = "fetching" /\ r \notin expired
    /\ IF Registry[channel[r]].answers = "poll" /\ verdict[r] # Nil
       THEN Return(r, Verdict(verdict[r])) ELSE GoTo(r, "polling")
    /\ UNCHANGED <<channel, visited, expired, reviewers, terminal>>
FetchFails(r) ==
    /\ stage[r] = "fetching"
    /\ GoTo(r, "polling")
    /\ UNCHANGED <<channel, visited, expired, reviewers, terminal>>
GiveUp(r) ==
    /\ stage[r] = "polling" /\ r \in expired
    /\ Return(r, "timeout")
    /\ UNCHANGED <<channel, visited, expired, reviewers, terminal>>

\* The reviewer behind the service decides, at any time after it was told.
Review(r, v) ==
    /\ r \in reached /\ verdict[r] = Nil
    /\ verdict' = [verdict EXCEPT ![r] = v]
    /\ Consents(r, v = "approve")
    /\ UNCHANGED <<stage, channel, visited, expired, reached, terminal, late, result>>

\* The deadline passes, or in HTTP mode the client goes away.
Expire(r) ==
    /\ stage[r] \notin {"new", "done"} /\ r \notin expired
    /\ expired' = expired \cup {r}
    /\ UNCHANGED <<stage, channel, visited, reviewers, terminal, late, result>>

Terminal(r) == Prompt(r) \/ ReadLine(r)
Service(r)  == \/ PostReturns(r) \/ PostFails(r) \/ Poll(r)
               \/ FetchReturns(r) \/ FetchFails(r) \/ GiveUp(r)
Step(r)     == Resolve(r) \/ Terminal(r) \/ Service(r)

Idle == (\A r \in Requests : stage[r] = "done") /\ UNCHANGED vars

Next ==
    \/ \E r \in Requests, ch \in Channels : Handle(r, ch)
    \/ \E r \in Requests : Step(r) \/ PostArrives(r) \/ Expire(r)
    \/ \E r \in Requests, says \in Verdicts \cup {"view", "eof"} : Type(r, says)
    \/ \E r \in Requests, v \in Verdicts : Review(r, v)
    \/ Idle

\* Goroutines are scheduled, HTTP requests end by the client's timeout or the
\* context, contexts have deadlines, and a select that finds the context done
\* again and again takes that case some time.  No line need ever be typed
\* and no reviewer need decide.
Fairness ==
    \A r \in Requests :
        /\ WF_vars(Resolve(r)) /\ WF_vars(Prompt(r)) /\ WF_vars(ReadLine(r))
        /\ WF_vars(PostReturns(r) \/ PostFails(r)) /\ WF_vars(FetchReturns(r) \/ FetchFails(r))
        /\ WF_vars(Expire(r)) /\ SF_vars(GiveUp(r))
Spec == Init /\ [][Next]_vars /\ Fairness

-----------------------------------------------------------------------------
TypeOK ==
    /\ stage \in [Requests -> Stages] /\ channel \in [Requests -> Channels \cup {Nil}]
    /\ visited \in [Requests -> SUBSET Channels]
    /\ expired \subseteq Requests /\ reached \subseteq Requests
    /\ verdict \in [Requests -> Verdicts \cup {Nil}]
    /\ tty \in Seq(Lines) /\ Len(tty) <= MaxLines
    /\ {consent, exposed, late} \subseteq SUBSET Requests
    /\ result \in [Requests -> Results \cup {Nil}]
    /\ \A r \in Requests : stage[r] \notin {"new", "resolving", "done"} =>
                              channel[r] \in DOMAIN Registry

KindOf(r) == Registry[channel[r]].kind
Approved(r) == result[r] = "approved"

\* A request is approved only by its own reviewer, on the channel it reached;
\* the exceptions are requests that prompted beside another one, or on a
\* terminal with a line left unread, and took an answer meant for another.
ApprovedByItsReviewer == \A r \in Requests : Approved(r) => r \in consent \cup exposed

\* A polled channel never approves a request whose context is done, however
\* late the service answers (RequestApproval of WebhookHandler, SlackHandler).
NoLateVerdict == \A r \in Requests : Approved(r) /\ r \in late => KindOf(r) = "terminal"

\* The channels a request leaves behind are terminals that fall back to the
\* next one: no reviewer who was asked is passed over, and none that was not
\* on the rule's chain is asked (handleWithVisited).
OnlyTerminalsArePassed ==
    \A r \in Requests : \A ch \in visited[r] \ {channel[r]} :
        /\ ch \in DOMAIN Registry /\ Registry[ch].kind = "terminal"
        /\ Registry[ch].fallback \in visited[r] \cup {channel[r]}

\* Handle returns by the deadline or a moment after, on every channel and
\* through every chain of fallbacks, circular ones too, unless it is reading
\* the terminal.
HandleReturns == \A r \in Requests : stage[r] # "new" ~> stage[r] \in {"reading", "done"}
=============================================================================
