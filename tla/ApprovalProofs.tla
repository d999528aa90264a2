--------------------------- MODULE ApprovalProofs ---------------------------
(***************************************************************************)
(* Whose verdict counts, late verdicts and fallbacks: theorems about       *)
(* Approval, for any requests, any channels and any chain of fallbacks.    *)
(***************************************************************************)
EXTENDS Approval, TLAPS, SequenceTheorems

\* What holds of a request: a terminal's handler has it only on a terminal's
\* channel, it is late only when it has ended, has tried no channel when it is
\* new and has one to try when it is resolved; the rest are its parts of the two properties.
PassedOnly(r) ==
    \A ch \in visited[r] \ {channel[r]} :
        /\ ch \in DOMAIN Registry /\ Registry[ch].kind = "terminal"
        /\ Registry[ch].fallback \in visited[r] \cup {channel[r]}
Good(r) ==
    /\ AtTty(r) => KindOf(r) = "terminal"
    /\ r \in late => stage[r] = "done"
    /\ stage[r] = "new" => visited[r] = {}
    /\ stage[r] = "resolving" => channel[r] \in Channels
    /\ Approved(r) /\ r \in late => KindOf(r) = "terminal"
    /\ PassedOnly(r)
IInv == TypeOK /\ \A r \in Requests : Good(r)

-----------------------------------------------------------------------------
\* A request whose variables do not change stays as it is.
LEMMA GoodFrame ==
    ASSUME NEW r, Good(r), stage'[r] = stage[r], channel'[r] = channel[r],
           visited'[r] = visited[r], result'[r] = result[r], r \in late' <=> r \in late
    PROVE  Good(r)'
  BY DEF Good, AtTty, KindOf, Approved, PassedOnly

\* A step on the way to a result, on the same channel, keeps a request good.
LEMMA GoneOn ==
    ASSUME IInv, NEW r \in Requests, NEW next \in Stages \ {"new", "resolving"}, GoTo(r, next),
           stage[r] # "done", AtTty(r)' => KindOf(r) = "terminal",
           channel'[r] = channel[r], visited[r] \subseteq visited'[r],
           visited'[r] \subseteq visited[r] \cup {channel[r]}
    PROVE  Good(r)'
  <1>1. stage'[r] = next /\ result'[r] = result[r] /\ late' = late /\ r \notin late
    BY DEF GoTo, IInv, TypeOK, Good
  <1> QED BY <1>1 DEF IInv, Good, Approved, KindOf, PassedOnly

\* So does the end of a request, unless it is approved late by a service.
LEMMA Returned ==
    ASSUME IInv, NEW r \in Requests, NEW how \in Results, Return(r, how),
           stage[r] # "done",
           how # "approved" \/ r \notin expired \/ KindOf(r) = "terminal",
           channel'[r] = channel[r], visited[r] \subseteq visited'[r],
           visited'[r] \subseteq visited[r] \cup {channel[r]}
    PROVE  Good(r)'
  <1>1. stage'[r] = "done" /\ result'[r] = how /\ (r \in late' => r \in expired)
    BY DEF Return, IInv, TypeOK, Good
  <1> QED BY <1>1 DEF IInv, Good, Approved, KindOf, PassedOnly, AtTty

\* The types of what a step of the process changes.
LEMMA MoveTypes ==
    ASSUME TypeOK, NEW r \in Requests
    PROVE  /\ \A next \in Stages : GoTo(r, next) =>
                 /\ stage' \in [Requests -> Stages] /\ late' \in SUBSET Requests
                 /\ result' \in [Requests -> Results \cup {Nil}]
           /\ \A how \in Results : Return(r, how) =>
                 /\ stage' \in [Requests -> Stages] /\ late' \in SUBSET Requests
                 /\ result' \in [Requests -> Results \cup {Nil}]
  BY DEF TypeOK, GoTo, Return, Stages

\* Each step of a request's handling goes on or returns, and leaves the other
\* requests alone.
Moves(r) == \/ \E next \in Stages \ {"new"} : GoTo(r, next)
            \/ \E how \in Results : Return(r, how)
            \/ UNCHANGED <<stage, result, late>>
LEMMA OthersUntouched ==
    ASSUME TypeOK, NEW r \in Requests, NEW q \in Requests \ {r}, Moves(r)
    PROVE  /\ stage'[q] = stage[q] /\ result'[q] = result[q] /\ (q \in late' <=> q \in late)
  BY DEF TypeOK, Moves, GoTo, Return

\* A step that changes nothing of a request but how far it is, and that moves
\* from a stage with a channel, keeps the types.
LEMMA HandlerTypes ==
    ASSUME TypeOK, NEW r \in Requests, Moves(r),
           stage[r] \notin {"new", "resolving", "done"},
           tty' \in Seq(Lines), Len(tty') <= MaxLines,
           UNCHANGED <<channel, visited, expired, reviewers, exposed>>
    PROVE  TypeOK'
  <1>1. /\ stage' \in [Requests -> Stages] /\ late' \in SUBSET Requests
        /\ result' \in [Requests -> Results \cup {Nil}]
    BY MoveTypes DEF Moves, TypeOK
  <1>2. \A q \in Requests : stage'[q] \notin {"new", "resolving", "done"} =>
                               channel'[q] \in DOMAIN Registry
    <2> SUFFICES ASSUME NEW q \in Requests, stage'[q] \notin {"new", "resolving", "done"}
                 PROVE  channel[q] \in DOMAIN Registry
      OBVIOUS
    <2>1. CASE q = r BY <2>1 DEF TypeOK
    <2>2. CASE q # r BY <2>2, OthersUntouched DEF TypeOK
    <2> QED BY <2>1, <2>2
  <1> QED BY <1>1, <1>2 DEF TypeOK, reviewers

\* One request good, the others untouched: the invariant.
LEMMA OneMoved ==
    ASSUME IInv, NEW r \in Requests, Moves(r), Good(r)', TypeOK',
           \A q \in Requests \ {r} : channel'[q] = channel[q] /\ visited'[q] = visited[q]
    PROVE  IInv'
  <1> SUFFICES ASSUME NEW q \in Requests PROVE Good(q)'
    BY DEF IInv
  <1>1. CASE q = r BY <1>1
  <1>2. CASE q # r BY <1>2, OthersUntouched, GoodFrame DEF IInv
  <1> QED BY <1>1, <1>2

-----------------------------------------------------------------------------
\* Handle takes a new request to the rule's channel.
LEMMA HandleStep ==
    ASSUME IInv, NEW r \in Requests, NEW ch \in Channels, Handle(r, ch)
    PROVE  IInv'
  <1>1. /\ Moves(r) /\ visited[r] = {} /\ visited' = visited /\ channel'[r] = ch
        /\ \A q \in Requests \ {r} : channel'[q] = channel[q]
        /\ GoTo(r, "resolving") /\ stage[r] = "new"
    BY DEF Handle, Moves, Stages, IInv, TypeOK, Good
  <1>2. stage'[r] = "resolving" /\ late' = late /\ r \notin late
    BY <1>1 DEF GoTo, IInv, TypeOK, Good
  <1>3. Good(r)'
    BY <1>1, <1>2 DEF Good, AtTty, PassedOnly
  <1>4. TypeOK'
    <2>1. /\ stage' \in [Requests -> Stages] /\ late' \in SUBSET Requests
          /\ result' \in [Requests -> Results \cup {Nil}]
          /\ channel' \in [Requests -> Channels \cup {Nil}]
      BY <1>1, MoveTypes DEF Handle, IInv, TypeOK, Stages
    <2>2. \A q \in Requests : stage'[q] \notin {"new", "resolving", "done"} =>
                                 channel'[q] \in DOMAIN Registry
      <3> SUFFICES ASSUME NEW q \in Requests, stage'[q] \notin {"new", "resolving", "done"}
                   PROVE  channel'[q] \in DOMAIN Registry
        OBVIOUS
      <3>1. q # r BY <1>2
      <3> QED BY <1>1, <3>1, OthersUntouched DEF IInv, TypeOK
    <2> QED BY <2>1, <2>2 DEF Handle, IInv, TypeOK, reviewers, terminal
  <1> QED BY <1>1, <1>3, <1>4, OneMoved

\* The registry goes to the channel's handler, to the fallback of a terminal
\* it cannot open, or ends the request.
LEMMA ResolveStep ==
    ASSUME IInv, NEW r \in Requests, Resolve(r)
    PROVE  IInv'
  <1>1. /\ stage[r] = "resolving" /\ r \notin late /\ channel[r] \in Channels
        /\ visited'[r] = visited[r] \cup {channel[r]}
        /\ visited' \in [Requests -> SUBSET Channels]
        /\ \A q \in Requests \ {r} : visited'[q] = visited[q]
        /\ UNCHANGED <<expired, reviewers, tty>>
    BY DEF Resolve, IInv, TypeOK, Good
  \* What the cases below have to show.
  <1> DEFINE Ends(how) == Return(r, how) /\ UNCHANGED <<channel, exposed>>
             Goes(next) == GoTo(r, next) /\ channel' = channel /\ channel[r] \in DOMAIN Registry
             FallsTo(ch) == /\ channel' = [channel EXCEPT ![r] = ch]
                            /\ channel[r] \in DOMAIN Registry /\ KindOf(r) = "terminal"
                            /\ channel[r] \notin visited[r]
                            /\ UNCHANGED <<stage, result, late, exposed>>
  <1>2. \/ Ends("error")
        \/ Goes("prompting") /\ KindOf(r) = "terminal" /\ exposed' \in SUBSET Requests
        \/ Goes("posting") /\ exposed' = exposed
        \/ FallsTo(Registry[channel[r]].fallback) /\ Registry[channel[r]].fallback # Nil
    BY DEF Resolve, OpensTty, FallsBack, KindOf, IInv, TypeOK
  <1>3. CASE Ends("error")
    <2>1. Moves(r) /\ Good(r)' BY <1>1, <1>3, Returned DEF Results, Moves
    <2>2. TypeOK'
      <3>1. /\ stage' \in [Requests -> Stages] /\ late' \in SUBSET Requests
            /\ result' \in [Requests -> Results \cup {Nil}]
        BY <1>3, MoveTypes DEF IInv, Results
      <3>2. stage'[r] = "done" BY <1>3 DEF Return, IInv, TypeOK
      <3>3. \A q \in Requests : stage'[q] \notin {"new", "resolving", "done"} =>
                                   channel'[q] \in DOMAIN Registry
        BY <1>3, <2>1, <3>2, OthersUntouched DEF IInv, TypeOK
      <3> QED BY <1>1, <1>3, <3>1, <3>3 DEF IInv, TypeOK, reviewers
    <2> QED BY <1>1, <1>3, <2>1, <2>2, OneMoved
  <1>4. ASSUME NEW next \in {"prompting", "posting"}, Goes(next), exposed' \in SUBSET Requests,
               next = "prompting" => KindOf(r) = "terminal"
        PROVE  IInv'
    <2>1. /\ next \in Stages \ {"new", "resolving"} /\ stage'[r] = next
          /\ AtTty(r)' => KindOf(r) = "terminal"
      BY <1>4 DEF Stages, GoTo, AtTty, IInv, TypeOK
    <2>2. Moves(r) /\ Good(r)' BY <1>1, <1>4, <2>1, GoneOn DEF Moves
    <2>3. TypeOK'
      <3>1. /\ stage' \in [Requests -> Stages] /\ late' \in SUBSET Requests
            /\ result' \in [Requests -> Results \cup {Nil}]
        BY <1>4, <2>1, MoveTypes DEF IInv
      <3>2. \A q \in Requests : stage'[q] \notin {"new", "resolving", "done"} =>
                                   channel'[q] \in DOMAIN Registry
        BY <1>4, <2>2, OthersUntouched DEF IInv, TypeOK
      <3> QED BY <1>1, <1>4, <3>1, <3>2 DEF IInv, TypeOK, reviewers
    <2> QED BY <1>1, <1>4, <2>2, <2>3, OneMoved
  <1>5. CASE FallsTo(Registry[channel[r]].fallback) /\ Registry[channel[r]].fallback # Nil
    <2> DEFINE ch == Registry[channel[r]].fallback
    <2>1. ch \in Channels
      BY <1>5, ApprovalAssumption DEF Channel
    <2>2. /\ channel'[r] = ch /\ \A q \in Requests \ {r} : channel'[q] = channel[q]
          /\ channel' \in [Requests -> Channels \cup {Nil}]
      BY <1>5, <2>1 DEF IInv, TypeOK
    <2> HIDE DEF ch
    <2>3. PassedOnly(r)'
      <3> SUFFICES ASSUME NEW c \in visited'[r] \ {ch}
                   PROVE  /\ c \in DOMAIN Registry /\ Registry[c].kind = "terminal"
                          /\ Registry[c].fallback \in visited'[r] \cup {ch}
        BY <2>2 DEF PassedOnly
      <3>1. CASE c = channel[r] BY <1>5, <3>1 DEF KindOf, ch
      <3>2. CASE c # channel[r] BY <1>1, <3>2 DEF IInv, Good, PassedOnly
      <3> QED BY <3>1, <3>2
    <2>4. stage'[r] = "resolving" /\ r \notin late'
      BY <1>1, <1>5
    <2>5. Moves(r) /\ Good(r)'
      BY <1>5, <2>1, <2>2, <2>3, <2>4 DEF Moves, Good, AtTty
    <2>6. TypeOK'
      <3>1. \A q \in Requests : stage'[q] \notin {"new", "resolving", "done"} =>
                                   channel'[q] \in DOMAIN Registry
        BY <1>5, <2>2, <2>4 DEF IInv, TypeOK
      <3> QED BY <1>1, <1>5, <2>2, <3>1 DEF IInv, TypeOK, reviewers
    <2> QED BY <1>1, <2>2, <2>5, <2>6, OneMoved
  <1> QED BY <1>2, <1>3, <1>4, <1>5 DEF IInv, TypeOK

\* The steps of the terminal's handler.
LEMMA TerminalStep ==
    ASSUME IInv, NEW r \in Requests, Terminal(r)
    PROVE  IInv'
  <1>1. /\ stage[r] \in {"prompting", "reading"} /\ AtTty(r) /\ KindOf(r) = "terminal"
        /\ UNCHANGED <<channel, visited, expired, reviewers, exposed>>
    BY DEF Terminal, Prompt, ReadLine, AtTty, IInv, Good, terminal
  <1>2. tty' \in Seq(Lines) /\ Len(tty') <= MaxLines
    <2>1. CASE Prompt(r) BY <2>1 DEF Prompt, terminal, IInv, TypeOK
    <2>2. CASE ReadLine(r)
      <3>1. tty \in Seq(Lines) /\ tty # <<>> /\ tty' = Tail(tty) /\ Len(tty) <= MaxLines
        BY <2>2 DEF ReadLine, IInv, TypeOK
      <3>2. tty' \in Seq(Lines) /\ Len(tty') = Len(tty) - 1 /\ Len(tty) \in Nat
        BY <3>1, HeadTailProperties
      <3> QED BY <3>1, <3>2, ApprovalAssumption
    <2> QED BY <2>1, <2>2 DEF Terminal
  <1>3. \/ \E next \in {"prompting", "reading"} : GoTo(r, next)
        \/ \E how \in {"approved", "rejected", "timeout"} : Return(r, how)
    <2>1. CASE Prompt(r) BY <2>1 DEF Prompt
    <2>2. CASE ReadLine(r)
      <3>1. Head(tty) \in Lines
        BY <2>2, HeadTailProperties DEF ReadLine, IInv, TypeOK
      <3>2. Head(tty).says \in Verdicts \cup {"view", "eof"}
        BY <3>1 DEF Lines
      <3> QED BY <2>2, <3>2 DEF ReadLine, Verdict, Verdicts
    <2> QED BY <2>1, <2>2 DEF Terminal
  <1>4. Moves(r) BY <1>3 DEF Moves, Stages, Results
  <1>5. Good(r)'
    <2>1. ASSUME NEW next \in {"prompting", "reading"}, GoTo(r, next) PROVE Good(r)'
      BY <1>1, <2>1, GoneOn DEF Stages
    <2>2. ASSUME NEW how \in {"approved", "rejected", "timeout"}, Return(r, how) PROVE Good(r)'
      BY <1>1, <2>2, Returned DEF Results
    <2> QED BY <1>3, <2>1, <2>2
  <1>6. TypeOK' BY <1>1, <1>2, <1>4, HandlerTypes DEF IInv
  <1> QED BY <1>1, <1>4, <1>5, <1>6, OneMoved

\* The steps of a service's handler: it approves only before the context is
\* done.
LEMMA ServiceStep ==
    ASSUME IInv, NEW r \in Requests, Service(r)
    PROVE  IInv'
  <1>1. /\ stage[r] \in {"posting", "polling", "fetching"}
        /\ UNCHANGED <<channel, visited, expired, reviewers, tty, exposed>>
    BY DEF Service, PostReturns, PostFails, Poll, FetchReturns, FetchFails, GiveUp, terminal
  <1>2. \/ \E next \in {"polling", "fetching"} : GoTo(r, next)
        \/ \E how \in Results : Return(r, how) /\ (how = "approved" => r \notin expired)
    BY DEF Service, PostReturns, PostFails, Poll, FetchReturns, FetchFails, GiveUp, Verdict,
           Results
  <1>3. Moves(r) BY <1>2 DEF Moves, Stages
  <1>4. Good(r)'
    <2>1. ASSUME NEW next \in {"polling", "fetching"}, GoTo(r, next) PROVE Good(r)'
      <3>1. ~ AtTty(r)' BY <2>1 DEF GoTo, AtTty, IInv, TypeOK
      <3> QED BY <1>1, <2>1, <3>1, GoneOn DEF Stages
    <2>2. ASSUME NEW how \in Results, Return(r, how), how = "approved" => r \notin expired
          PROVE  Good(r)'
      BY <1>1, <2>2, Returned
    <2> QED BY <1>2, <2>1, <2>2
  <1>5. TypeOK' BY <1>1, <1>3, HandlerTypes DEF IInv, TypeOK
  <1> QED BY <1>1, <1>3, <1>4, <1>5, OneMoved

\* The people, the service's mailbox and the deadline change no request's
\* handling.
LEMMA WorldStep ==
    ASSUME IInv, NEW r \in Requests,
           \/ PostArrives(r) \/ Expire(r)
           \/ \E says \in Verdicts \cup {"view", "eof"} : Type(r, says)
           \/ \E v \in Verdicts : Review(r, v)
    PROVE  IInv'
  <1>1. UNCHANGED <<stage, channel, visited, late, result, exposed>>
    BY DEF PostArrives, Expire, Type, Review, terminal
  <1>2. \A q \in Requests : Good(q)'
    BY <1>1, GoodFrame DEF IInv
  <1>3. TypeOK'
    <2>1. CASE PostArrives(r) BY <1>1, <2>1 DEF PostArrives, terminal, IInv, TypeOK
    <2>2. CASE Expire(r) BY <1>1, <2>2 DEF Expire, reviewers, terminal, IInv, TypeOK
    <2>3. ASSUME NEW says \in Verdicts \cup {"view", "eof"}, Type(r, says) PROVE TypeOK'
      <3> DEFINE line == [to |-> r, says |-> says]
      <3>1. line \in Lines /\ tty \in Seq(Lines) /\ tty' = Append(tty, line)
            /\ Len(tty) < MaxLines
        BY <2>3 DEF Lines, Type, IInv, TypeOK
      <3> HIDE DEF line
      <3>2. tty' \in Seq(Lines) /\ Len(tty') <= MaxLines
        BY <3>1, AppendProperties, ApprovalAssumption
      <3> QED BY <1>1, <2>3, <3>2 DEF Type, Consents, IInv, TypeOK
    <2>4. ASSUME NEW v \in Verdicts, Review(r, v) PROVE TypeOK'
      BY <1>1, <2>4 DEF Review, Consents, terminal, IInv, TypeOK
    <2> QED BY <2>1, <2>2, <2>3, <2>4
  <1> QED BY <1>2, <1>3 DEF IInv

-----------------------------------------------------------------------------
\* Every request is good, for any number of them, any registry and any lines.
THEOREM ApprovalInvariant == Spec => []IInv
  <1>1. Init => IInv
    <2> SUFFICES ASSUME Init PROVE IInv
      OBVIOUS
    <2>1. <<>> \in Seq(Lines) /\ Len(<<>>) = 0
      OBVIOUS
    <2>2. TypeOK BY <2>1, ApprovalAssumption DEF Init, TypeOK, Stages
    <2>3. \A r \in Requests : Good(r) BY DEF Init, Good, AtTty, PassedOnly
    <2> QED BY <2>2, <2>3 DEF IInv
  <1>2. IInv /\ [Next]_vars => IInv'
    <2> SUFFICES ASSUME IInv, [Next]_vars PROVE IInv'
      OBVIOUS
    <2>1. CASE UNCHANGED vars
      <3>1. \A r \in Requests : Good(r)'
        BY <2>1, GoodFrame DEF vars, IInv
      <3>2. TypeOK' BY <2>1 DEF vars, reviewers, terminal, IInv, TypeOK
      <3> QED BY <3>1, <3>2 DEF IInv
    <2> QED BY <2>1, HandleStep, ResolveStep, TerminalStep, ServiceStep, WorldStep
            DEF Next, Step, Idle
  <1> QED BY <1>1, <1>2, PTL DEF Spec

\* The types of Approval: what waits on a channel waits on a defined one.
THEOREM ApprovalTyping == Spec => []TypeOK
  BY ApprovalInvariant, PTL DEF IInv

\* No service approves a request whose context is done.
THEOREM NothingApprovedLate == Spec => []NoLateVerdict
  <1>1. IInv => NoLateVerdict BY DEF IInv, Good, NoLateVerdict
  <1> QED BY ApprovalInvariant, <1>1, PTL

\* Only terminals are passed over, each for its own fallback.
THEOREM TerminalsAlonePass == Spec => []OnlyTerminalsArePassed
  <1>1. IInv => OnlyTerminalsArePassed
    BY DEF IInv, Good, PassedOnly, OnlyTerminalsArePassed
  <1> QED BY ApprovalInvariant, <1>1, PTL

-----------------------------------------------------------------------------
\* Why an approval is its reviewer's: a yes that a service holds, or that was
\* typed, is a consent, and a request that shared the terminal with none and
\* found no line left on it has it to itself, with the lines on it.
OwnsTty(r) == /\ \A i \in DOMAIN tty : tty[i].to = r
              /\ \A q \in Requests : AtTty(q) => q = r
Asked ==
    /\ \A r \in Requests : verdict[r] = "approve" => r \in consent
    /\ \A i \in DOMAIN tty : tty[i].says = "approve" => tty[i].to \in consent
    /\ \A r \in Requests : AtTty(r) /\ r \notin exposed => OwnsTty(r)
    /\ ApprovedByItsReviewer

\* Steps that type, read and decide nothing, and open no terminal.
LEMMA AskedFrame ==
    ASSUME Asked, UNCHANGED <<tty, verdict, consent, exposed>>,
           \A q \in Requests : AtTty(q)' => AtTty(q),
           \A q \in Requests : Approved(q)' => Approved(q) \/ q \in consent
    PROVE  Asked'
  BY DEF Asked, OwnsTty, ApprovedByItsReviewer

\* What the move of one request does to approvals and to the terminal.
LEMMA MovedOne ==
    ASSUME TypeOK, NEW r \in Requests
    PROVE  /\ \A next \in Stages : GoTo(r, next) =>
                 /\ \A q \in Requests : Approved(q)' => Approved(q)
                 /\ \A q \in Requests : AtTty(q)' =>
                       AtTty(q) \/ (q = r /\ next \in {"prompting", "reading"})
           /\ \A how \in Results : Return(r, how) =>
                 /\ \A q \in Requests : Approved(q)' => Approved(q) \/ (q = r /\ how = "approved")
                 /\ \A q \in Requests : AtTty(q)' => AtTty(q)
  BY DEF TypeOK, GoTo, Return, Approved, AtTty, Stages

\* A terminal is opened alone on it and with nothing to read, or marks those
\* it meets there.
LEMMA AskedOpens ==
    ASSUME TypeOK, Asked, NEW r \in Requests, OpensTty(r), stage[r] = "resolving",
           UNCHANGED <<tty, verdict, consent>>
    PROVE  Asked'
  <1>1. /\ \A q \in Requests : Approved(q)' => Approved(q)
        /\ \A q \in Requests : AtTty(q)' => AtTty(q) \/ q = r
    BY MovedOne DEF OpensTty, Stages
  <1>2. exposed \subseteq exposed'
    BY DEF OpensTty
  <1>3. ASSUME NEW p \in Requests, AtTty(p)', p \notin exposed' PROVE OwnsTty(p)'
    <2>1. CASE p = r
      <3>1. (\A q \in Requests \ {r} : ~ AtTty(q)) /\ tty = <<>>
        BY <1>3, <2>1 DEF OpensTty
      <3> QED BY <1>1, <2>1, <3>1 DEF OwnsTty
    <2>2. CASE p # r
      <3>1. AtTty(p) /\ p \in {q \in Requests \ {r} : AtTty(q)}
        BY <1>1, <1>3, <2>2
      <3>2. p \in exposed'
        BY <3>1 DEF OpensTty
      <3> QED BY <1>3, <3>2
    <2> QED BY <2>1, <2>2
  <1> QED BY <1>1, <1>2, <1>3 DEF Asked, ApprovedByItsReviewer

\* A line is read by a request that has the terminal to itself, so that it is
\* its own, or by one that is exposed.
LEMMA AskedReads ==
    ASSUME IInv, Asked, NEW r \in Requests, ReadLine(r)
    PROVE  Asked'
  <1> DEFINE line == Head(tty)
  <1>1. /\ tty \in Seq(Lines) /\ tty # <<>> /\ tty' = Tail(tty) /\ stage[r] = "reading"
        /\ UNCHANGED <<verdict, consent, exposed>>
    BY DEF ReadLine, IInv, TypeOK, reviewers
  <1>2. /\ line \in Lines /\ 1 \in DOMAIN tty /\ line = tty[1]
        /\ \A i \in DOMAIN tty' : i + 1 \in DOMAIN tty /\ tty'[i] = tty[i + 1]
    BY <1>1, HeadTailProperties
  <1>3. line.says \in Verdicts \cup {"view", "eof"}
    BY <1>2 DEF Lines
  <1> HIDE DEF line
  <1>4. \/ \E next \in {"prompting"} : GoTo(r, next)
        \/ \E how \in Results : Return(r, how) /\ (how = "approved" => line.says = "approve")
    BY <1>3 DEF ReadLine, Verdict, Verdicts, Results, line
  <1>5. AtTty(r) BY <1>1 DEF AtTty
  <1>6. \A q \in Requests : AtTty(q)' => AtTty(q)
    BY <1>4, <1>5, MovedOne DEF IInv, Stages
  <1>7. line.says = "approve" => r \in consent \cup exposed
    BY <1>2, <1>5 DEF Asked, OwnsTty
  <1>8. \A q \in Requests : Approved(q)' => Approved(q) \/ q \in consent \cup exposed
    BY <1>4, <1>7, MovedOne DEF IInv, Stages
  <1>9. ASSUME NEW p \in Requests, AtTty(p)', p \notin exposed PROVE OwnsTty(p)'
    BY <1>2, <1>6, <1>9 DEF Asked, OwnsTty
  <1>10. \A i \in DOMAIN tty' : tty'[i].says = "approve" => tty'[i].to \in consent
    BY <1>2 DEF Asked
  <1> QED BY <1>1, <1>8, <1>9, <1>10 DEF Asked, ApprovedByItsReviewer

\* Every other step of a request's handling.
LEMMA AskedMoves ==
    ASSUME IInv, Asked, NEW r \in Requests, Step(r)
    PROVE  Asked'
  <1>1. CASE Resolve(r)
    <2>1. stage[r] = "resolving" /\ UNCHANGED <<tty, verdict, consent>>
      BY <1>1 DEF Resolve, reviewers
    <2>2. \/ OpensTty(r)
          \/ exposed' = exposed /\ \/ Return(r, "error") \/ GoTo(r, "posting")
                                   \/ UNCHANGED <<stage, result>>
      BY <1>1 DEF Resolve, FallsBack
    <2>3. CASE UNCHANGED <<stage, result, exposed>>
      BY <2>1, <2>3, AskedFrame DEF AtTty, Approved
    <2>4. CASE exposed' = exposed /\ Return(r, "error")
      BY <2>1, <2>4, AskedFrame, MovedOne DEF IInv, Results
    <2>5. CASE exposed' = exposed /\ GoTo(r, "posting")
      BY <2>1, <2>5, AskedFrame, MovedOne DEF IInv, Stages
    <2> QED BY <2>1, <2>2, <2>3, <2>4, <2>5, AskedOpens DEF IInv
  <1>2. CASE Prompt(r)
    <2>1. AtTty(r) /\ UNCHANGED <<tty, verdict, consent, exposed>>
      BY <1>2 DEF Prompt, AtTty, reviewers, terminal
    <2>2. GoTo(r, "reading") \/ Return(r, "timeout")
      BY <1>2 DEF Prompt
    <2> QED BY <2>1, <2>2, AskedFrame, MovedOne DEF IInv, Stages, Results
  <1>3. CASE Service(r)
    <2>1. UNCHANGED <<tty, verdict, consent, exposed>>
      BY <1>3 DEF Service, PostReturns, PostFails, Poll, FetchReturns, FetchFails, GiveUp,
                  reviewers, terminal
    <2>2. \/ \E next \in {"polling", "fetching"} : GoTo(r, next)
          \/ \E how \in Results : /\ Return(r, how)
                                  /\ how = "approved" => verdict[r] = "approve"
      BY <1>3 DEF Service, PostReturns, PostFails, Poll, FetchReturns, FetchFails, GiveUp,
                  Verdict, Results
    <2>3. \A q \in Requests : AtTty(q)' => AtTty(q)
      BY <2>2, MovedOne DEF IInv, Stages
    <2>4. \A q \in Requests : Approved(q)' => Approved(q) \/ q \in consent
      BY <2>2, MovedOne DEF IInv, Stages, Asked
    <2> QED BY <2>1, <2>3, <2>4, AskedFrame
  <1> QED BY <1>1, <1>2, <1>3, AskedReads DEF Step, Terminal

\* The people's answers.
LEMMA AskedAnswers ==
    ASSUME IInv, Asked, NEW r \in Requests,
           \/ \E says \in Verdicts \cup {"view", "eof"} : Type(r, says)
           \/ \E v \in Verdicts : Review(r, v)
    PROVE  Asked'
  <1>1. UNCHANGED <<stage, result, exposed>> /\ consent \subseteq consent'
    BY DEF Type, Review, Consents, terminal
  <1>2. \A q \in Requests : (AtTty(q)' <=> AtTty(q)) /\ (Approved(q)' <=> Approved(q))
    BY <1>1 DEF AtTty, Approved
  <1>3. ASSUME NEW says \in Verdicts \cup {"view", "eof"}, Type(r, says) PROVE Asked'
    <2> DEFINE line == [to |-> r, says |-> says]
    <2>1. /\ line \in Lines /\ tty \in Seq(Lines) /\ tty' = Append(tty, line) /\ AtTty(r)
          /\ verdict' = verdict /\ (says = "approve" => r \in consent')
          /\ line.to = r /\ line.says = says
      BY <1>3 DEF Type, Consents, Lines, IInv, TypeOK
    <2> HIDE DEF line
    <2>2. \A i \in DOMAIN tty' : (i \in DOMAIN tty /\ tty'[i] = tty[i]) \/ tty'[i] = line
      BY <2>1, AppendProperties
    <2>3. \A i \in DOMAIN tty' : tty'[i].says = "approve" => tty'[i].to \in consent'
      BY <1>1, <2>1, <2>2 DEF Asked
    <2>4. ASSUME NEW p \in Requests, AtTty(p)', p \notin exposed' PROVE OwnsTty(p)'
      <3>1. AtTty(p) /\ OwnsTty(p) /\ r = p
        BY <1>1, <1>2, <2>1, <2>4 DEF Asked, OwnsTty
      <3> QED BY <1>2, <2>1, <2>2, <3>1 DEF OwnsTty
    <2> QED BY <1>1, <1>2, <2>1, <2>3, <2>4 DEF Asked, ApprovedByItsReviewer
  <1>4. ASSUME NEW v \in Verdicts, Review(r, v) PROVE Asked'
    <2>1. /\ tty' = tty /\ verdict' = [verdict EXCEPT ![r] = v]
          /\ v = "approve" => r \in consent'
      BY <1>4 DEF Review, Consents, terminal
    <2>2. \A q \in Requests : verdict'[q] = "approve" => q \in consent'
      BY <1>1, <2>1 DEF IInv, TypeOK, Asked
    <2>3. \A q \in Requests : OwnsTty(q)' <=> OwnsTty(q)
      BY <1>2, <2>1 DEF OwnsTty
    <2> QED BY <1>1, <1>2, <2>1, <2>2, <2>3 DEF Asked, ApprovedByItsReviewer
  <1> QED BY <1>3, <1>4

\* A request is approved by its own reviewer, unless it shared the terminal
\* or found a line on it.
THEOREM ApprovalIsItsReviewers == Spec => []ApprovedByItsReviewer
  <1>1. Init => Asked
    <2> SUFFICES ASSUME Init PROVE Asked
      OBVIOUS
    <2>1. \A r \in Requests : verdict[r] # "approve" /\ ~AtTty(r) /\ ~Approved(r)
      BY ApprovalAssumption DEF Init, AtTty, Approved
    <2>2. DOMAIN tty = {}
      BY DEF Init
    <2> QED BY <2>1, <2>2 DEF Asked, ApprovedByItsReviewer
  <1>2. IInv /\ Asked /\ [Next]_vars => Asked'
    <2> SUFFICES ASSUME IInv, Asked, [Next]_vars PROVE Asked'
      OBVIOUS
    <2>1. ASSUME NEW r \in Requests, NEW ch \in Channels, Handle(r, ch) PROVE Asked'
      <3>1. UNCHANGED <<tty, verdict, consent, exposed>> /\ GoTo(r, "resolving")
        BY <2>1 DEF Handle, reviewers, terminal
      <3> QED BY <3>1, AskedFrame, MovedOne DEF IInv, Stages
    <2>2. ASSUME NEW r \in Requests, PostArrives(r) \/ Expire(r) PROVE Asked'
      BY <2>2, AskedFrame DEF PostArrives, Expire, reviewers, terminal, AtTty, Approved
    <2>3. CASE UNCHANGED vars
      BY <2>3, AskedFrame DEF vars, reviewers, terminal, AtTty, Approved
    <2> QED BY <2>1, <2>2, <2>3, AskedMoves, AskedAnswers DEF Next, Idle
  <1>3. Asked => ApprovedByItsReviewer BY DEF Asked
  <1> QED BY ApprovalInvariant, <1>1, <1>2, <1>3, PTL DEF Spec
=============================================================================
