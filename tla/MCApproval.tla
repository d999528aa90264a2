----------------------------- MODULE MCApproval -----------------------------
(***************************************************************************)
(* Small instances of Approval: registries with chains of fallbacks, one   *)
(* of them circular, every kind of channel and a name that is undefined.   *)
(***************************************************************************)
EXTENDS Approval

MCChannels == {"terminal", "console", "desk", "hook", "slack", "undefined"}

TerminalTo(next) == [kind |-> "terminal", fallback |-> next, answers |-> "typed"]
Service1(kind, answers, next) == [kind |-> kind, fallback |-> next, answers |-> answers]

\* terminal -> console -> terminal is circular; desk falls back to hook, which
\* names a fallback that its errors never use.
MCRegistry ==
    [ch \in MCChannels \ {"undefined"} |->
        CASE ch = "terminal" -> TerminalTo("console")
          [] ch = "console"  -> TerminalTo("terminal")
          [] ch = "desk"     -> TerminalTo("hook")
          [] ch = "hook"     -> Service1("webhook", "poll", "slack")
          [] ch = "slack"    -> Service1("slack", "none", Nil)]
=============================================================================
