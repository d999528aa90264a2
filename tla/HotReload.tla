----------------------------- MODULE HotReload ------------------------------
(***************************************************************************)
(* The policy file watcher (internal/policy/watcher.go) and the callback   *)
(* main gives it: an event of the watched file makes the one goroutine of  *)
(* run read the file, validate it and swap the engine's policy.  Guard     *)
(* takes the outcome, Reload, as one step that may come at any time; here  *)
(* is whether and when it comes.                                           *)
(*                                                                         *)
(* The operator saves a document in place, which truncates the file and    *)
(* then fills it, or replaces the file: an editor's rename, or a ConfigMap *)
(* update behind a symbolic link.  The kernel's watch is on the file that  *)
(* had the name when the watch was set, so a replacement removes it.       *)
(***************************************************************************)
EXTENDS Naturals, Sequences

CONSTANTS
    Versions,    \* complete documents the operator saves
    Torn,        \* the content of a file half written
    Loads,       \* the contents that load: valid documents, perhaps Torn
    Replaces,    \* whether the file is ever replaced
    EditsEarly,  \* whether it may change before the watch is set
    AddFails,    \* whether watching the file may fail
    MaxEvents,   \* unread events of the watch: a bound of the model
    Nil

ASSUME ReloadAssumption ==
    /\ Torn \notin Versions /\ Nil \notin Versions \cup {Torn}
    /\ Loads \subseteq Versions \cup {Torn}
    /\ {Replaces, EditsEarly, AddFails} \subseteq BOOLEAN
    /\ MaxEvents \in Nat \ {0}

VARIABLES
    content,  \* what the policy path reads as
    writing,  \* the version being written in place, or Nil
    watch,    \* what the watch is on
    events,   \* WRITE and CREATE events not yet taken by run
    loads,    \* the reloads in progress: documents being read or installed
    eng,      \* the document the engine enforces
    missed    \* history: the content changed unseen since it was last read

file == <<content, writing>>
watcherVars == <<file, watch, events, loads, eng, missed>>

Contents == Versions \cup {Torn}
Watches  == {"none", "file", "directory", "off", "lost"}
Load     == [step : {"read", "install"}, doc : Contents \cup {Nil}]

\* main loads the document before it sets the watch.
WatcherInit ==
    /\ content \in Versions \cap Loads /\ eng = content
    /\ writing = Nil /\ watch = "none" /\ events = 0 /\ loads = <<>> /\ missed = FALSE

\* NewWatcher: the file itself; its directory only if that fails; and no
\* hot reload at all if both do.
NewWatcher ==
    /\ watch = "none"
    /\ watch' \in IF AddFails THEN {"file", "directory", "off"} ELSE {"file"}
    /\ UNCHANGED <<file, events, loads, eng, missed>>

-----------------------------------------------------------------------------
\* The kernel queues an event for a watched file; identical unread events
\* may coalesce.
Notified ==
    /\ \/ events < MaxEvents /\ events' = events + 1
       \/ events > 0 /\ UNCHANGED events
    /\ UNCHANGED missed
Unseen == missed' = TRUE /\ UNCHANGED events
Touch == IF watch \in {"file", "directory"} THEN Notified ELSE Unseen

Truncate(v) ==
    /\ writing = Nil /\ (EditsEarly \/ watch # "none")
    /\ content' = Torn /\ writing' = v
    /\ Touch
    /\ UNCHANGED <<watch, loads, eng>>
Fill ==
    /\ writing # Nil
    /\ content' = writing /\ writing' = Nil
    /\ Touch
    /\ UNCHANGED <<watch, loads, eng>>

\* A watch on the file reports a REMOVE, which run does not look at, and is
\* gone; one on the directory reports a CREATE.
Replace(v) ==
    /\ Replaces /\ writing = Nil /\ (EditsEarly \/ watch # "none")
    /\ content' = v
    /\ watch' = IF watch = "file" THEN "lost" ELSE watch
    /\ IF watch = "directory" THEN Notified ELSE Unseen
    /\ UNCHANGED <<writing, loads, eng>>

\* Another file of a watched directory changes.
OtherFile ==
    /\ watch = "directory" /\ Notified
    /\ UNCHANGED <<file, watch, loads, eng>>

-----------------------------------------------------------------------------
\* run takes the next event when the callback for the last has returned.
TakeEventAsync_ ==                         \* a goroutine for each event
    /\ events > 0 /\ Len(loads) < 2
    /\ events' = events - 1 /\ loads' = Append(loads, [step |-> "read", doc |-> Nil])
    /\ UNCHANGED <<file, watch, eng, missed>>
TakeEvent ==
    /\ events > 0 /\ loads = <<>>
    /\ events' = events - 1
    /\ loads' = Append(loads, [step |-> "read", doc |-> Nil])
    /\ UNCHANGED <<file, watch, eng, missed>>

\* policy.Load reads the file as it now is ...
Read(i) ==
    /\ loads[i].step = "read"
    /\ loads' = [loads EXCEPT ![i] = [step |-> "install", doc |-> content]]
    /\ missed' = FALSE
    /\ UNCHANGED <<file, watch, events, eng>>

\* ... and the callback swaps the engine's policy, unless the document does
\* not load, which is only logged.
Forget(i) == loads' = SubSeq(loads, 1, i - 1) \o SubSeq(loads, i + 1, Len(loads))
InstallAnything_(i) ==                     \* the error of Load is not looked at
    /\ loads[i].step = "install"
    /\ eng' = loads[i].doc
    /\ Forget(i) /\ UNCHANGED <<file, watch, events, missed>>
InstallAndStop_(i) ==                      \* run returns when a load fails
    /\ loads[i].step = "install"
    /\ IF loads[i].doc \in Loads THEN eng' = loads[i].doc /\ Forget(i)
                                 ELSE UNCHANGED <<eng, loads>>
    /\ UNCHANGED <<file, watch, events, missed>>
Install(i) ==
    /\ loads[i].step = "install"
    /\ eng' = IF loads[i].doc \in Loads THEN loads[i].doc ELSE eng
    /\ Forget(i)
    /\ UNCHANGED <<file, watch, events, missed>>

Run == TakeEvent \/ \E i \in DOMAIN loads : Read(i) \/ Install(i)

WatcherNext ==
    \/ NewWatcher \/ Run \/ Fill \/ OtherFile
    \/ \E v \in Versions : Truncate(v) \/ Replace(v)

\* run's goroutine is scheduled; the operator need not save anything, but an
\* editor that has begun to write ends.
WatcherFairness == WF_watcherVars(Run) /\ WF_watcherVars(Fill)
WatcherSpec == WatcherInit /\ [][WatcherNext]_watcherVars /\ WatcherFairness

-----------------------------------------------------------------------------
WatcherTypeOK ==
    /\ content \in Contents /\ writing \in Versions \cup {Nil} /\ watch \in Watches
    /\ events \in 0 .. MaxEvents /\ loads \in Seq(Load) /\ Len(loads) <= 1
    /\ eng \in Loads /\ missed \in BOOLEAN
    /\ writing # Nil => content = Torn

\* Nothing is being saved, read or installed and no event waits.
Quiet == writing = Nil /\ events = 0 /\ loads = <<>>

\* When things have come to rest and no change went unseen, the engine
\* enforces what the file says, if that loads: no interleaving of saving,
\* reading, validating and installing leaves an older document, or half of
\* one, in force (run and the callback of main.go:157-165).
SettledIsCurrent == Quiet /\ ~ missed /\ content \in Loads => eng = content

\* A saved document takes effect while the watch stands, however many
\* documents before it were torn or rejected, unless it is replaced by
\* another or its change is missed.
SavedTakesEffect ==
    \A v \in Versions \cap Loads :
        content = v /\ ~ missed /\ watch \in {"file", "directory"}
            ~> eng = v \/ content # v \/ missed

\* watcher.go:21: "Works with regular files and Kubernetes ConfigMap mounts
\* (symlink-based updates)".
WorksWithConfigMaps == Quiet /\ content \in Loads => eng = content
=============================================================================
