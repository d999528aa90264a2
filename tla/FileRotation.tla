---------------------------- MODULE FileRotation ----------------------------
(***************************************************************************)
(* FileEmitter of internal/audit over its files: path and the rotated      *)
(* path.1 (the newest) to path.N.  A full file is rotated by renames whose *)
(* errors are ignored, and the process may stop between any two of them    *)
(* and start again, with another max_files.  Records are numbered in the   *)
(* order in which they come, and a file is the set of those it holds.      *)
(***************************************************************************)
EXTENDS Integers, FiniteSets

CONSTANTS
    Limits,     \* the values max_files may take
    MaxFiles,   \* the largest of them
    Size,       \* records that fill a file (max_size_mb of them, in the code)
    MaxRecords, \* bound on the records
    MaxStarts,  \* bound on the restarts
    Faulty      \* whether a rename, an open or a write may fail

ASSUME RotationAssumption ==
    /\ MaxFiles \in Nat \ {0} /\ Limits \subseteq 1 .. MaxFiles
    /\ Size \in Nat \ {0} /\ MaxRecords \in Nat /\ MaxStarts \in Nat
    /\ Faulty \in BOOLEAN

Files == 0 .. MaxFiles + 1      \* 0 is path, k is path.k

VARIABLES
    names,      \* the files there are
    file,       \* what each of them holds
    limit,      \* FileEmitter.maxFiles
    handle,     \* FileEmitter.f: "open" on path, or "nil"
    stage,      \* where Emit is, or "down"
    at,         \* the rename rotate has come to
    count,      \* the records there have been
    wrote,      \* history: those that were written
    starts,     \* history: restarts
    cut,        \* history: the restarts after a stop inside rotate
    clean,      \* history: nothing has failed
    first,      \* history: max_files at the first start
    lowered     \* history: a restart lowered max_files

shape  == <<names, file>>
past   == <<starts, cut, clean, first, lowered>>
vars   == <<shape, limit, handle, stage, at, count, wrote, past>>

Init ==
    /\ names = {0} /\ file = [k \in Files |-> {}]
    /\ limit \in Limits /\ first = limit /\ handle = "open" /\ stage = "ready" /\ at = 0
    /\ count = 0 /\ wrote = {}
    /\ starts = 0 /\ cut = 0 /\ clean = TRUE /\ lowered = FALSE

-----------------------------------------------------------------------------
\* Writing a record: it goes to path, or to nothing.
Put(r) == /\ file' = [file EXCEPT ![0] = @ \cup {r}] /\ wrote' = wrote \cup {r}
          /\ UNCHANGED clean
Drop   == clean' = FALSE /\ UNCHANGED <<file, wrote>>
Write(r) == IF handle = "open" THEN Put(r) \/ (Faulty /\ Drop) ELSE Drop

\* Emit, up to the rotation; on a nil file Stat fails and so does the write,
\* and the pipeline ignores the error.
Emit ==
    /\ stage = "ready" /\ count < MaxRecords /\ count' = count + 1
    /\ IF handle = "open" /\ Cardinality(file[0]) >= Size
       THEN /\ stage' = "shifting" /\ at' = limit - 1
            /\ UNCHANGED <<file, wrote, clean>>
       ELSE Write(count') /\ UNCHANGED <<stage, at>>
    /\ UNCHANGED <<names, limit, handle, starts, cut, first, lowered>>

\* rotate: path.(limit-1) to path.limit, and so on down to path to path.1.
\* A rename replaces the file of that name; renaming what is not there fails
\* and changes nothing.
Rename(from, to) ==
    IF from \in names
    THEN \/ /\ names' = (names \ {from}) \cup {to}
            /\ file' = [file EXCEPT ![to] = file[from], ![from] = {}]
            /\ UNCHANGED clean
         \/ Faulty /\ clean' = FALSE /\ UNCHANGED shape
    ELSE UNCHANGED <<shape, clean>>
Shift ==
    /\ stage = "shifting"
    /\ Rename(at, at + 1)
    /\ IF at = 0 THEN stage' = "removing" /\ UNCHANGED at ELSE at' = at - 1 /\ UNCHANGED stage
    /\ UNCHANGED <<limit, handle, count, wrote, starts, cut, first, lowered>>

\* What is left over from a larger limit; its error is ignored, too.
RemoveOverflowEarly_ ==                    \* an off-by-one: the last to be kept
    /\ stage = "removing" /\ stage' = "opening"
    /\ names' = names \ {limit} /\ file' = [file EXCEPT ![limit] = {}]
    /\ UNCHANGED <<limit, handle, at, count, wrote, past>>
RemoveOverflow ==
    /\ stage = "removing" /\ stage' = "opening"
    /\ names' = names \ {limit + 1} /\ file' = [file EXCEPT ![limit + 1] = {}]
    /\ UNCHANGED <<limit, handle, at, count, wrote, past>>

ReopenBare_ ==                             \* without O_CREATE
    /\ stage = "opening" /\ stage' = "writing"
    /\ UNCHANGED <<names, file, limit, handle, at, count, wrote, past>>
Reopen ==
    /\ stage = "opening" /\ stage' = "writing"
    /\ \/ names' = names \cup {0} /\ UNCHANGED <<handle, clean>>
       \/ Faulty /\ handle' = "nil" /\ clean' = FALSE /\ UNCHANGED names
    /\ UNCHANGED <<file, limit, at, count, wrote, starts, cut, first, lowered>>

WriteOn ==
    /\ stage = "writing" /\ stage' = "ready"
    /\ Write(count)
    /\ UNCHANGED <<names, limit, handle, at, count, starts, cut, first, lowered>>

\* The process ends, by Close or in the middle; NewFileEmitter at its next
\* start appends to what path holds.
Stop ==
    /\ stage # "down" /\ stage' = "down"
    /\ cut' = IF stage = "ready" THEN cut ELSE cut + 1
    /\ UNCHANGED <<shape, limit, handle, at, count, wrote, starts, clean, first, lowered>>
NewFileTruncates_ ==                       \* O_TRUNC for O_APPEND
    /\ stage = "down" /\ starts < MaxStarts /\ starts' = starts + 1
    /\ limit' \in Limits /\ lowered' = (lowered \/ limit' < limit)
    /\ names' = names \cup {0} /\ file' = [file EXCEPT ![0] = {}]
    /\ handle' = "open" /\ stage' = "ready" /\ at' = 0
    /\ UNCHANGED <<count, wrote, cut, clean, first>>
NewFileEmitter ==
    /\ stage = "down" /\ starts < MaxStarts /\ starts' = starts + 1
    /\ limit' \in Limits /\ lowered' = (lowered \/ limit' < limit)
    /\ names' = names \cup {0} /\ handle' = "open" /\ stage' = "ready" /\ at' = 0
    /\ UNCHANGED <<file, count, wrote, cut, clean, first>>

Next == Emit \/ Shift \/ RemoveOverflow \/ Reopen \/ WriteOn \/ Stop \/ NewFileEmitter
Spec == Init /\ [][Next]_vars

-----------------------------------------------------------------------------
TypeOK ==
    /\ names \subseteq Files /\ file \in [Files -> SUBSET (1 .. count)]
    /\ \A k \in Files \ names : file[k] = {}
    /\ limit \in Limits /\ handle \in {"open", "nil"}
    /\ stage \in {"ready", "shifting", "removing", "opening", "writing", "down"}
    /\ stage \in {"ready", "writing"} /\ handle = "open" => 0 \in names
    /\ at \in 0 .. MaxFiles - 1 /\ (stage = "shifting" => at < limit)
    /\ count \in Nat /\ wrote \subseteq 1 .. count
    /\ starts \in Nat /\ cut \in Nat /\ clean \in BOOLEAN
    /\ first \in Limits /\ lowered \in BOOLEAN

Kept == UNION {file[k] : k \in names}

\* Read from the last file to the first, the log is in the order of the
\* records, whatever fails.  And while nothing fails and max_files is not
\* lowered, only the oldest records are gone: there is no gap before the
\* newest, wherever the process was stopped and however often (rotate).
OldestFirst ==
    \A a, b \in names : a < b => \A r \in file[a], s \in file[b] : s < r
NoGap ==
    clean /\ ~ lowered => \A r \in wrote \ Kept : \A s \in Kept : r < s
OnlyOldestGoes == OldestFirst /\ NoGap

\* And of the rotated files as many are kept as max_files says, less one at
\* most for every stop inside rotate (docs/audit.md "size-based rotation").
EnoughKept ==
    clean /\ ~ lowered =>
        \/ Kept = wrote
        \/ Cardinality(Kept) >= (first - cut) * Size
=============================================================================
