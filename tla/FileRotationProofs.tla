------------------------- MODULE FileRotationProofs -------------------------
(***************************************************************************)
(* For every max_files, every size, every number of records and restarts,  *)
(* and whatever fails: the types, the order of the log, that only its      *)
(* oldest part goes, and that enough of it is kept.                        *)
(***************************************************************************)
EXTENDS FileRotation, FiniteSetTheorems, FunctionTheorems, TLAPS

Rotating == stage \in {"shifting", "removing", "opening", "writing"}

\* A record that waits for a rotation is newer than all that were written,
\* and a file holds only what was written.
Fresh == /\ \A k \in Files : file[k] \subseteq wrote
         /\ Rotating => count >= 1 /\ \A r \in wrote : r < count

\* Nothing beyond max_files, and a rename finds its new name free, unless it
\* is the first of them, which replaces the oldest file.
Tidy ==
    clean /\ ~ lowered =>
        /\ \A k \in names : k <= limit
        /\ stage = "shifting" /\ at < limit - 1 => at + 1 \notin names

IInv == TypeOK /\ Fresh /\ Tidy /\ OldestFirst /\ NoGap

-----------------------------------------------------------------------------
\* A file index and its successor, and the first number to be given out.
LEMMA Indices ==
    /\ 0 \in Files /\ Limits \subseteq Files
    /\ \A l \in Limits : l \in Nat /\ l >= 1 /\ l - 1 \in 0 .. MaxFiles - 1 /\ l + 1 \in Files
    /\ \A i \in 0 .. MaxFiles - 1 : i \in Files /\ i + 1 \in Files /\ i + 1 # i /\ i \in Nat
  BY RotationAssumption DEF Files

\* The initial states.
LEMMA InitIInv == Init => IInv
  <1> SUFFICES ASSUME Init PROVE IInv
    OBVIOUS
  <1>1. TypeOK
    <2>1. names \subseteq Files /\ file \in [Files -> SUBSET (1 .. count)]
          /\ \A k \in Files \ names : file[k] = {}
      BY Indices DEF Init
    <2>2. 0 \in 0 .. MaxFiles - 1
      BY RotationAssumption
    <2>3. clean \in BOOLEAN /\ lowered \in BOOLEAN
      BY DEF Init
    <2> QED
      BY <2>1, <2>2, <2>3 DEF Init, TypeOK
  <1>2. Fresh /\ Tidy
    BY Indices DEF Init, Fresh, Rotating, Tidy
  <1>3. OldestFirst /\ NoGap
    BY Indices DEF Init, OldestFirst, NoGap
  <1> QED
    BY <1>1, <1>2, <1>3 DEF IInv

\* One record more, larger than all that were written, goes to path, which
\* is there; or it goes nowhere, and the run is no longer clean.
LEMMA PutKeeps ==
    ASSUME TypeOK, Fresh, OldestFirst, NoGap, 0 \in names, NEW r \in Nat,
           \A q \in wrote : q < r, Put(r), UNCHANGED <<names, lowered>>
    PROVE  OldestFirst' /\ NoGap' /\ (\A k \in Files : file'[k] \subseteq wrote')
  <1>1. \A k \in Files : file'[k] = IF k = 0 THEN file[0] \cup {r} ELSE file[k]
    BY Indices DEF TypeOK, Put
  <1>2. \A k \in names : k \in Files /\ k \in Nat
    BY RotationAssumption DEF TypeOK, Files
  <1>3. \A k \in Files : \A q \in file[k] : q < r /\ q \in Nat
    BY DEF TypeOK, Fresh
  <1>4. OldestFirst'
    <2> SUFFICES ASSUME NEW a \in names, NEW b \in names, a < b,
                        NEW p \in file'[a], NEW q \in file'[b]
                 PROVE  q < p
      BY DEF OldestFirst
    <2>1. b # 0 /\ q \in file[b]
      BY <1>1, <1>2
    <2>2. CASE p \in file[a]
      BY <2>1, <2>2 DEF OldestFirst
    <2>3. CASE p = r
      BY <2>1, <2>3, <1>2, <1>3
    <2> QED
      BY <1>1, <1>2, <2>2, <2>3
  <1>5. Kept' = Kept \cup {r}
    BY <1>1, <1>2, Indices DEF Kept
  <1>6. NoGap'
    <2> SUFFICES ASSUME clean, ~ lowered, NEW q \in wrote' \ Kept', NEW s \in Kept'
                 PROVE  q < s
      BY DEF NoGap, Put
    <2>1. q \in wrote \ Kept /\ q < r
      BY <1>5 DEF Put
    <2> QED
      BY <2>1, <1>5 DEF NoGap
  <1> QED
    BY <1>1, <1>4, <1>6, Indices DEF Fresh, Put

-----------------------------------------------------------------------------
\* A write, at Emit or after a rotation: of the invariant, what it concerns.
LEMMA WriteKeeps ==
    ASSUME IInv, NEW r \in Nat, \A q \in wrote : q < r, r \in 1 .. count',
           handle = "open" => 0 \in names, count' \in Nat, count' >= count,
           Write(r), UNCHANGED <<names, lowered>>
    PROVE  /\ OldestFirst' /\ NoGap' /\ \A k \in Files : file'[k] \subseteq wrote'
           /\ file' \in [Files -> SUBSET (1 .. count')] /\ wrote' \subseteq 1 .. count'
           /\ (\A k \in Files \ names : file'[k] = {})
           /\ clean' \in BOOLEAN /\ (clean' => clean)
  <1>1. 1 .. count \subseteq 1 .. count'
    BY DEF IInv, TypeOK
  <1>2. CASE Put(r) /\ 0 \in names
    <2>1. OldestFirst' /\ NoGap' /\ \A k \in Files : file'[k] \subseteq wrote'
      BY <1>2, PutKeeps DEF IInv
    <2>2. \A k \in Files : file'[k] = IF k = 0 THEN file[0] \cup {r} ELSE file[k]
      BY <1>2, Indices DEF IInv, TypeOK, Put
    <2>3. file' \in [Files -> SUBSET (1 .. count')] /\ wrote' \subseteq 1 .. count'
      BY <1>1, <1>2, Indices DEF IInv, TypeOK, Put
    <2>4. \A k \in Files \ names : file'[k] = {}
      BY <1>2, <2>2 DEF IInv, TypeOK
    <2>5. clean' = clean /\ clean \in BOOLEAN
      BY <1>2 DEF IInv, TypeOK, Put
    <2> QED
      BY <2>1, <2>3, <2>4, <2>5
  <1>3. CASE Drop
    <2>1. OldestFirst' /\ NoGap'
      BY <1>3 DEF IInv, OldestFirst, NoGap, Drop
    <2>2. \A k \in Files : file'[k] \subseteq wrote'
      BY <1>3 DEF IInv, Fresh, Drop
    <2>3. file' \in [Files -> SUBSET (1 .. count')] /\ wrote' \subseteq 1 .. count'
      BY <1>1, <1>3 DEF IInv, TypeOK, Drop
    <2>4. (\A k \in Files \ names : file'[k] = {}) /\ clean' \in BOOLEAN /\ (clean' => clean)
      BY <1>3 DEF IInv, TypeOK, Drop
    <2> QED
      BY <2>1, <2>2, <2>3, <2>4
  <1> QED
    BY <1>2, <1>3 DEF Write

LEMMA EmitKeeps == IInv /\ Emit => IInv'
  <1> SUFFICES ASSUME IInv, Emit PROVE IInv'
    OBVIOUS
  <1>0. /\ count \in Nat /\ count' = count + 1 /\ stage = "ready" /\ limit \in Limits
        /\ UNCHANGED <<names, limit, handle, starts, cut, first, lowered>>
    BY DEF IInv, TypeOK, Emit
  <1>1. CASE handle = "open" /\ Cardinality(file[0]) >= Size
    <2>1. stage' = "shifting" /\ at' = limit - 1 /\ UNCHANGED <<file, wrote, clean>>
      BY <1>1 DEF Emit
    <2>2. 1 .. count \subseteq 1 .. count' /\ limit - 1 < limit
      BY <1>0, Indices
    <2>3. TypeOK'
      <3>1. file' \in [Files -> SUBSET (1 .. count')] /\ wrote' \subseteq 1 .. count'
        BY <2>1, <2>2 DEF IInv, TypeOK
      <3> QED
        BY <1>0, <2>1, <2>2, <3>1, Indices DEF IInv, TypeOK
    <2>4. Fresh'
      <3>1. count' >= 1 /\ \A r \in wrote : r < count'
        BY <1>0 DEF IInv, TypeOK
      <3>2. \A k \in Files : file[k] \subseteq wrote
        BY DEF IInv, Fresh
      <3> QED
        BY <2>1, <3>1, <3>2 DEF Fresh
    <2>5. Tidy'
      BY <1>0, <2>1, Indices DEF IInv, Tidy
    <2>6. OldestFirst' /\ NoGap'
      BY <1>0, <2>1 DEF IInv, OldestFirst, NoGap, Kept
    <2> QED
      BY <2>3, <2>4, <2>5, <2>6 DEF IInv
  <1>2. CASE ~ (handle = "open" /\ Cardinality(file[0]) >= Size)
    <2>1. Write(count') /\ UNCHANGED <<stage, at>>
      BY <1>2 DEF Emit
    <2>2. /\ count' \in Nat /\ count' >= count /\ count' \in 1 .. count'
          /\ \A q \in wrote : q < count'
      BY <1>0 DEF IInv, TypeOK
    <2>3. handle = "open" => 0 \in names
      BY <1>0 DEF IInv, TypeOK
    <2>4. /\ OldestFirst' /\ NoGap' /\ \A k \in Files : file'[k] \subseteq wrote'
          /\ file' \in [Files -> SUBSET (1 .. count')] /\ wrote' \subseteq 1 .. count'
          /\ (\A k \in Files \ names : file'[k] = {})
          /\ clean' \in BOOLEAN /\ (clean' => clean)
      BY <1>0, <2>1, <2>2, <2>3, WriteKeeps
    <2>5. TypeOK'
      BY <1>0, <2>1, <2>2, <2>4 DEF IInv, TypeOK
    <2>6. Fresh' /\ Tidy'
      BY <1>0, <2>1, <2>4 DEF IInv, Fresh, Rotating, Tidy
    <2> QED
      BY <2>4, <2>5, <2>6 DEF IInv
  <1> QED
    BY <1>1, <1>2

LEMMA WriteOnKeeps == IInv /\ WriteOn => IInv'
  <1> SUFFICES ASSUME IInv, WriteOn PROVE IInv'
    OBVIOUS
  <1>0. /\ stage = "writing" /\ stage' = "ready" /\ Write(count) /\ count \in Nat
        /\ UNCHANGED <<names, limit, handle, at, count, starts, cut, first, lowered>>
    BY DEF IInv, TypeOK, WriteOn
  <1>1. count \in 1 .. count /\ count >= count /\ \A q \in wrote : q < count
    BY <1>0 DEF IInv, Fresh, Rotating
  <1>2. handle = "open" => 0 \in names
    BY <1>0 DEF IInv, TypeOK
  <1>3. /\ OldestFirst' /\ NoGap' /\ \A k \in Files : file'[k] \subseteq wrote'
        /\ file' \in [Files -> SUBSET (1 .. count')] /\ wrote' \subseteq 1 .. count'
        /\ (\A k \in Files \ names : file'[k] = {})
        /\ clean' \in BOOLEAN /\ (clean' => clean)
    BY <1>0, <1>1, <1>2, WriteKeeps
  <1>4. TypeOK'
    BY <1>0, <1>3 DEF IInv, TypeOK
  <1>5. Fresh' /\ Tidy'
    BY <1>0, <1>3 DEF IInv, Fresh, Rotating, Tidy
  <1> QED
    BY <1>3, <1>4, <1>5 DEF IInv

-----------------------------------------------------------------------------
\* A rename, done, failed, or of nothing.
LEMMA ShiftKeeps == IInv /\ Shift => IInv'
  <1> SUFFICES ASSUME IInv, Shift PROVE IInv'
    OBVIOUS
  <1> DEFINE to == at + 1
  <1>0. /\ at \in 0 .. MaxFiles - 1 /\ at \in Files /\ at \in Nat /\ to \in Files
        /\ to # at /\ to = at + 1 /\ limit \in Limits /\ limit \in Nat /\ at < limit
        /\ stage = "shifting" /\ stage' \in {"shifting", "removing"}
        /\ (stage' = "shifting" => at # 0 /\ at' = at - 1)
        /\ (stage' = "removing" => at' = at)
        /\ UNCHANGED <<limit, handle, count, wrote, starts, cut, first, lowered>>
    BY Indices DEF IInv, TypeOK, Shift
  <1>1. \A k \in Files : k \in Nat
    BY RotationAssumption DEF Files
  <1>2. at' \in 0 .. MaxFiles - 1 /\ (stage' = "shifting" => at' < limit)
    <2>1. at # 0 => at - 1 \in 0 .. MaxFiles - 1 /\ at - 1 < limit
      BY <1>0, RotationAssumption
    <2> QED
      BY <1>0, <2>1
  <1> HIDE DEF to
  <1>3. CASE UNCHANGED <<names, file>> /\ (at \notin names \/ ~ clean') /\ clean' \in BOOLEAN
             /\ (clean' => clean)
    <2>1. TypeOK'
      BY <1>0, <1>2, <1>3 DEF IInv, TypeOK
    <2>2. Fresh'
      BY <1>0, <1>3 DEF IInv, Fresh, Rotating
    <2>3. Tidy'
      <3>1. stage' = "shifting" => at' + 1 = at
        BY <1>0
      <3> QED
        BY <1>0, <1>3, <3>1 DEF IInv, Tidy
    <2>4. OldestFirst' /\ NoGap'
      BY <1>0, <1>3 DEF IInv, OldestFirst, NoGap, Kept
    <2> QED
      BY <2>1, <2>2, <2>3, <2>4 DEF IInv
  <1>4. CASE /\ at \in names /\ names' = (names \ {at}) \cup {to}
             /\ file' = [file EXCEPT ![to] = file[at], ![at] = {}] /\ UNCHANGED clean
    <2>1. \A k \in Files : file'[k] = IF k = at THEN {} ELSE IF k = to THEN file[at] ELSE file[k]
      BY <1>0, <1>4 DEF IInv, TypeOK
    <2>2. TypeOK'
      <3>1. file' \in [Files -> SUBSET (1 .. count')]
        BY <1>0, <1>4 DEF IInv, TypeOK
      <3>2. names' \subseteq Files /\ \A k \in Files \ names' : file'[k] = {}
        BY <1>0, <1>4, <2>1 DEF IInv, TypeOK
      <3> QED
        BY <1>0, <1>2, <1>4, <3>1, <3>2 DEF IInv, TypeOK
    <2>3. Fresh'
      BY <1>0, <2>1 DEF IInv, Fresh, Rotating
    <2>4. Tidy'
      <3>1. to <= limit
        BY <1>0
      <3>2. stage' = "shifting" => at' + 1 = at
        BY <1>0
      <3> QED
        BY <1>0, <1>4, <3>1, <3>2 DEF IInv, Tidy
    <2>5. OldestFirst'
      <3> SUFFICES ASSUME NEW a \in names', NEW b \in names', a < b,
                          NEW p \in file'[a], NEW q \in file'[b]
                   PROVE  q < p
        BY DEF OldestFirst
      <3>0. a \in Files /\ b \in Files /\ a \in Nat /\ b \in Nat /\ a # b
        BY <1>1, <2>2 DEF TypeOK
      <3>1. a # at /\ b # at
        BY <1>0, <1>4
      <3>2. CASE a = to
        <4>0. b # to /\ at < b
          BY <1>0, <3>0, <3>2
        <4>1. at < b /\ b \in names /\ p \in file[at] /\ q \in file[b]
          BY <1>4, <2>1, <3>0, <3>1, <3>2, <4>0
        <4> QED
          BY <1>4, <4>1 DEF IInv, OldestFirst
      <3>3. CASE b = to
        <4>0. a # to /\ a < at
          BY <1>0, <3>0, <3>1, <3>3
        <4>1. a < at /\ a \in names /\ p \in file[a] /\ q \in file[at]
          BY <1>4, <2>1, <3>0, <3>1, <3>3, <4>0
        <4> QED
          BY <1>4, <4>1 DEF IInv, OldestFirst
      <3>4. CASE a # to /\ b # to
        <4>1. a \in names /\ b \in names /\ p \in file[a] /\ q \in file[b]
          BY <1>4, <2>1, <3>0, <3>1, <3>4
        <4> QED
          BY <4>1 DEF IInv, OldestFirst
      <3> QED
        BY <3>2, <3>3, <3>4
    <2>6. NoGap'
      <3> SUFFICES ASSUME clean, ~ lowered, NEW r \in wrote \ Kept', NEW s \in Kept'
                   PROVE  r < s
        BY <1>0, <1>4 DEF NoGap
      <3>1. PICK k \in names : s \in file[k] /\ (k = at \/ (k # at /\ k # to))
        <4>1. PICK l \in names' : s \in file'[l]
          BY DEF Kept
        <4>2. l \in Files
          BY <2>2 DEF TypeOK
        <4>3. l # at
          BY <1>0, <1>4
        <4>4. CASE l = to
          BY <1>4, <2>1, <4>1, <4>2, <4>3, <4>4
        <4>5. CASE l # to
          BY <1>4, <2>1, <4>1, <4>2, <4>3, <4>5
        <4> QED
          BY <4>4, <4>5
      <3>2. s \in Kept
        BY <3>1 DEF Kept
      <3>3. CASE r \notin Kept
        BY <3>2, <3>3 DEF IInv, NoGap
      <3>4. CASE r \in Kept
        <4>1. PICK l \in names : r \in file[l]
          BY <3>4 DEF Kept
        <4>2. l \in Files /\ k \in Files
          BY DEF IInv, TypeOK
        <4>3. l = to
          <5>1. CASE l = at
            BY <1>0, <1>4, <2>1, <4>1, <5>1 DEF Kept
          <5>2. CASE l # at /\ l # to
            <6>1. l \in names' /\ r \in file'[l]
              BY <1>4, <2>1, <4>1, <4>2, <5>2
            <6> QED
              BY <6>1 DEF Kept
          <5> QED
            BY <5>1, <5>2
        <4>4. to \in names /\ ~ (at < limit - 1) /\ k <= limit
          BY <1>0, <4>1, <4>3 DEF IInv, Tidy
        <4>5. k < to
          BY <1>0, <1>1, <3>1, <4>2, <4>4
        <4> QED
          BY <3>1, <4>1, <4>3, <4>4, <4>5 DEF IInv, OldestFirst
      <3> QED
        BY <3>3, <3>4
    <2> QED
      BY <2>2, <2>3, <2>4, <2>5, <2>6 DEF IInv
  <1> QED
    <2>1. Rename(at, to)
      BY <1>0 DEF Shift
    <2>2. clean \in BOOLEAN
      BY DEF IInv, TypeOK
    <2> QED
      BY <1>3, <1>4, <2>1, <2>2 DEF Rename, shape

\* Under the limit there is nothing to remove; over it, max_files was lowered
\* or something failed.
LEMMA RemoveKeeps == IInv /\ RemoveOverflow => IInv'
  <1> SUFFICES ASSUME IInv, RemoveOverflow PROVE IInv'
    OBVIOUS
  <1>0. /\ limit \in Limits /\ limit \in Nat /\ limit >= 1 /\ limit + 1 \in Files
        /\ stage = "removing" /\ stage' = "opening"
        /\ names' = names \ {limit + 1} /\ file' = [file EXCEPT ![limit + 1] = {}]
        /\ UNCHANGED <<limit, handle, at, count, wrote, past>>
    BY Indices DEF IInv, TypeOK, RemoveOverflow
  <1>1. \A k \in Files : file'[k] = IF k = limit + 1 THEN {} ELSE file[k]
    BY <1>0 DEF IInv, TypeOK
  <1>2. TypeOK'
    <2>1. file' \in [Files -> SUBSET (1 .. count')]
      BY <1>0 DEF IInv, TypeOK
    <2>2. \A k \in Files \ names' : file'[k] = {}
      BY <1>0, <1>1 DEF IInv, TypeOK
    <2> QED
      BY <1>0, <2>1, <2>2 DEF IInv, TypeOK, past
  <1>3. Fresh'
    BY <1>0, <1>1 DEF IInv, Fresh, Rotating
  <1>4. Tidy'
    BY <1>0 DEF IInv, Tidy, past
  <1>5. OldestFirst'
    <2>1. \A k \in names' : k \in names /\ file'[k] = file[k]
      BY <1>0, <1>1 DEF IInv, TypeOK
    <2> QED
      BY <2>1 DEF IInv, OldestFirst
  <1>6. NoGap'
    <2> SUFFICES ASSUME clean, ~ lowered PROVE \A r \in wrote \ Kept' : \A s \in Kept' : r < s
      BY <1>0 DEF NoGap, past
    <2>1. limit + 1 \notin names
      BY <1>0 DEF IInv, Tidy
    <2>2. names' = names /\ \A k \in names : file'[k] = file[k]
      BY <1>0, <1>1, <2>1 DEF IInv, TypeOK
    <2>3. Kept' = Kept
      BY <2>2 DEF Kept
    <2> QED
      BY <2>3 DEF IInv, NoGap
  <1> QED
    BY <1>2, <1>3, <1>4, <1>5, <1>6 DEF IInv

\* An empty path, where there was none, holds no record: for Reopen and for
\* NewFileEmitter.
LEMMA CreateKeeps ==
    ASSUME TypeOK, OldestFirst, NoGap, names' = names \cup {0}, UNCHANGED file
    PROVE  /\ OldestFirst' /\ Kept' = Kept /\ names' \subseteq Files
           /\ \A k \in Files \ names' : file'[k] = {}
  <1>1. 0 \in Files /\ (0 \notin names => file[0] = {})
    BY Indices DEF TypeOK
  <1>2. \A k \in names' : k \in names \/ file[k] = {}
    BY <1>1
  <1>3. OldestFirst'
    BY <1>2 DEF OldestFirst
  <1>4. Kept' = Kept
    BY <1>2 DEF Kept
  <1> QED
    BY <1>1, <1>3, <1>4 DEF TypeOK

LEMMA ReopenKeeps == IInv /\ Reopen => IInv'
  <1> SUFFICES ASSUME IInv, Reopen PROVE IInv'
    OBVIOUS
  <1>0. /\ stage = "opening" /\ stage' = "writing" /\ limit \in Limits /\ limit \in Nat
        /\ UNCHANGED <<file, limit, at, count, wrote, starts, cut, first, lowered>>
    BY Indices DEF IInv, TypeOK, Reopen
  <1>1. Fresh'
    BY <1>0 DEF IInv, Fresh, Rotating
  <1>2. CASE names' = names \cup {0} /\ UNCHANGED <<handle, clean>>
    <2>1. /\ OldestFirst' /\ Kept' = Kept /\ names' \subseteq Files
          /\ \A k \in Files \ names' : file'[k] = {}
      BY <1>0, <1>2, CreateKeeps DEF IInv
    <2>2. TypeOK'
      BY <1>0, <1>2, <2>1 DEF IInv, TypeOK
    <2>3. Tidy' /\ NoGap'
      BY <1>0, <1>2, <2>1 DEF IInv, Tidy, NoGap
    <2> QED
      BY <1>1, <2>1, <2>2, <2>3 DEF IInv
  <1>3. CASE handle' = "nil" /\ clean' = FALSE /\ UNCHANGED names
    <2>1. TypeOK'
      BY <1>0, <1>3 DEF IInv, TypeOK
    <2>2. Tidy' /\ NoGap' /\ OldestFirst'
      BY <1>0, <1>3 DEF IInv, Tidy, NoGap, OldestFirst
    <2> QED
      BY <1>1, <2>1, <2>2 DEF IInv
  <1> QED
    BY <1>2, <1>3 DEF Reopen

-----------------------------------------------------------------------------
\* The process ends and starts again.
LEMMA StopKeeps == IInv /\ Stop => IInv'
  <1> SUFFICES ASSUME IInv, Stop PROVE IInv'
    OBVIOUS
  <1>0. /\ stage' = "down" /\ cut' \in Nat
        /\ UNCHANGED <<names, file, limit, handle, at, count, wrote, starts, clean, first, lowered>>
    BY DEF IInv, TypeOK, Stop, shape
  <1>1. TypeOK'
    BY <1>0 DEF IInv, TypeOK
  <1>2. Fresh' /\ Tidy'
    BY <1>0 DEF IInv, Fresh, Rotating, Tidy
  <1>3. OldestFirst' /\ NoGap'
    BY <1>0 DEF IInv, OldestFirst, NoGap, Kept
  <1> QED
    BY <1>1, <1>2, <1>3 DEF IInv

LEMMA StartKeeps == IInv /\ NewFileEmitter => IInv'
  <1> SUFFICES ASSUME IInv, NewFileEmitter PROVE IInv'
    OBVIOUS
  <1>0. /\ stage' = "ready" /\ limit \in Limits /\ limit' \in Limits /\ at' = 0
        /\ lowered' = (lowered \/ limit' < limit)
        /\ names' = names \cup {0} /\ handle' = "open" /\ starts' \in Nat
        /\ limit \in Nat /\ limit' \in Nat
        /\ UNCHANGED <<file, count, wrote, cut, clean, first>>
    BY Indices DEF IInv, TypeOK, NewFileEmitter
  <1>1. /\ OldestFirst' /\ Kept' = Kept /\ names' \subseteq Files
        /\ \A k \in Files \ names' : file'[k] = {}
    BY <1>0, CreateKeeps DEF IInv
  <1>2. TypeOK'
    <2>1. 0 \in 0 .. MaxFiles - 1
      BY RotationAssumption
    <2>2. lowered' \in BOOLEAN
      BY <1>0 DEF IInv, TypeOK
    <2> QED
      BY <1>0, <1>1, <2>1, <2>2 DEF IInv, TypeOK
  <1>3. Fresh'
    BY <1>0 DEF IInv, Fresh, Rotating
  <1>4. Tidy'
    <2> SUFFICES ASSUME clean, ~ lowered, ~ (limit' < limit), NEW k \in names'
                 PROVE  k <= limit'
      BY <1>0 DEF Tidy
    <2>1. CASE k = 0
      BY <1>0, <2>1
    <2>2. CASE k \in names
      <3>1. k \in Nat /\ k <= limit
        BY <2>2, RotationAssumption DEF IInv, TypeOK, Tidy, Files
      <3> QED
        BY <1>0, <3>1
    <2> QED
      BY <1>0, <2>1, <2>2
  <1>5. NoGap'
    BY <1>0, <1>1 DEF IInv, NoGap
  <1> QED
    BY <1>1, <1>2, <1>3, <1>4, <1>5 DEF IInv

-----------------------------------------------------------------------------
\* Every step keeps the invariant.
LEMMA StepIInv == IInv /\ [Next]_vars => IInv'
  <1> SUFFICES ASSUME IInv, [Next]_vars PROVE IInv'
    OBVIOUS
  <1>1. CASE UNCHANGED vars
    BY <1>1 DEF vars, shape, past, IInv, TypeOK, Fresh, Rotating, Tidy, OldestFirst, NoGap, Kept
  <1> QED
    BY <1>1, EmitKeeps, ShiftKeeps, RemoveKeeps, ReopenKeeps, WriteOnKeeps, StopKeeps,
       StartKeeps DEF Next

\* The files, the records in them and the state of the emitter have their
\* types, whatever fails and wherever the process is stopped (FileEmitter).
THEOREM RotationTyping == Spec => []TypeOK
  <1>1. IInv => TypeOK
    BY DEF IInv
  <1> QED
    BY <1>1, InitIInv, StepIInv, PTL DEF Spec

\* Read from the last file to the first, the log is in the order of the
\* records; and without a failure or a lowered max_files nothing but its
\* oldest part is gone (rotate).
THEOREM OnlyTheOldestGoes == Spec => []OnlyOldestGoes
  <1>1. IInv => OnlyOldestGoes
    BY DEF IInv, OnlyOldestGoes
  <1> QED
    BY <1>1, InitIInv, StepIInv, PTL DEF Spec

-----------------------------------------------------------------------------
\* The full files: all but path, and path as well before it is rotated.
Full == {k \in names : k # 0 \/ stage = "shifting"}

\* The indices a stop inside rotate has left empty below a file; the one that
\* the next rename is to fill is not counted.
Gaps == {k \in Files : /\ k \notin names /\ k # 0 /\ \E j \in names : k < j
                       /\ ~ (stage = "shifting" /\ k = at + 1)}

\* A file goes only when there are as many as max_files, but for the gaps.
Ample ==
    clean /\ ~ lowered =>
        /\ first <= limit
        /\ stage = "shifting" => 0 \in names
        /\ \A k \in Full : Cardinality(file[k]) >= Size
        /\ Cardinality(Gaps) <= cut
        /\ Kept = wrote \/ Cardinality(Full) >= first - cut

\* Sets of file indices and of records are finite.
LEMMA FilesAreFew ==
    ASSUME NEW S, S \subseteq Files
    PROVE  /\ IsFiniteSet(S) /\ Cardinality(S) \in Nat
           /\ \A T \in SUBSET S : Cardinality(T) <= Cardinality(S)
  <1>1. IsFiniteSet(Files)
    <2>1. 0 \in Int /\ MaxFiles + 1 \in Int
      BY RotationAssumption
    <2> QED
      BY <2>1, FS_Interval DEF Files
  <1>2. IsFiniteSet(S)
    BY <1>1, FS_Subset
  <1> QED
    BY <1>2, FS_CardinalityType, FS_Subset

LEMMA RecordsAreFew ==
    ASSUME NEW n \in Nat, NEW S, S \subseteq 1 .. n
    PROVE  IsFiniteSet(S) /\ Cardinality(S) \in Nat
  <1>1. IsFiniteSet(1 .. n)
    BY FS_Interval
  <1>2. IsFiniteSet(S)
    BY <1>1, FS_Subset
  <1> QED
    BY <1>2, FS_CardinalityType

\* An index exchanged for another.
LEMMA Exchange ==
    ASSUME NEW S, S \subseteq Files, NEW a \in S, NEW b \in Files, b \notin S
    PROVE  Cardinality((S \ {a}) \cup {b}) = Cardinality(S)
  <1>1. IsFiniteSet(S) /\ Cardinality(S) \in Nat
    BY FilesAreFew
  <1>2. IsFiniteSet(S \ {a}) /\ Cardinality(S \ {a}) = Cardinality(S) - 1
    <2>1. /\ IsFiniteSet(S \ {a})
          /\ Cardinality(S \ {a}) = IF a \in S THEN Cardinality(S) - 1 ELSE Cardinality(S)
      BY <1>1, FS_RemoveElement
    <2> QED
      BY <2>1
  <1>3. Cardinality((S \ {a}) \cup {b}) = Cardinality(S \ {a}) + 1
    <2>1. Cardinality((S \ {a}) \cup {b})
            = IF b \in S \ {a} THEN Cardinality(S \ {a}) ELSE Cardinality(S \ {a}) + 1
      BY <1>2, FS_AddElement
    <2> QED
      BY <2>1
  <1> QED
    BY <1>1, <1>2, <1>3

\* Disjoint full files hold as many records as there are places in them.
LEMMA FullFiles ==
    ASSUME NEW R, R \subseteq Files, NEW f, NEW n \in Nat,
           \A k \in R : f[k] \subseteq 1 .. n /\ Cardinality(f[k]) >= Size,
           \A a, b \in R : a # b => f[a] \cap f[b] = {}
    PROVE  Cardinality(UNION {f[k] : k \in R}) >= Cardinality(R) * Size
  <1> DEFINE U == UNION {f[k] : k \in R}
             h == [k \in R |-> CHOOSE g : g \in Injection(1 .. Size, f[k])]
             p == [x \in R \X (1 .. Size) |-> h[x[1]][x[2]]]
  <1>1. IsFiniteSet(R) /\ IsFiniteSet(U) /\ Cardinality(U) \in Nat
    <2>1. U \subseteq 1 .. n
      OBVIOUS
    <2> QED
      BY <2>1, FilesAreFew, RecordsAreFew
  <1>2. \A k \in R : h[k] \in Injection(1 .. Size, f[k])
    <2> SUFFICES ASSUME NEW k \in R PROVE \E g : g \in Injection(1 .. Size, f[k])
      OBVIOUS
    <2>1. IsFiniteSet(f[k]) /\ Cardinality(f[k]) \in Nat /\ Cardinality(f[k]) >= Size
      BY RecordsAreFew
    <2>2. PICK g : g \in Bijection(1 .. Cardinality(f[k]), f[k])
      BY <2>1, FS_CardinalityType, Fun_ExistsBij
    <2>3. /\ g \in [1 .. Cardinality(f[k]) -> f[k]]
          /\ \A i, j \in 1 .. Cardinality(f[k]) : g[i] = g[j] => i = j
      <3>1. g \in Injection(1 .. Cardinality(f[k]), f[k])
        BY <2>2, Fun_BijectionProperties
      <3> QED
        BY <3>1, Fun_InjectionProperties
    <2>4. 1 .. Size \subseteq 1 .. Cardinality(f[k])
      BY <2>1, RotationAssumption
    <2>5. [i \in 1 .. Size |-> g[i]] \in Injection(1 .. Size, f[k])
      <3> DEFINE e == [i \in 1 .. Size |-> g[i]]
      <3>1. e \in [1 .. Size -> f[k]] /\ \A i, j \in 1 .. Size : e[i] = e[j] => i = j
        BY <2>3, <2>4
      <3> HIDE DEF e
      <3>2. e \in Injection(1 .. Size, f[k])
        BY <3>1, Fun_IsInj
      <3> QED
        BY <3>2 DEF e
    <2> QED
      BY <2>5
  <1> HIDE DEF h
  <1>3. ASSUME NEW k \in R
        PROVE  /\ h[k] \in [1 .. Size -> f[k]]
               /\ \A i, j \in 1 .. Size : h[k][i] = h[k][j] => i = j
    <2>1. h[k] \in Injection(1 .. Size, f[k])
      BY <1>2
    <2> QED
      BY <2>1, Fun_InjectionProperties
  <1>4. p \in [R \X (1 .. Size) -> U]
    <2>1. ASSUME NEW k \in R, NEW i \in 1 .. Size PROVE h[k][i] \in U
      <3>1. h[k][i] \in f[k]
        BY <1>3
      <3>2. f[k] \subseteq U
        OBVIOUS
      <3> QED
        BY <3>1, <3>2
    <2> HIDE DEF U
    <2> QED
      BY <2>1
  <1>5. \A x, y \in R \X (1 .. Size) : p[x] = p[y] => x = y
    <2> SUFFICES ASSUME NEW a \in R, NEW i \in 1 .. Size, NEW b \in R, NEW j \in 1 .. Size,
                        h[a][i] = h[b][j]
                 PROVE  a = b /\ i = j
      OBVIOUS
    <2>1. h[a][i] \in f[a] /\ h[b][j] \in f[b]
      BY <1>3
    <2>2. a = b
      BY <2>1
    <2> QED
      BY <1>3, <2>2
  <1> HIDE DEF p, U
  <1>6. p \in Injection(R \X (1 .. Size), U)
    BY <1>4, <1>5, Fun_IsInj
  <1>7. Cardinality(R \X (1 .. Size)) <= Cardinality(U)
    BY <1>1, <1>6, FS_Injection
  <1>8. Cardinality(R \X (1 .. Size)) = Cardinality(R) * Size
    <2>1. IsFiniteSet(1 .. Size) /\ Cardinality(1 .. Size) = Size
      <3>1. /\ IsFiniteSet(1 .. Size)
            /\ Cardinality(1 .. Size) = IF 1 > Size THEN 0 ELSE Size - 1 + 1
        BY RotationAssumption, FS_Interval
      <3> QED
        BY <3>1, RotationAssumption
    <2> QED
      BY <1>1, <2>1, FS_Product
  <1>9. Cardinality(R) \in Nat
    BY <1>1, FS_CardinalityType
  <1> QED
    BY <1>1, <1>7, <1>8, <1>9, RotationAssumption DEF U

LEMMA AmpleIsEnough == IInv /\ Ample => EnoughKept
  <1> SUFFICES ASSUME IInv, Ample, clean, ~ lowered, Kept # wrote
               PROVE  Cardinality(Kept) >= (first - cut) * Size
    BY DEF EnoughKept
  <1> DEFINE U == UNION {file[k] : k \in Full}
  <1>1. Full \subseteq Files /\ Cardinality(Full) \in Nat
    <2>1. Full \subseteq Files
      BY DEF Full, IInv, TypeOK
    <2> QED
      BY <2>1, FilesAreFew
  <1>2. Cardinality(U) >= Cardinality(Full) * Size
    <2>1. ASSUME NEW k \in Full PROVE file[k] \subseteq 1 .. count /\ Cardinality(file[k]) >= Size
      BY <1>1 DEF IInv, TypeOK, Ample
    <2>2. ASSUME NEW a \in Full, NEW b \in Full, a # b PROVE file[a] \cap file[b] = {}
      <3>1. a \in names /\ b \in names /\ a \in Int /\ b \in Int /\ (a < b \/ b < a)
        BY <1>1, <2>2, RotationAssumption DEF Full, Files
      <3>2. file[a] \subseteq Int /\ file[b] \subseteq Int
        BY <2>1
      <3> QED
        BY <3>1, <3>2 DEF IInv, OldestFirst
    <2>3. count \in Nat
      BY DEF IInv, TypeOK
    <2> QED
      BY <1>1, <2>1, <2>2, <2>3, FullFiles
  <1>3. U \subseteq Kept /\ Kept \subseteq 1 .. count
    BY <1>1 DEF Full, Kept, IInv, TypeOK
  <1>4. Cardinality(Kept) >= Cardinality(U) /\ Cardinality(Kept) \in Nat /\ Cardinality(U) \in Nat
    <2>1. count \in Nat
      BY DEF IInv, TypeOK
    <2>2. IsFiniteSet(Kept) /\ Cardinality(Kept) \in Nat
      BY <1>3, <2>1, RecordsAreFew
    <2> QED
      BY <1>3, <2>1, <2>2, RecordsAreFew, FS_Subset
  <1>5. Cardinality(Full) >= first - cut /\ first - cut \in Int
    BY Indices DEF Ample, IInv, TypeOK
  <1>6. Cardinality(Full) * Size >= (first - cut) * Size
    <2>1. PICK a \in Nat, b \in Int : a = Cardinality(Full) /\ b = first - cut
      BY <1>1, <1>5
    <2>2. a * Size - b * Size = (a - b) * Size /\ (a - b) * Size >= 0
      BY <1>5, <2>1, RotationAssumption
    <2>3. a * Size \in Int /\ b * Size \in Int
      BY <2>1, RotationAssumption
    <2> QED
      BY <2>1, <2>2, <2>3
  <1>7. Cardinality(Full) * Size \in Int /\ (first - cut) * Size \in Int
    BY <1>1, <1>5, RotationAssumption
  <1> HIDE DEF U
  <1> QED
    BY <1>2, <1>4, <1>6, <1>7

\* The gaps and the full files stay as many while no rename is under way:
\* only path changes, the limit grows or a stop is counted.
LEMMA PathOnly ==
    ASSUME IInv, Ample, clean, ~ lowered, first' = first,
           limit' \in Limits, limit <= limit', cut' \in Nat, cut <= cut',
           names' \subseteq Files, \A k \in Files \ {0} : k \in names' <=> k \in names,
           \A k \in names \ {0} : file'[k] = file[k],
           stage # "shifting", stage' # "shifting", Kept = wrote => Kept' = wrote'
    PROVE  Ample'
  <1>1. Full' = Full
    BY DEF Full, IInv, TypeOK
  <1>2. Gaps' = Gaps
    <2>1. \A k \in Files : k # 0 => ((\E j \in names' : k < j) <=> (\E j \in names : k < j))
      <3> SUFFICES ASSUME NEW k \in Files, k # 0
                   PROVE  (\E j \in names' : k < j) <=> (\E j \in names : k < j)
        OBVIOUS
      <3>1. \A j \in Files : k < j => j # 0
        BY RotationAssumption DEF Files
      <3> QED
        BY <3>1 DEF IInv, TypeOK
    <2> QED
      BY <2>1 DEF Gaps
  <1>3. \A k \in Full : Cardinality(file'[k]) >= Size
    BY DEF Full, Ample
  <1>4. first <= limit'
    BY Indices DEF Ample, IInv, TypeOK
  <1>5. Gaps \subseteq Files /\ Full \subseteq Files
    BY DEF Gaps, Full, IInv, TypeOK
  <1>6. Cardinality(Gaps) \in Nat /\ Cardinality(Full) \in Nat
    BY <1>5, FilesAreFew
  <1>7. /\ Cardinality(Gaps) <= cut'
        /\ Cardinality(Full) >= first - cut => Cardinality(Full) >= first - cut'
    BY <1>6, Indices DEF Ample, IInv, TypeOK
  <1> QED
    BY <1>1, <1>2, <1>3, <1>4, <1>7 DEF Ample

LEMMA InitAmple == Init => Ample
  <1> SUFFICES ASSUME Init PROVE Ample
    OBVIOUS
  <1>1. first <= limit /\ stage # "shifting" /\ cut = 0
    BY Indices DEF Init
  <1>2. Full = {} /\ Kept = wrote
    BY Indices DEF Init, Full, Kept
  <1>3. Cardinality(Gaps) = 0
    <2>1. Gaps = {}
      BY RotationAssumption DEF Init, Gaps, Files
    <2> QED
      BY <2>1, FS_EmptySet
  <1> QED
    BY <1>1, <1>2, <1>3 DEF Ample

\* One record more, or none, in path.
LEMMA WriteAmple ==
    ASSUME IInv, Ample, NEW r, Write(r), handle = "open" => 0 \in names,
           stage # "shifting", stage' # "shifting",
           UNCHANGED <<names, limit, cut, first, lowered>>
    PROVE  Ample'
  <1> SUFFICES ASSUME clean', ~ lowered PROVE Ample'
    BY DEF Ample
  <1>1. Put(r) /\ 0 \in names /\ clean
    BY DEF Write, Drop, Put
  <1>2. \A k \in Files : file'[k] = IF k = 0 THEN file[0] \cup {r} ELSE file[k]
    BY <1>1, Indices DEF IInv, TypeOK, Put
  <1>3. Kept' = Kept \cup {r}
    BY <1>1, <1>2 DEF Kept, IInv, TypeOK
  <1>4. Kept = wrote => Kept' = wrote'
    BY <1>1, <1>3 DEF Put
  <1>5. /\ limit' \in Limits /\ limit <= limit' /\ cut' \in Nat /\ cut <= cut'
        /\ names' \subseteq Files
    BY Indices DEF IInv, TypeOK
  <1>6. \A k \in names \ {0} : file'[k] = file[k]
    BY <1>2 DEF IInv, TypeOK
  <1> QED
    BY <1>1, <1>4, <1>5, <1>6, PathOnly

LEMMA EmitAmple == IInv /\ Ample /\ Emit => Ample'
  <1> SUFFICES ASSUME IInv, Ample, Emit PROVE Ample'
    OBVIOUS
  <1>0. /\ stage = "ready" /\ (handle = "open" => 0 \in names)
        /\ UNCHANGED <<names, limit, cut, first, lowered>>
    BY DEF Emit, IInv, TypeOK
  <1>1. CASE ~ (handle = "open" /\ Cardinality(file[0]) >= Size)
    <2>1. Write(count') /\ stage' = stage
      BY <1>1 DEF Emit
    <2> QED
      BY <1>0, <2>1, WriteAmple
  <1>2. CASE handle = "open" /\ Cardinality(file[0]) >= Size
    <2> SUFFICES ASSUME clean, ~ lowered PROVE Ample'
      BY <1>2 DEF Ample, Emit
    <2>1. stage' = "shifting" /\ UNCHANGED <<file, wrote, clean>> /\ 0 \in names
      BY <1>0, <1>2 DEF Emit
    <2>2. Full' = names /\ Full \subseteq names /\ \A k \in names : k \in Full \/ k = 0
      BY <1>0, <2>1 DEF Full
    <2>3. \A k \in Full' : Cardinality(file'[k]) >= Size
      BY <1>2, <2>1, <2>2 DEF Ample
    <2>4. /\ Gaps' \in SUBSET Gaps /\ Gaps \subseteq Files
          /\ Full \in SUBSET Full' /\ Full' \subseteq Files
      BY <1>0, <2>1, <2>2 DEF Gaps, IInv, TypeOK
    <2>5. Cardinality(Gaps') <= Cardinality(Gaps) /\ Cardinality(Full) <= Cardinality(Full')
      BY <2>4, FilesAreFew
    <2>6. /\ Cardinality(Gaps') \in Nat /\ Cardinality(Gaps) \in Nat
          /\ Cardinality(Full) \in Nat /\ Cardinality(Full') \in Nat
      BY <2>4, FilesAreFew
    <2>7. cut \in Nat /\ first \in Nat
      BY Indices DEF IInv, TypeOK
    <2>8. Cardinality(Gaps') <= cut
      BY <2>5, <2>6, <2>7 DEF Ample
    <2>9. Kept' = wrote' \/ Cardinality(Full') >= first - cut
      <3>1. Kept' = Kept
        BY <1>0, <2>1 DEF Kept
      <3> QED
        BY <2>1, <2>5, <2>6, <2>7, <3>1 DEF Ample
    <2> QED
      BY <1>0, <2>1, <2>3, <2>8, <2>9 DEF Ample
  <1> QED
    BY <1>1, <1>2

LEMMA WriteOnAmple == IInv /\ Ample /\ WriteOn => Ample'
  <1> SUFFICES ASSUME IInv, Ample, WriteOn PROVE Ample'
    OBVIOUS
  <1>1. /\ Write(count) /\ stage = "writing" /\ stage' = "ready"
        /\ UNCHANGED <<names, limit, cut, first, lowered>>
    BY DEF WriteOn
  <1>2. handle = "open" => 0 \in names
    BY <1>1 DEF IInv, TypeOK
  <1> QED
    BY <1>1, <1>2, WriteAmple

LEMMA RemoveAmple == IInv /\ Ample /\ RemoveOverflow => Ample'
  <1> SUFFICES ASSUME IInv, Ample, RemoveOverflow, clean, ~ lowered PROVE Ample'
    BY DEF Ample, RemoveOverflow, past
  <1>1. /\ stage = "removing" /\ stage' = "opening"
        /\ names' = names \ {limit + 1} /\ file' = [file EXCEPT ![limit + 1] = {}]
        /\ UNCHANGED <<limit, wrote, cut, clean, first, lowered>>
    BY DEF RemoveOverflow, past
  <1>2. limit \in Limits /\ limit \in Nat /\ limit + 1 \in Files /\ cut \in Nat
    BY Indices DEF IInv, TypeOK
  <1>3. limit + 1 \notin names
    BY <1>2 DEF IInv, Tidy
  <1>4. names' = names /\ \A k \in names : file'[k] = file[k]
    BY <1>1, <1>3 DEF IInv, TypeOK
  <1>5. Kept' = Kept
    BY <1>4 DEF Kept
  <1>6. names' \subseteq Files
    BY <1>4 DEF IInv, TypeOK
  <1> QED
    BY <1>1, <1>2, <1>4, <1>5, <1>6, PathOnly

LEMMA ReopenAmple == IInv /\ Ample /\ Reopen => Ample'
  <1> SUFFICES ASSUME IInv, Ample, Reopen, clean', ~ lowered' PROVE Ample'
    BY DEF Ample
  <1>1. /\ stage = "opening" /\ stage' = "writing" /\ names' = names \cup {0} /\ clean /\ ~ lowered
        /\ UNCHANGED <<file, limit, wrote, cut, first, lowered>>
    BY DEF Reopen
  <1>2. limit \in Limits /\ limit \in Nat /\ cut \in Nat
    BY Indices DEF IInv, TypeOK
  <1>3. Kept' = Kept /\ names' \subseteq Files
    BY <1>1, CreateKeeps DEF IInv
  <1> QED
    BY <1>1, <1>2, <1>3, PathOnly

LEMMA StartAmple == IInv /\ Ample /\ NewFileEmitter => Ample'
  <1> SUFFICES ASSUME IInv, Ample, NewFileEmitter, clean', ~ lowered' PROVE Ample'
    BY DEF Ample
  <1>1. /\ stage = "down" /\ stage' = "ready" /\ names' = names \cup {0} /\ clean /\ ~ lowered
        /\ limit' \in Limits /\ ~ (limit' < limit)
        /\ UNCHANGED <<file, wrote, cut, first>>
    BY DEF NewFileEmitter
  <1>2. limit <= limit' /\ cut \in Nat
    BY <1>1, Indices DEF IInv, TypeOK
  <1>3. Kept' = Kept /\ names' \subseteq Files
    BY <1>1, CreateKeeps DEF IInv
  <1> QED
    BY <1>1, <1>2, <1>3, PathOnly

\* A stop inside rotate leaves one gap more, and path is not rotated.
LEMMA StopAmple == IInv /\ Ample /\ Stop => Ample'
  <1> SUFFICES ASSUME IInv, Ample, Stop, clean, ~ lowered PROVE Ample'
    BY DEF Ample, Stop
  <1>0. /\ stage' = "down" /\ cut' = IF stage = "ready" THEN cut ELSE cut + 1
        /\ UNCHANGED <<names, file, limit, at, wrote, clean, first, lowered>>
        /\ limit \in Limits /\ limit \in Nat /\ cut \in Nat /\ first \in Nat
        /\ names \subseteq Files
    BY Indices DEF Stop, shape, IInv, TypeOK
  <1>1. Kept' = Kept
    BY <1>0 DEF Kept
  <1>2. CASE stage # "shifting"
    BY <1>0, <1>1, <1>2, PathOnly
  <1>3. CASE stage = "shifting"
    <2>1. 0 \in names /\ Full = names /\ cut' = cut + 1 /\ at + 1 \in Files
      BY <1>0, <1>3, Indices DEF Ample, Full, IInv, TypeOK
    <2>2. Full' = Full \ {0}
      BY <1>0, <1>3, <2>1 DEF Full
    <2>3. /\ Gaps \subseteq Files /\ Gaps \cup {at + 1} \subseteq Files
          /\ Gaps' \in SUBSET (Gaps \cup {at + 1})
      BY <1>0, <1>3, <2>1 DEF Gaps
    <2>4. Cardinality(Full') = Cardinality(Full) - 1 /\ Cardinality(Full) \in Nat
      <3>1. IsFiniteSet(Full) /\ Cardinality(Full) \in Nat
        BY <1>0, <2>1, FilesAreFew
      <3>2. Cardinality(Full \ {0})
              = IF 0 \in Full THEN Cardinality(Full) - 1 ELSE Cardinality(Full)
        BY <3>1, FS_RemoveElement
      <3> QED
        BY <2>1, <2>2, <3>1, <3>2
    <2>5. Cardinality(Gaps') <= Cardinality(Gaps) + 1
      <3>1. IsFiniteSet(Gaps) /\ Cardinality(Gaps) \in Nat
        BY <2>3, FilesAreFew
      <3>2. Cardinality(Gaps \cup {at + 1})
              = IF at + 1 \in Gaps THEN Cardinality(Gaps) ELSE Cardinality(Gaps) + 1
        BY <3>1, FS_AddElement
      <3>3. Cardinality(Gaps') <= Cardinality(Gaps \cup {at + 1})
        BY <2>3, FilesAreFew
      <3>4. Cardinality(Gaps') \in Nat
        BY <2>3, FilesAreFew
      <3> QED
        BY <3>1, <3>2, <3>3, <3>4
    <2>6. Cardinality(Gaps) \in Nat /\ Cardinality(Gaps') \in Nat
      BY <2>3, FilesAreFew
    <2>7. Cardinality(Gaps') <= cut' /\ (Kept' = wrote' \/ Cardinality(Full') >= first - cut')
      BY <1>0, <1>1, <2>1, <2>4, <2>5, <2>6 DEF Ample
    <2>8. \A k \in Full' : Cardinality(file'[k]) >= Size
      BY <1>0, <2>2 DEF Ample
    <2> QED
      BY <1>0, <2>7, <2>8 DEF Ample
  <1> QED
    BY <1>2, <1>3

\* A rename moves a full file; of nothing, it moves the gap the next is to
\* fill; and over the oldest it is made when all the places are taken, but for
\* the gaps.
LEMMA ShiftAmple == IInv /\ Ample /\ Shift => Ample'
  <1> SUFFICES ASSUME IInv, Ample, Shift, clean', ~ lowered PROVE Ample'
    BY DEF Ample, Shift
  <1>0. /\ at \in 0 .. MaxFiles - 1 /\ at \in Files /\ at \in Nat /\ at + 1 \in Files /\ at + 1 # at
        /\ limit \in Limits /\ limit \in Nat /\ cut \in Nat /\ first \in Nat /\ at < limit
        /\ first <= limit /\ stage = "shifting" /\ 0 \in names /\ names \subseteq Files
        /\ (at = 0 => stage' = "removing") /\ (at # 0 => stage' = "shifting" /\ at' + 1 = at)
        /\ UNCHANGED <<limit, wrote, cut, clean, first, lowered>>
    <2>1. clean
      BY DEF Shift, Rename
    <2>2. first <= limit /\ 0 \in names
      BY <2>1 DEF Ample, Shift
    <2>3. clean' = clean
      BY <2>1
    <2>4. at # 0 => at - 1 + 1 = at
      BY DEF IInv, TypeOK
    <2> QED
      BY <2>2, <2>3, <2>4, Indices DEF IInv, TypeOK, Shift
  <1>1. Full = names /\ Gaps \subseteq Files /\ Cardinality(Gaps) <= cut
    BY <1>0 DEF Full, Gaps, Ample
  <1>2. \A k \in Files : k \in Nat
    BY RotationAssumption DEF Files
  <1>3. Cardinality(Full) \in Nat /\ Cardinality(Gaps) \in Nat
    BY <1>0, <1>1, FilesAreFew
  <1>4. CASE at \notin names
    <2>1. UNCHANGED <<names, file>> /\ stage' = "shifting" /\ at' + 1 = at
      BY <1>0, <1>4 DEF Shift, Rename, shape
    <2>2. Full' = Full /\ Kept' = Kept
      BY <1>0, <2>1 DEF Full, Kept
    <2>3. Gaps' \subseteq Files /\ Cardinality(Gaps') <= Cardinality(Gaps)
      <3>1. Gaps' \subseteq Files
        BY DEF Gaps
      <3>2. CASE at + 1 \in Gaps'
        <4>1. at \in Gaps /\ at + 1 \notin Gaps
          <5>1. PICK j \in names : at + 1 < j
            BY <2>1, <3>2 DEF Gaps
          <5>2. at < j /\ at # 0
            BY <1>0, <1>2, <1>4, <5>1
          <5> QED
            BY <1>0, <1>4, <5>1, <5>2 DEF Gaps
        <4>2. /\ Gaps' \subseteq (Gaps \ {at}) \cup {at + 1}
              /\ (Gaps \ {at}) \cup {at + 1} \subseteq Files
          BY <1>0, <1>1, <2>1 DEF Gaps
        <4>3. Cardinality((Gaps \ {at}) \cup {at + 1}) = Cardinality(Gaps)
          BY <1>0, <1>1, <4>1, Exchange
        <4> QED
          BY <3>1, <4>2, <4>3, FilesAreFew
      <3>3. CASE at + 1 \notin Gaps'
        <4>1. Gaps' \in SUBSET Gaps
          BY <1>0, <2>1, <3>3 DEF Gaps
        <4> QED
          BY <1>1, <3>1, <4>1, FilesAreFew
      <3> QED
        BY <3>2, <3>3
    <2>4. Cardinality(Gaps') \in Nat
      BY <2>3, FilesAreFew
    <2>5. Cardinality(Gaps') <= cut
      BY <1>0, <1>1, <1>3, <2>3, <2>4
    <2> QED
      BY <1>0, <2>1, <2>2, <2>5 DEF Ample
  <1>5. CASE at \in names
    <2>1. /\ names' = (names \ {at}) \cup {at + 1}
          /\ file' = [file EXCEPT ![at + 1] = file[at], ![at] = {}]
      BY <1>0, <1>5 DEF Shift, Rename
    <2>2. \A k \in Files :
              file'[k] = IF k = at THEN {} ELSE IF k = at + 1 THEN file[at] ELSE file[k]
      BY <1>0, <2>1 DEF IInv, TypeOK
    <2>3. Full' = (names \ {at}) \cup {at + 1} /\ Full' \subseteq Files
      <3>1. at = 0 => 0 \notin names'
        BY <1>0, <2>1
      <3>2. Full' = names'
        BY <1>0, <3>1 DEF Full
      <3> QED
        BY <1>0, <2>1, <3>2
    <2>4. \A k \in Full' : Cardinality(file'[k]) >= Size
      BY <1>0, <1>1, <1>5, <2>2, <2>3 DEF Ample
    <2>5. Gaps' \in SUBSET Gaps
      <3> SUFFICES ASSUME NEW k \in Gaps' PROVE k \in Gaps
        OBVIOUS
      <3>1. k \in Files /\ k # 0 /\ k \notin names'
        BY DEF Gaps
      <3>2. k # at /\ k # at + 1 /\ k \notin names
        <4>1. CASE k = at
          BY <1>0, <3>1, <4>1 DEF Gaps
        <4>2. CASE k # at
          BY <2>1, <3>1, <4>2
        <4> QED
          BY <4>1, <4>2
      <3>3. \E j \in names : k < j
        <4>1. PICK j \in names' : k < j
          BY DEF Gaps
        <4>2. CASE j \in names
          BY <4>1, <4>2
        <4>3. CASE j = at + 1
          <5>1. k < at
            BY <1>0, <1>2, <3>1, <3>2, <4>1, <4>3
          <5> QED
            BY <1>5, <5>1
        <4> QED
          BY <2>1, <4>1, <4>2, <4>3
      <3> QED
        BY <3>1, <3>2, <3>3 DEF Gaps
    <2>6. Cardinality(Gaps') <= cut
      <3>1. Cardinality(Gaps') <= Cardinality(Gaps) /\ Cardinality(Gaps') \in Nat
        BY <1>1, <2>5, FilesAreFew
      <3> QED
        BY <1>0, <1>1, <1>3, <3>1
    <2>7. Kept' = wrote' \/ Cardinality(Full') >= first - cut
      <3>1. CASE at + 1 \notin names
        <4>1. Cardinality(Full') = Cardinality(Full)
          BY <1>0, <1>1, <1>5, <2>3, <3>1, Exchange
        <4>2. Kept' = Kept
          <5>1. Kept' \subseteq Kept
            <6> SUFFICES ASSUME NEW k \in names', NEW s \in file'[k] PROVE s \in Kept
              BY DEF Kept
            <6>1. CASE k = at + 1
              BY <1>0, <1>5, <2>2, <6>1 DEF Kept
            <6>2. CASE k # at + 1
              BY <1>0, <2>1, <2>2, <6>2 DEF Kept
            <6> QED
              BY <6>1, <6>2
          <5>2. Kept \subseteq Kept'
            <6> SUFFICES ASSUME NEW k \in names, NEW s \in file[k] PROVE s \in Kept'
              BY DEF Kept
            <6>1. CASE k = at
              <7>1. at + 1 \in names' /\ s \in file'[at + 1]
                BY <1>0, <2>1, <2>2, <6>1
              <7> QED
                BY <7>1 DEF Kept
            <6>2. CASE k # at
              <7>1. k \in names' /\ s \in file'[k]
                BY <1>0, <2>1, <2>2, <3>1, <6>2
              <7> QED
                BY <7>1 DEF Kept
            <6> QED
              BY <6>1, <6>2
          <5> QED
            BY <5>1, <5>2
        <4> QED
          BY <1>0, <4>1, <4>2 DEF Ample
      <3>2. CASE at + 1 \in names
        <4>1. at + 1 = limit
          BY <1>0, <3>2 DEF IInv, Tidy
        <4>2. Full' = names \ {at}
          BY <1>0, <2>3, <3>2
        <4>3. IsFiniteSet(names) /\ Cardinality(names) \in Nat
          BY <1>0, FilesAreFew
        <4>4. Cardinality(Full') = Cardinality(names) - 1
          <5>1. Cardinality(names \ {at})
                  = IF at \in names THEN Cardinality(names) - 1 ELSE Cardinality(names)
            BY <4>3, FS_RemoveElement
          <5> QED
            BY <1>5, <4>2, <5>1
        <4>5. 0 .. limit \subseteq names \cup Gaps
          <5> SUFFICES ASSUME NEW k \in 0 .. limit, k \notin names PROVE k \in Gaps
            OBVIOUS
          <5>1. k # 0 /\ k # at + 1
            BY <1>0, <3>2
          <5>2. k < at + 1
            BY <1>0, <4>1, <5>1
          <5>3. limit + 1 \in Files /\ k \in Files
            BY <1>0, Indices, RotationAssumption DEF Files
          <5> QED
            BY <3>2, <5>1, <5>2, <5>3 DEF Gaps
        <4>6. Cardinality(names) + Cardinality(Gaps) >= limit + 1
          <5>1. IsFiniteSet(Gaps)
            BY <1>1, FilesAreFew
          <5>2. /\ IsFiniteSet(names \cup Gaps)
                /\ Cardinality(names \cup Gaps)
                     = Cardinality(names) + Cardinality(Gaps) - Cardinality(names \cap Gaps)
            BY <4>3, <5>1, FS_Union
          <5>3. Cardinality(names \cap Gaps) \in Nat
            BY <4>3, FS_Intersection, FS_CardinalityType
          <5>4. Cardinality(0 .. limit) <= Cardinality(names \cup Gaps)
            BY <4>5, <5>2, FS_Subset
          <5>5. Cardinality(0 .. limit) = IF 0 > limit THEN 0 ELSE limit - 0 + 1
            BY <1>0, FS_Interval
          <5>6. Cardinality(0 .. limit) = limit + 1
            BY <1>0, <5>5
          <5> QED
            BY <1>0, <1>3, <4>3, <5>2, <5>3, <5>4, <5>6
        <4> QED
          BY <1>0, <1>1, <1>3, <4>3, <4>4, <4>6
      <3> QED
        BY <3>1, <3>2
    <2>8. stage' = "shifting" => 0 \in names'
      BY <1>0, <2>1
    <2> QED
      BY <1>0, <2>4, <2>6, <2>7, <2>8 DEF Ample
  <1> QED
    BY <1>4, <1>5

LEMMA StepAmple == IInv /\ Ample /\ [Next]_vars => Ample'
  <1> SUFFICES ASSUME IInv, Ample, [Next]_vars PROVE Ample'
    OBVIOUS
  <1>1. CASE UNCHANGED vars
    BY <1>1 DEF vars, shape, past, Ample, Full, Gaps, Kept
  <1> QED
    BY <1>1, EmitAmple, ShiftAmple, RemoveAmple, ReopenAmple, WriteOnAmple, StopAmple,
       StartAmple DEF Next

\* Without a failure or a lowered max_files, as many full files are there as
\* max_files says before one of them goes, less one at most for every stop
\* inside rotate (rotate; docs/audit.md).
THEOREM EnoughIsKept == Spec => []EnoughKept
  <1> QED
    BY InitIInv, StepIInv, InitAmple, StepAmple, AmpleIsEnough, PTL DEF Spec
=============================================================================
