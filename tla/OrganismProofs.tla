--------------------------- MODULE OrganismProofs ---------------------------
(***************************************************************************)
(* What an organism's container promises, for any inputs, steps, passes,   *)
(* tries and epochs, wherever it is killed.  LibrariesInv: the marker says *)
(* that this epoch's libraries are installed only when they are.           *)
(* SummaryInv: a flush that was cut off can lose lines of an earlier       *)
(* container only, and a result is written once all lines of its own       *)
(* container are in a summary, of the outbox or of the store.              *)
(***************************************************************************)
EXTENDS Organism, TLAPS

Launching == {"launching", "installing", "replacing", "marking"}
Flushing == {"pointing", "logging"}
Flushed == {"progress", "candidate", "result", "leaving", "concluding"}
Running == {"running", "stepping", "flushing"} \cup Flushing \cup Flushed

\* The lines that are in a summary, of the outbox or of the store.
Logged == UNION {outbox[i] : i \in DOMAIN outbox}
Summarised == stored \cup Logged

TypeOK ==
    /\ epoch \in Nat \ {0} /\ need \in Inputs /\ phase \in {"epoch", "adaptation"}
    /\ at \in {"idle", "exited"} \cup Launching \cup Running
    /\ first \in Nat /\ from \in Nat /\ lines \in Nat
    /\ outbox \in Seq(SUBSET Nat) /\ stored \in SUBSET Nat
    /\ verdict \in {"open", "accepted", "failed"}
    /\ file = [f \in Files |-> file[f]]

\* The libraries of this epoch's genome, complete.
Fresh == [of |-> need, epoch |-> epoch, whole |-> TRUE]

LibrariesInv ==
    /\ file["marker"].is = "whole" => \E n \in Inputs, e \in 1..epoch : file["marker"] = Whole(<<n, e>>)
    /\ file["marker"] = Whole(<<need, epoch>>) => deps = Fresh
    /\ at \in {"installing", "replacing"} => file["marker"] # Whole(<<need, epoch>>)
    /\ at = "installing" => staging = [of |-> need, epoch |-> epoch, whole |-> FALSE]
    /\ at = "replacing" => staging = Fresh
    /\ at = "marking" => deps = Fresh
    /\ at \in Running /\ need # "base" => deps = Fresh

\* Every line after the first ones, up to the last, is in a summary.
Covered(summaries, a, b) == (a + 1)..b \subseteq summaries
Reached(n) == n <= first \/ Covered(Summarised, first, n)

\* How far a container's own lines are summarised when it gets to a point.
CursorInv ==
    /\ file["cursor"].is = "whole" => file["cursor"].holds \in 0..lines
    /\ at \notin {"idle", "exited"} => first <= lines
    /\ phase = "epoch" =>
          /\ at \notin {"idle", "exited"} \cup Flushing /\ file["cursor"].is = "whole" => Reached(file["cursor"].holds)
          /\ at \in Flushing => Reached(from)
          /\ at \in Flushed => Reached(lines)

\* What a result is about, and when the kernel has judged it.
ResultInv ==
    /\ file["result"].is = "whole" =>
          LET work == file["result"].holds
          IN  /\ work.first \in Nat /\ work.last \in Nat
              /\ verdict = "open" => Covered(Summarised, work.first, work.last)
    /\ phase = "epoch" /\ verdict # "open" => at = "idle"
    /\ phase = "adaptation" => verdict = "accepted" /\ at \notin {"result", "concluding"}

SummaryInv == CursorInv /\ ResultInv
OrganismInv == TypeOK /\ LibrariesInv /\ SummaryInv
-----------------------------------------------------------------------------
\* What a file can be told from.
LEMMA FilesDiffer ==
  /\ Torn.is = "torn" /\ Absent.is = "absent"
  /\ \A c : Whole(c).is = "whole" /\ Whole(c).holds = c
BY DEF Torn, Absent, Whole

\* What pip has filled.
LEMMA Completed ==
  ASSUME NEW n, NEW e
  PROVE  [[of |-> n, epoch |-> e, whole |-> FALSE] EXCEPT !.whole = TRUE] = [of |-> n, epoch |-> e, whole |-> TRUE]
<1> DEFINE s == [of |-> n, epoch |-> e, whole |-> FALSE]
           t == [s EXCEPT !.whole = TRUE]
<1>1. t \in [of : {n}, epoch : {e}, whole : {TRUE}]
  <2>1. s \in [of : {n}, epoch : {e}, whole : BOOLEAN]
    OBVIOUS
  <2> QED BY <2>1
<1>2. t = [of |-> n, epoch |-> e, whole |-> TRUE]
  <2> HIDE DEF t
  <2> QED BY <1>1
<1> QED BY <1>2

LEMMA Grows ==
  ASSUME NEW S, NEW T, S \subseteq T, NEW a, NEW b, Covered(S, a, b)
  PROVE  Covered(T, a, b)
BY DEF Covered

\* One of the two steps of writing a file.
LEMMA Written ==
  ASSUME TypeOK, NEW f \in Files, NEW content, NEW next, Write(f, content, next)
  PROVE  /\ file' = [g \in Files |-> file'[g]]
         /\ \A g \in Files \ {f} : file'[g] = file[g]
         /\ \/ file'[f] = Whole(content) /\ at' = next
            \/ file'[f] = Torn /\ at' = at
<1>1. CASE open
  BY <1>1 DEF Write, TypeOK
<1>2. CASE ~open
  BY <1>2 DEF Write, TypeOK
<1> QED BY <1>1, <1>2

LEMMA OrganismInitially == Init => OrganismInv
<1> SUFFICES ASSUME Init PROVE OrganismInv
  OBVIOUS
<1>1. TypeOK
  BY DEF Init, TypeOK
<1>2. \A f \in Files : file[f] = Absent
  BY DEF Init
<1>3. \A f \in Files : file[f].is = "absent"
  BY <1>2, FilesDiffer
<1>4. LibrariesInv
  BY <1>3, FilesDiffer DEF Init, LibrariesInv, Files, Running, Flushing, Flushed
<1>5. SummaryInv
  BY <1>3 DEF Init, SummaryInv, CursorInv, ResultInv, Files, Flushing, Flushed
<1> QED BY <1>1, <1>4, <1>5 DEF OrganismInv
-----------------------------------------------------------------------------
(* The launcher. *)

LauncherStep == Start \/ Launch \/ Install \/ Replace \/ Mark

LEMMA LauncherMoves ==
  ASSUME OrganismInv, LauncherStep
  PROVE  /\ TypeOK'
         /\ UNCHANGED <<epoch, need, phase, lines, outbox, stored, verdict, file["cursor"], file["result"]>>
         /\ at' \in Launching \cup {"running", "exited"}
         /\ (at \in Launching /\ first' = first) \/ (at = "idle" /\ first' = lines /\ verdict = "open" /\ UNCHANGED file)
<1> USE DEF OrganismInv, plan, clock, libraries, activity
<1>1. CASE Start
  BY <1>1 DEF Start, TypeOK, Launching
<1>2. CASE Launch \/ Install \/ Replace
  BY <1>2 DEF Launch, Install, Replace, TypeOK, Launching, Running
<1>3. CASE Mark
  <2>1. Write("marker", <<need, epoch>>, "running") /\ "marker" \in Files
    BY <1>3 DEF Mark, Files
  <2>2. /\ file' = [g \in Files |-> file'[g]] /\ \A g \in Files \ {"marker"} : file'[g] = file[g]
        /\ at' \in {"running", "marking"}
    BY <1>3, <2>1, Written DEF Mark
  <2> QED BY <1>3, <2>2 DEF Mark, TypeOK, Launching, Running, Files
<1> QED BY <1>1, <1>2, <1>3 DEF LauncherStep

LEMMA LauncherSummarised ==
  ASSUME OrganismInv, LauncherStep
  PROVE  Summarised' = Summarised
<1>1. UNCHANGED <<outbox, stored>>
  BY LauncherMoves
<1> QED BY <1>1 DEF Summarised, Logged

\* A marker of this epoch is there only after its libraries are.
LEMMA LauncherLibraries ==
  ASSUME OrganismInv, LauncherStep
  PROVE  LibrariesInv'
<1> USE DEF OrganismInv, plan, clock, libraries, activity
<1>1. TypeOK /\ LibrariesInv /\ UNCHANGED <<need, epoch>> /\ Fresh' = Fresh /\ at' \in Launching \cup {"running", "exited"}
  BY LauncherMoves DEF Fresh
<1>2. CASE Start
  <2>1. UNCHANGED <<file, deps, staging>> /\ at' = "launching"
    BY <1>2 DEF Start
  <2> QED BY <1>1, <2>1 DEF LibrariesInv, Running, Flushing, Flushed
<1>3. CASE Launch
  <2>1. UNCHANGED <<file, deps>>
    BY <1>3 DEF Launch
  <2>2. \/ at' = "running" /\ (need = "base" \/ Installed)
        \/ at' = "exited"
        \/ at' = "installing" /\ ~Installed /\ staging' = [of |-> need, epoch |-> epoch, whole |-> FALSE]
    BY <1>3 DEF Launch, Fresh
  <2>3. Fresh # NoLibraries
    BY DEF Fresh, NoLibraries
  <2> QED BY <1>1, <2>1, <2>2, <2>3 DEF LibrariesInv, Running, Flushing, Flushed, Installed
<1>4. CASE Install
  <2>1. UNCHANGED <<file, deps>> /\ at = "installing" /\ staging = [of |-> need, epoch |-> epoch, whole |-> FALSE]
    BY <1>1, <1>4 DEF Install, LibrariesInv
  <2>2. [staging EXCEPT !.whole = TRUE] = Fresh
    BY <2>1, Completed DEF Fresh
  <2>3. (at' = "replacing" /\ staging' = Fresh) \/ at' = "exited"
    BY <1>4, <2>2 DEF Install
  <2> QED BY <1>1, <2>1, <2>3 DEF LibrariesInv, Running, Flushing, Flushed
<1>5. CASE Replace
  <2>1. file' = file /\ at = "replacing" /\ staging = Fresh /\ file["marker"] # Whole(<<need, epoch>>)
    BY <1>1, <1>5 DEF Replace, LibrariesInv
  <2>2. \/ at' = "replacing" /\ staging' = staging
        \/ at' = "marking" /\ deps' = Fresh
    BY <1>5, <2>1 DEF Replace
  <2> QED BY <1>1, <2>1, <2>2 DEF LibrariesInv, Running, Flushing, Flushed
<1>6. CASE Mark
  <2>1. /\ Write("marker", <<need, epoch>>, "running") /\ "marker" \in Files
        /\ deps = Fresh /\ deps' = deps /\ at = "marking"
    BY <1>1, <1>6 DEF Mark, Files, LibrariesInv
  <2>2. \/ file'["marker"] = Whole(<<need, epoch>>) /\ at' = "running"
        \/ file'["marker"] = Torn /\ at' = "marking"
    BY <1>1, <2>1, Written
  <2>3. file'["marker"].is = "whole" => file'["marker"] = Whole(<<need, epoch>>) /\ need \in Inputs /\ epoch \in 1..epoch
    BY <1>1, <2>2, FilesDiffer DEF TypeOK
  <2> QED BY <1>1, <2>1, <2>2, <2>3 DEF LibrariesInv, Running, Flushing, Flushed
<1> QED BY <1>2, <1>3, <1>4, <1>5, <1>6 DEF LauncherStep

\* Before a container's first line nothing of it is to be summarised.
LEMMA LauncherSummary ==
  ASSUME OrganismInv, LauncherStep
  PROVE  SummaryInv'
<1> USE DEF OrganismInv, SummaryInv
<1>1. /\ TypeOK /\ at' \notin Flushing \cup Flushed \cup {"idle"} /\ at \notin Flushing \cup Flushed
      /\ at \in {"idle"} \cup Launching
  BY LauncherMoves DEF Launching, Flushing, Flushed
<1>2. CursorInv'
  <2>1. CASE at \in Launching /\ first' = first
    <3>1. \A n : Reached(n) => Reached(n)'
      BY <2>1, LauncherSummarised DEF Reached
    <3> QED BY <1>1, <2>1, <3>1, LauncherMoves DEF CursorInv, Launching
  <2>2. CASE first' = lines
    <3>1. \A n \in 0..lines : Reached(n)'
      BY <1>1, <2>2, LauncherMoves DEF Reached, TypeOK
    <3> QED BY <1>1, <2>2, <3>1, LauncherMoves DEF CursorInv, TypeOK
  <2> QED BY <2>1, <2>2, LauncherMoves
<1>3. ResultInv'
  BY <1>1, LauncherMoves, LauncherSummarised DEF ResultInv, Flushed, Launching
<1> QED BY <1>2, <1>3
-----------------------------------------------------------------------------
(* A pass. *)

PassStep == \/ BeginPass \/ Step \/ MaxStepsReached
            \/ ReadCursor \/ WriteCursor \/ LogActivity
            \/ WriteProgress \/ WriteCandidate \/ WriteResult \/ WriteLast \/ WriteLastResult

\* A record more in the outbox.
LEMMA Appended ==
  ASSUME outbox \in Seq(SUBSET Nat), NEW record \in SUBSET Nat, outbox' = Append(outbox, record)
  PROVE  outbox' \in Seq(SUBSET Nat) /\ Logged \subseteq Logged' /\ record \subseteq Logged'
<1>1. outbox' \in Seq(SUBSET Nat) /\ Len(outbox) \in Nat /\ Len(outbox') = Len(outbox) + 1
  OBVIOUS
<1>2. DOMAIN outbox = 1..Len(outbox) /\ DOMAIN outbox' = 1..(Len(outbox) + 1)
  BY <1>1
<1>3. /\ \A i \in 1..Len(outbox) : outbox'[i] = outbox[i]
      /\ outbox'[Len(outbox) + 1] = record
  OBVIOUS
<1>4. \A i \in DOMAIN outbox : i \in DOMAIN outbox' /\ outbox'[i] = outbox[i]
  BY <1>1, <1>2, <1>3
<1>5. Len(outbox) + 1 \in DOMAIN outbox'
  BY <1>1, <1>2
<1> QED BY <1>1, <1>3, <1>4, <1>5 DEF Logged

\* What is summarised once stays so, wherever the broker's answer went.
LEMMA Logging ==
  ASSUME TypeOK, LogActivity
  PROVE  /\ Summarised \subseteq Summarised'
         /\ phase = "epoch" => Summary \subseteq Summarised'
         /\ stored' \in SUBSET Nat /\ outbox' \in Seq(SUBSET Nat)
<1> USE DEF Summarised
<1>1. Summary \in SUBSET Nat
  BY DEF TypeOK, Summary
<1>2. CASE phase = "adaptation"
  BY <1>2 DEF LogActivity, activity, TypeOK, Logged
<1>3. CASE phase = "epoch"
  <2>1. PICK served \in BOOLEAN, answered \in BOOLEAN :
           /\ answered => served
           /\ stored' = IF served THEN stored \cup Summary ELSE stored
           /\ outbox' = IF answered THEN outbox ELSE Append(outbox, Summary)
    BY <1>3 DEF LogActivity, Kept
  <2>2. CASE answered
    BY <1>1, <2>1, <2>2 DEF TypeOK, Logged
  <2>3. CASE ~answered
    <3>1. outbox' = Append(outbox, Summary)
      BY <2>1, <2>3
    <3>2. outbox' \in Seq(SUBSET Nat) /\ Logged \subseteq Logged' /\ Summary \subseteq Logged'
      BY <1>1, <3>1, Appended DEF TypeOK
    <3> QED BY <1>1, <2>1, <3>2 DEF TypeOK
  <2> QED BY <2>2, <2>3
<1> QED BY <1>2, <1>3 DEF TypeOK

LEMMA PassMoves ==
  ASSUME OrganismInv, PassStep
  PROVE  /\ TypeOK'
         /\ UNCHANGED <<epoch, need, phase, verdict, deps, staging, first, file["marker"]>>
         /\ at \in Running /\ at' \in Running \cup {"exited"}
         /\ lines <= lines' /\ (at = "stepping" \/ lines' = lines)
         /\ Summarised \subseteq Summarised'
         /\ at = "pointing" \/ UNCHANGED file["cursor"]
         /\ at \in {"result", "concluding"} \/ UNCHANGED file["result"]
<1> USE DEF OrganismInv, plan, clock, libraries, activity
<1>1. CASE BeginPass \/ Step \/ MaxStepsReached \/ ReadCursor
  <2>1. /\ UNCHANGED <<plan, libraries, file, stored, verdict, first>>
        /\ at \in Running /\ at' \in Running \cup {"exited"}
        /\ lines' \in {lines, lines + 1} /\ (at = "stepping" \/ lines' = lines)
    BY <1>1 DEF BeginPass, Step, MaxStepsReached, ReadCursor, Running, Flushing
  <2>2. from' \in Nat
    BY <1>1 DEF BeginPass, Step, MaxStepsReached, ReadCursor, TypeOK, SummaryInv, CursorInv
  <2>3. outbox' = outbox \/ outbox' = Append(outbox, {})
    BY <1>1 DEF BeginPass, Step, MaxStepsReached, ReadCursor, Note
  <2>4. outbox' \in Seq(SUBSET Nat) /\ Logged \subseteq Logged'
    <3>1. CASE outbox' = outbox
      BY <3>1 DEF TypeOK, Logged
    <3>2. CASE outbox' = Append(outbox, {})
      <4>1. outbox \in Seq(SUBSET Nat) /\ {} \in SUBSET Nat
        BY DEF TypeOK
      <4> QED BY <3>2, <4>1, Appended
    <3> QED BY <2>3, <3>1, <3>2
  <2> QED BY <2>1, <2>2, <2>4 DEF TypeOK, Summarised
<1>2. CASE LogActivity
  <2>1. /\ UNCHANGED <<plan, libraries, file, verdict, first, lines>> /\ from' = 0
        /\ at \in Running /\ at' \in Running
    BY <1>2 DEF LogActivity, Running, Flushing, Flushed
  <2> QED BY <1>2, <2>1, Logging DEF TypeOK
<1>3. ASSUME NEW f \in Files, NEW content, NEW next \in Running \cup {"exited"}, Write(f, content, next),
             UNCHANGED <<plan, first, from, lines, libraries, activity, verdict>>,
             f # "marker", at \in Running,
             f = "cursor" => at = "pointing", f = "result" => at \in {"result", "concluding"}
      PROVE  /\ TypeOK'
             /\ UNCHANGED <<epoch, need, phase, verdict, deps, staging, first, file["marker"]>>
             /\ at \in Running /\ at' \in Running \cup {"exited"}
             /\ lines <= lines' /\ (at = "stepping" \/ lines' = lines)
             /\ Summarised \subseteq Summarised'
             /\ at = "pointing" \/ UNCHANGED file["cursor"]
             /\ at \in {"result", "concluding"} \/ UNCHANGED file["result"]
  <2>1. /\ file' = [g \in Files |-> file'[g]] /\ \A g \in Files \ {f} : file'[g] = file[g]
        /\ at' \in {next, at}
    BY <1>3, Written
  <2>2. Summarised' = Summarised
    <3>1. UNCHANGED <<outbox, stored>>
      BY <1>3
    <3> QED BY <3>1 DEF Summarised, Logged
  <2>3. UNCHANGED <<epoch, need, phase, verdict, deps, staging, first, from, lines, outbox, stored>>
    BY <1>3
  <2>4. TypeOK'
    BY <1>3, <2>1, <2>3 DEF TypeOK
  <2>5. Summarised \subseteq Summarised' /\ lines <= lines'
    BY <2>2, <2>3 DEF TypeOK
  <2> QED BY <1>3, <2>1, <2>3, <2>4, <2>5 DEF Files
<1> USE DEF Running, Flushing, Flushed, Files
<1>4. CASE WriteCursor
  BY <1>3, <1>4 DEF WriteCursor
<1>5. CASE WriteProgress
  BY <1>3, <1>5 DEF WriteProgress
<1>6. CASE WriteCandidate
  <2> DEFINE next == IF phase = "epoch" THEN "result" ELSE "leaving"
  <2>1. next \in Running
    OBVIOUS
  <2>2. Write("candidate", "answer", next)
    BY <1>6 DEF WriteCandidate
  <2> HIDE DEF next
  <2> QED BY <1>3, <1>6, <2>1, <2>2 DEF WriteCandidate
<1>7. CASE WriteResult
  <2> DEFINE next == IF pass >= MaxPasses \/ time > 0 THEN "leaving" ELSE "running"
  <2>1. next \in Running
    OBVIOUS
  <2>2. Write("result", [first |-> first, last |-> lines], next)
    BY <1>7 DEF WriteResult
  <2> HIDE DEF next
  <2> QED BY <1>3, <1>7, <2>1, <2>2 DEF WriteResult
<1>8. CASE WriteLast
  <2> DEFINE next == IF phase = "epoch" THEN "concluding" ELSE "exited"
  <2>1. next \in Running \cup {"exited"}
    OBVIOUS
  <2>2. Write("candidate", "answer", next)
    BY <1>8 DEF WriteLast
  <2> HIDE DEF next
  <2> QED BY <1>3, <1>8, <2>1, <2>2 DEF WriteLast
<1>9. CASE WriteLastResult
  BY <1>3, <1>9 DEF WriteLastResult
<1> QED BY <1>1, <1>2, <1>4, <1>5, <1>6, <1>7, <1>8, <1>9 DEF PassStep

LEMMA PassLibraries ==
  ASSUME OrganismInv, PassStep
  PROVE  LibrariesInv'
<1>1. /\ LibrariesInv /\ Fresh' = Fresh
      /\ UNCHANGED <<epoch, need, deps, staging, file["marker"]>>
      /\ at \in Running /\ at' \in Running \cup {"exited"}
  BY PassMoves DEF OrganismInv, Fresh
<1> QED BY <1>1 DEF LibrariesInv, Running, Flushing, Flushed

\* What was reached stays reached, and everything before it is too.
LEMMA StaysReached ==
  ASSUME OrganismInv, first' = first, Summarised \subseteq Summarised',
         NEW n \in Nat, Reached(n), NEW m \in 0..n
  PROVE  Reached(m)'
<1>1. CASE n <= first
  BY <1>1 DEF Reached, OrganismInv, TypeOK
<1>2. CASE Covered(Summarised, first, n)
  <2>1. first \in Nat
    BY DEF OrganismInv, TypeOK
  <2>2. Covered(Summarised', first, n)
    BY <1>2, Grows
  <2>3. Covered(Summarised', first, m)
    BY <2>1, <2>2 DEF Covered
  <2> QED BY <2>3 DEF Reached
<1> QED BY <1>1, <1>2 DEF Reached

LEMMA PassCursor ==
  ASSUME OrganismInv, PassStep
  PROVE  CursorInv'
<1> USE DEF OrganismInv, SummaryInv
<1>1. /\ TypeOK /\ first' = first /\ phase' = phase /\ at \in Running /\ at' \in Running \cup {"exited"}
      /\ lines \in Nat /\ lines' \in Nat /\ lines <= lines'
      /\ Summarised \subseteq Summarised'
  BY PassMoves DEF TypeOK
<1>2. first <= lines /\ first' <= lines'
  BY <1>1 DEF CursorInv, TypeOK, Running, Flushing, Flushed
<1>3. \A n \in Nat : Reached(n) => \A m \in 0..n : Reached(m)'
  BY <1>1, StaysReached
<1>4. at = "pointing" \/ UNCHANGED file["cursor"]
  BY PassMoves
<1>5. CASE at = "pointing"
  <2>1. WriteCursor
    BY <1>5 DEF PassStep, BeginPass, Step, MaxStepsReached, ReadCursor, LogActivity,
                WriteProgress, WriteCandidate, WriteResult, WriteLast, WriteLastResult
  <2>2. Write("cursor", lines, "logging") /\ "cursor" \in Files /\ from' = from /\ lines' = lines
    BY <2>1 DEF WriteCursor, Files
  <2>3. \/ file'["cursor"] = Whole(lines) /\ at' = "logging"
        \/ file'["cursor"] = Torn /\ at' = "pointing"
    BY <1>1, <1>5, <2>2, Written
  <2>4. file'["cursor"].is = "whole" => file'["cursor"].holds = lines
    BY <2>3, FilesDiffer
  <2>5. phase = "epoch" => Reached(from)'
    BY <1>1, <1>3, <1>5, <2>2 DEF CursorInv, Flushing, TypeOK
  <2> QED BY <1>1, <1>2, <2>2, <2>3, <2>4, <2>5 DEF CursorInv, Flushing, Flushed
<1>6. CASE at = "logging"
  <2>1. LogActivity
    BY <1>6 DEF PassStep, BeginPass, Step, MaxStepsReached, ReadCursor, WriteCursor,
                WriteProgress, WriteCandidate, WriteResult, WriteLast, WriteLastResult
  <2>2. /\ at' = "progress" /\ lines' = lines
        /\ phase = "epoch" => Summary \subseteq Summarised' /\ Reached(from)
    BY <1>1, <1>6, <2>1, Logging DEF LogActivity, CursorInv, Flushing
  <2>3. from \in Nat /\ first \in Nat
    BY <1>1 DEF TypeOK
  <2>4. phase = "epoch" => Covered(Summarised', first, lines)
    <3> SUFFICES ASSUME phase = "epoch", NEW line \in (first + 1)..lines
                 PROVE  line \in Summarised'
      BY DEF Covered
    <3>1. CASE line <= from
      <4>1. Covered(Summarised, first, from)
        BY <1>1, <2>2, <2>3, <3>1 DEF Reached
      <4>2. line \in (first + 1)..from
        BY <1>1, <2>3, <3>1
      <4> QED BY <1>1, <4>1, <4>2 DEF Covered
    <3>2. CASE from < line
      <4>1. line \in Summary
        BY <1>1, <2>3, <3>2 DEF Summary
      <4> QED BY <2>2, <4>1
    <3> QED BY <1>1, <2>3, <3>1, <3>2
  <2>5. phase = "epoch" => \A n \in 0..lines : Reached(n)'
    BY <1>1, <2>3, <2>4 DEF Covered, Reached
  <2>6. UNCHANGED file["cursor"] /\ (file["cursor"].is = "whole" => file["cursor"].holds \in 0..lines)
    BY <1>4, <1>6 DEF CursorInv
  <2> QED BY <1>1, <1>2, <2>2, <2>5, <2>6 DEF CursorInv, Flushing, Flushed
<1>7. CASE at = "flushing"
  <2>1. ReadCursor
    BY <1>7 DEF PassStep, BeginPass, Step, MaxStepsReached, LogActivity, WriteCursor,
                WriteProgress, WriteCandidate, WriteResult, WriteLast, WriteLastResult
  <2>2. /\ at' = "pointing" /\ UNCHANGED <<lines, file>>
        /\ from' = IF file["cursor"].is = "whole" THEN file["cursor"].holds ELSE 0
    BY <2>1 DEF ReadCursor
  <2>3. phase = "epoch" => Reached(from')
    BY <1>1, <1>7, <2>2 DEF CursorInv, Flushing, Reached, TypeOK
  <2>4. from' \in Nat
    BY PassMoves DEF TypeOK
  <2>5. stored' = stored /\ outbox' = outbox
    BY <2>1 DEF ReadCursor, activity
  <2>6. phase = "epoch" => Reached(from)'
    BY <1>1, <2>3, <2>5 DEF Reached, Summarised, Logged
  <2> QED BY <1>1, <1>2, <1>4, <1>7, <2>2, <2>6 DEF CursorInv, Flushing, Flushed
<1>8. CASE at \notin {"pointing", "logging", "flushing"}
  <2>1. at' \notin Flushing /\ (at' \in Flushed => at \in Flushed)
    <3>1. CASE BeginPass \/ Step \/ MaxStepsReached
      BY <3>1 DEF BeginPass, Step, MaxStepsReached, Flushing, Flushed
    <3>2. CASE WriteProgress \/ WriteCandidate \/ WriteResult \/ WriteLast \/ WriteLastResult
      BY <3>2 DEF Write, WriteProgress, WriteCandidate, WriteResult, WriteLast, WriteLastResult, Flushing, Flushed
    <3> QED BY <1>8, <3>1, <3>2 DEF PassStep, ReadCursor, WriteCursor, LogActivity
  <2>2. at \in Flushed => lines' = lines
    BY PassMoves DEF Flushed
  <2>3. phase = "epoch" /\ at' \in Flushed => Reached(lines)'
    BY <1>1, <1>3, <2>1, <2>2 DEF CursorInv
  <2>4. file["cursor"].is = "whole" => /\ file["cursor"].holds \in 0..lines
                                       /\ phase = "epoch" => Reached(file["cursor"].holds)
    BY <1>1, <1>8 DEF CursorInv, Flushing, Running, Flushed
  <2>5. phase = "epoch" /\ file["cursor"].is = "whole" => Reached(file["cursor"].holds)'
    BY <1>1, <1>3, <1>4, <1>8, <2>4
  <2> QED BY <1>1, <1>2, <1>4, <1>8, <2>1, <2>3, <2>4, <2>5 DEF CursorInv
<1> QED BY <1>5, <1>6, <1>7, <1>8

LEMMA PassResult ==
  ASSUME OrganismInv, PassStep
  PROVE  ResultInv'
<1> USE DEF OrganismInv, SummaryInv
<1>1. /\ TypeOK /\ at \in Running /\ UNCHANGED <<phase, verdict, first>>
      /\ Summarised \subseteq Summarised'
  BY PassMoves
<1>2. phase = "epoch" => verdict = "open"
  BY <1>1 DEF ResultInv, Running, Flushing, Flushed
<1>3. phase' = "adaptation" => at' \notin {"result", "concluding"}
  <2> SUFFICES ASSUME phase = "adaptation" PROVE at' \notin {"result", "concluding"}
    BY <1>1
  <2>1. phase # "epoch" /\ at \notin {"result", "concluding"}
    BY DEF ResultInv
  <2>2. CASE WriteCandidate
    BY <2>1, <2>2 DEF WriteCandidate, Write
  <2>3. CASE WriteLast
    BY <2>1, <2>3 DEF WriteLast, Write
  <2>4. CASE ReadCursor \/ WriteCursor \/ WriteProgress \/ LogActivity \/ BeginPass \/ Step \/ MaxStepsReached
    BY <2>1, <2>4 DEF ReadCursor, WriteCursor, WriteProgress, LogActivity, BeginPass, Step, MaxStepsReached, Write
  <2> QED BY <2>1, <2>2, <2>3, <2>4 DEF PassStep, WriteResult, WriteLastResult
<1>4. CASE UNCHANGED file["result"]
  <2>1. file["result"].is = "whole" =>
           LET work == file["result"].holds
           IN  verdict = "open" => Covered(Summarised', work.first, work.last)
    BY <1>1, Grows DEF ResultInv
  <2> QED BY <1>1, <1>2, <1>3, <1>4, <2>1 DEF ResultInv, TypeOK
<1>5. CASE at \in {"result", "concluding"}
  <2>1. PICK next : Write("result", [first |-> first, last |-> lines], next)
    BY <1>5 DEF PassStep, BeginPass, Step, MaxStepsReached, ReadCursor, WriteCursor, LogActivity,
                WriteProgress, WriteCandidate, WriteResult, WriteLast, WriteLastResult
  <2>2. file'["result"] = Whole([first |-> first, last |-> lines]) \/ file'["result"] = Torn
    BY <1>1, <2>1, Written DEF Files
  <2>3. file'["result"].is = "whole" => file'["result"].holds = [first |-> first, last |-> lines]
    BY <2>2, FilesDiffer
  <2>0. phase = "epoch" /\ verdict' = "open"
    BY <1>1, <1>2, <1>5 DEF ResultInv, TypeOK
  <2>4. Reached(lines) /\ lines \in Nat /\ first \in Nat
    BY <1>1, <1>5, <2>0 DEF CursorInv, Flushed, TypeOK
  <2>5. Covered(Summarised, first, lines)
    BY <2>4 DEF Reached, Covered
  <2>6. Covered(Summarised', first, lines)
    BY <1>1, <2>5, Grows
  <2> QED BY <1>1, <2>3, <2>4, <2>6, <2>0 DEF ResultInv
<1> QED BY <1>4, <1>5, PassMoves
-----------------------------------------------------------------------------
(* The container's end, the kernel's verdict and the next epoch. *)

\* What is summarised reaches the store, or is among the lines of the outbox that
\* the kernel does not read.
LEMMA Collected ==
  ASSUME TypeOK, Collect
  PROVE  /\ stored' \in SUBSET Nat /\ outbox' \in Seq(SUBSET Nat)
         /\ \A line \in Summarised :
               \/ line \in stored'
               \/ \E i \in DOMAIN outbox : line \in outbox[i] /\ i + OutboxLimit <= Len(outbox)
<1>1. outbox \in Seq(SUBSET Nat) /\ stored \in SUBSET Nat
  BY DEF TypeOK
<1>2. \A i \in DOMAIN outbox : outbox[i] \in SUBSET Nat
  BY <1>1
<1>3. outbox' = <<>> /\ stored' = stored \cup UNION {outbox[i] : i \in {j \in DOMAIN outbox : ~PushedOut(j)}}
  BY DEF Collect
<1>4. stored' \in SUBSET Nat
  BY <1>1, <1>2, <1>3
<1>5. ASSUME NEW line \in Logged
      PROVE  line \in stored' \/ \E i \in DOMAIN outbox : line \in outbox[i] /\ i + OutboxLimit <= Len(outbox)
  BY <1>3, <1>5 DEF PushedOut, Logged
<1> QED BY <1>3, <1>4, <1>5 DEF Summarised

KernelStep == Kill \/ Tick \/ Assess \/ BeginAdaptation \/ EndAdaptation \/ NextEpoch

LEMMA KernelSteps ==
  ASSUME OrganismInv, KernelStep
  PROVE  OrganismInv'
<1> USE DEF OrganismInv, SummaryInv, plan, clock, program, libraries, activity
<1>1. CASE Kill
  <2>1. /\ UNCHANGED <<plan, lines, libraries, file, activity, verdict>> /\ first' = 0 /\ from' = 0
        /\ at' = "exited" /\ at # "idle"
    BY <1>1 DEF Kill
  <2>2. TypeOK'
    BY <2>1 DEF TypeOK
  <2>3. LibrariesInv'
    BY <2>1 DEF LibrariesInv, Fresh, Running, Flushing, Flushed
  <2>4. CursorInv' /\ ResultInv'
    BY <2>1 DEF CursorInv, ResultInv, Flushing, Flushed, TypeOK, Summarised, Logged
  <2> QED BY <2>2, <2>3, <2>4
<1>2. CASE Tick
  <2>1. UNCHANGED <<plan, program, lines, libraries, file, activity, verdict>>
    BY <1>2 DEF Tick
  <2> QED BY <2>1 DEF TypeOK, LibrariesInv, Fresh, CursorInv, ResultInv, Reached, Summarised, Logged
<1>3. CASE Assess
  <2>1. /\ UNCHANGED <<plan, first, from, lines, libraries>> /\ at = "exited" /\ at' = "idle" /\ phase = "epoch"
    BY <1>3 DEF Assess
  <2>2. /\ UNCHANGED <<file["marker"], file["cursor"]>> /\ file' = [f \in Files |-> file'[f]]
        /\ stored' \in SUBSET Nat /\ outbox' \in Seq(SUBSET Nat)
        /\ \/ verdict' = "accepted" /\ UNCHANGED file /\ file["result"].is = "whole"
           \/ verdict' \in {"open", "failed"} /\ file'["result"] = Absent
    <3>1. CASE file["result"].is = "whole"
      BY <1>3, <3>1, Collected DEF Assess, TypeOK
    <3>2. CASE file["result"].is # "whole"
      <4>1. file' = [file EXCEPT !["result"] = Absent]
        BY <1>3, <3>2 DEF Assess
      <4>2. /\ UNCHANGED <<file["marker"], file["cursor"]>> /\ file' = [f \in Files |-> file'[f]]
            /\ file'["result"] = Absent
        BY <4>1 DEF TypeOK, Files
      <4>3. verdict = "open"
        BY <2>1 DEF ResultInv, TypeOK
      <4>4. \/ UNCHANGED <<verdict, activity>>
            \/ verdict' = "failed" /\ Collect
        BY <1>3, <3>2 DEF Assess
      <4> QED BY <4>2, <4>3, <4>4, Collected DEF TypeOK
    <3> QED BY <3>1, <3>2
  <2>3. TypeOK'
    BY <2>1, <2>2 DEF TypeOK
  <2>4. LibrariesInv'
    BY <2>1, <2>2 DEF LibrariesInv, Fresh, Running, Flushing, Flushed
  <2>5. CursorInv'
    BY <2>1, <2>2 DEF CursorInv, Flushing, Flushed
  <2>6. ResultInv'
    BY <2>1, <2>2, FilesDiffer DEF ResultInv
  <2> QED BY <2>3, <2>4, <2>5, <2>6
<1>4. CASE BeginAdaptation
  <2>1. /\ UNCHANGED <<epoch, need, from, lines, libraries, file, activity, verdict>>
        /\ at = "idle" /\ at' = "launching" /\ first' = lines /\ phase' = "adaptation" /\ verdict = "accepted"
    BY <1>4 DEF BeginAdaptation
  <2>2. TypeOK'
    BY <2>1 DEF TypeOK, Launching
  <2>3. LibrariesInv'
    BY <2>1 DEF LibrariesInv, Fresh, Running, Flushing, Flushed
  <2>4. \A n \in 0..lines : Reached(n)'
    BY <2>1 DEF Reached, TypeOK
  <2>5. CursorInv'
    BY <2>1, <2>4 DEF CursorInv, Flushing, Flushed, TypeOK
  <2>6. ResultInv'
    BY <2>1 DEF ResultInv
  <2> QED BY <2>2, <2>3, <2>5, <2>6
<1>5. CASE EndAdaptation
  <2>1. /\ UNCHANGED <<plan, first, from, lines, libraries, file, activity, verdict>>
        /\ at' = "idle"
    BY <1>5 DEF EndAdaptation
  <2>2. TypeOK'
    BY <2>1 DEF TypeOK
  <2>3. LibrariesInv'
    BY <2>1 DEF LibrariesInv, Fresh, Running, Flushing, Flushed
  <2>4. CursorInv' /\ ResultInv'
    BY <2>1 DEF CursorInv, ResultInv, Flushing, Flushed, Summarised, Logged
  <2> QED BY <2>2, <2>3, <2>4
<1>6. CASE NextEpoch
  <2>1. /\ epoch' = epoch + 1 /\ phase' = "epoch" /\ need' \in Inputs /\ verdict' = "open"
        /\ lines' = 0 /\ outbox' = <<>> /\ stored' = {} /\ at = "idle" /\ UNCHANGED <<program, libraries>>
        /\ file' = [f \in Files |-> IF f \in {"cursor", "candidate", "result"} THEN Absent ELSE file[f]]
    BY <1>6 DEF NextEpoch
  <2>2. /\ file' = [f \in Files |-> file'[f]] /\ file'["marker"] = file["marker"]
        /\ file'["cursor"].is = "absent" /\ file'["result"].is = "absent"
    BY <2>1, FilesDiffer DEF Files
  <2>3. TypeOK'
    BY <2>1, <2>2 DEF TypeOK
  <2>4. LibrariesInv'
    <3>1. epoch \in Nat /\ epoch' = epoch + 1
      BY <2>1 DEF TypeOK
    <3>2. file["marker"].is = "whole" => \E n \in Inputs, e \in 1..epoch : file["marker"] = Whole(<<n, e>>)
      BY DEF LibrariesInv
    <3>3. file["marker"].is = "whole" => \E n \in Inputs, e \in 1..epoch' : file["marker"] = Whole(<<n, e>>)
      BY <3>1, <3>2
    <3>4. file["marker"] # Whole(<<need', epoch'>>)
      <4> SUFFICES ASSUME file["marker"] = Whole(<<need', epoch'>>) PROVE FALSE
        OBVIOUS
      <4>1. file["marker"].is = "whole" /\ file["marker"].holds = <<need', epoch'>>
        BY FilesDiffer
      <4>2. PICK n \in Inputs, e \in 1..epoch : file["marker"] = Whole(<<n, e>>)
        BY <3>2, <4>1
      <4>3. <<need', epoch'>> = <<n, e>>
        BY <4>1, <4>2, FilesDiffer
      <4> QED BY <3>1, <4>3
    <3> QED BY <2>1, <2>2, <3>3, <3>4 DEF LibrariesInv, Running, Flushing, Flushed
  <2>5. CursorInv'
    BY <2>1, <2>2 DEF CursorInv, Flushing, Flushed
  <2>6. ResultInv'
    BY <2>1, <2>2 DEF ResultInv
  <2> QED BY <2>3, <2>4, <2>5, <2>6
<1> QED BY <1>1, <1>2, <1>3, <1>4, <1>5, <1>6 DEF KernelStep
-----------------------------------------------------------------------------
LEMMA OrganismStep ==
  OrganismInv /\ [Next]_vars => OrganismInv'
<1> SUFFICES ASSUME OrganismInv, [Next]_vars PROVE OrganismInv'
  OBVIOUS
<1>1. CASE LauncherStep
  BY <1>1, LauncherMoves, LauncherLibraries, LauncherSummary DEF OrganismInv
<1>2. CASE PassStep
  BY <1>2, PassMoves, PassLibraries, PassCursor, PassResult DEF OrganismInv, SummaryInv
<1>3. CASE KernelStep
  BY <1>3, KernelSteps
<1>4. CASE UNCHANGED vars
  BY <1>4 DEF vars, plan, clock, program, libraries, activity, OrganismInv, TypeOK,
              LibrariesInv, Fresh, SummaryInv, CursorInv, ResultInv, Reached, Summarised, Logged
<1> QED BY <1>1, <1>2, <1>3, <1>4 DEF Next, LauncherStep, PassStep, KernelStep

\* The organism's files, libraries and summaries agree in every reachable
\* state, wherever its containers are killed (container_entrypoint.py:28-54,
\* organism.py:27-37, :79-95, kadath_runtime.py:298-312).
THEOREM OrganismIsInvariant == Spec => []OrganismInv
<1> QED BY OrganismInitially, OrganismStep, PTL DEF Spec

\* A genome's program never runs with a part of its libraries, or with those
\* of an earlier epoch (container_entrypoint.py:33-54).
THEOREM LibrariesAreThisEpochs == Spec => []ThisEpochsDependencies
<1>1. OrganismInv => ThisEpochsDependencies
  BY DEF OrganismInv, TypeOK, LibrariesInv, ThisEpochsDependencies, Fresh, Launching
<1> QED BY <1>1, OrganismIsInvariant, PTL

\* Every line of the trace that an accepted result is about is in a summary that
\* the store has, except for what OutboxLimit later records pushed out
\* (kadath_runtime.py:101-124, :298-312; containers.py:89-106; engine.py:1369-1381).
THEOREM SummariesAreComplete == Spec => AcceptedWorkIsSummarised
<1> DEFINE Summaries == verdict = "open" /\ verdict' = "accepted" =>
                          LET work == file["result"].holds
                          IN  \A line \in (work.first + 1)..work.last :
                                 \/ line \in stored'
                                 \/ \E i \in DOMAIN outbox : line \in outbox[i] /\ i + OutboxLimit <= Len(outbox)
<1>1. OrganismInv /\ [Next]_vars => [Summaries]_vars
  <2> SUFFICES ASSUME OrganismInv, Next, verdict = "open", verdict' = "accepted" PROVE Summaries
    OBVIOUS
  <2> USE DEF OrganismInv, SummaryInv, plan, clock, program, libraries, activity
  <2>1. ~LauncherStep /\ ~PassStep
    BY LauncherMoves, PassMoves
  <2>2. Assess
    BY <2>1 DEF Next, LauncherStep, PassStep, Kill, Tick, BeginAdaptation, EndAdaptation, NextEpoch
  <2>3. file["result"].is = "whole" /\ Collect
    BY <2>2 DEF Assess
  <2>4. Covered(Summarised, file["result"].holds.first, file["result"].holds.last)
    BY <2>3 DEF ResultInv
  <2> QED BY <2>3, <2>4, Collected DEF Covered
<1>2. [][Summaries]_vars => AcceptedWorkIsSummarised
  BY PTL DEF AcceptedWorkIsSummarised
<1> QED BY <1>1, <1>2, OrganismIsInvariant, PTL DEF Spec
=============================================================================
