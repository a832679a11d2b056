----------------------------- MODULE Reviewing -----------------------------
(***************************************************************************)
(* How specialists read more than a prompt can hold (specialists.py): the  *)
(* Grader an agent's frozen evidence, the Tweaker the dossiers of a        *)
(* population, the Birther a first generation in batches.  Evidence is cut *)
(* into fragments and packed into batches; each batch is one call, whose   *)
(* answer is validated, repaired and kept in a checkpoint; the answers are *)
(* packed and merged again until they fit one prompt; the last call        *)
(* decides.  An outage or a crash ends all this anywhere, and it is begun  *)
(* again from the checkpoints, perhaps for an attempt executed anew.       *)
(***************************************************************************)
EXTENDS Benchmark, SequencesExt

CONSTANTS FragmentSize, Overlap, \* of the encoded evidence
          Maximum,               \* characters of a prompt
          PackFloor, HalfFloor,  \* the least that a batch, and Maximum, is cut to
          MaxEntries, MaxMedia,  \* of a batch of evidence
          MaxRounds,
          MaxTries,              \* repairing_json attempts
          Sources,               \* bound: the evidence there may be
          MaxNotes,              \* bound: length of the answers about evidence
          Benchmarks, Answers,   \* bound: the locked benchmarks, the last answers
          Verified,              \* valid_evidence_refs
          Elites, Births,        \* elite_ids, birth_count
          Reports,               \* bound: the Tweaker's last answers
          MaxFaults              \* bound: outages and crashes

\* The settings of specialists.py: fragments advance, and no floor is above
\* the least prompt (_evidence_chunks, _review_chunks).
ASSUME ReviewingAssumption ==
    /\ FragmentSize \in Nat /\ Overlap \in Nat /\ Overlap < FragmentSize
    /\ Maximum \in Nat /\ PackFloor \in 0..Maximum /\ HalfFloor \in 0..Maximum
    /\ MaxTries \in Nat \ {0} /\ MaxFaults \in Nat /\ MaxNotes \in Nat
    /\ Sources \subseteq Seq([length : Nat, streamed : BOOLEAN, media : BOOLEAN])

VARIABLES role,      \* "grader", "tweaker"
          notes,     \* how long answers about evidence are
          concise,   \* whether merged answers get shorter, which nothing ensures
          benchmark,
          attempt,   \* number of the execution the evidence is of
          source,    \* its evidence
          pc,
          maximum,   \* the limit that packing goes by
          round,     \* 0 for evidence, then rounds of merging
          items,     \* entries or answers the round is about
          place,     \* the first of them that no call was about
          reduced,   \* its own answers so far
          tries,     \* invalid answers to the call under way
          answer,    \* the valid one, not yet kept
          kept,      \* the checkpoint files
          report,    \* the Tweaker's final.json
          answered,  \* valid answers of this attempt
          faults

setting == <<role, notes, concise, benchmark>>
input == <<attempt, source>>
vars == <<setting, input, pc, maximum, round, items, place, reduced, tries, answer, kept, report, answered, faults>>
-----------------------------------------------------------------------------
(* Fragments of one piece of evidence, as offset and length.               *)
Step == FragmentSize - Overlap
Least(a, b) == IF a < b THEN a ELSE b
Greatest(a, b) == IF a > b THEN a ELSE b
Fragment(offset, length) == [offset |-> offset, length |-> Least(FragmentSize, length - offset)]

\* At every Step of the text.  encoded_entries takes a text that is no longer
\* than a fragment as it is; the Tweaker's dossiers are cut all the same.
EncodedFragments(who, length) ==
    IF who = "grader" /\ length <= FragmentSize THEN <<Fragment(0, length)>>
    ELSE [k \in 1..((Greatest(1, length) + Step - 1) \div Step) |-> Fragment((k - 1) * Step, length)]

\* A large text file is streamed, each time with the last Overlap characters.
StreamedFragments(length) ==
    [k \in 1..(IF length <= FragmentSize THEN 1 ELSE 1 + ((length - Overlap - 1) \div Step)) |->
        Fragment((k - 1) * Step, length)]

Fragments(who, piece) == IF who = "grader" /\ piece.streamed THEN StreamedFragments(piece.length)
                         ELSE EncodedFragments(who, piece.length)

\* The entries of all evidence, in order; media come one by one.
Entries(who, number, evidence) ==
    FlattenSeq([p \in DOMAIN evidence |-> LET f == Fragments(who, evidence[p]) IN
       [k \in DOMAIN f |-> [id |-> <<number, p, k>>, size |-> f[k].length, media |-> evidence[p].media]]])
-----------------------------------------------------------------------------
(* Packing: a batch is closed when the next item would not fit.            *)
Size(batch) ==
    LET upto[n \in 0..Len(batch)] == IF n = 0 THEN 0 ELSE upto[n - 1] + batch[n].size
    IN  upto[Len(batch)]

FitsUntilFull(batch, entry) == Size(batch) <= Maximum

FitsPrompt(batch, entry) ==
    /\ Size(batch) + entry.size <= Maximum
    /\ role = "grader" =>
          /\ Len(batch) < MaxEntries
          /\ entry.media => Cardinality({i \in DOMAIN batch : batch[i].media}) < MaxMedia

PackLimitOfNothing == 1
PackLimit == IF role = "grader" THEN Greatest(PackFloor, maximum \div 2) ELSE Maximum
Fits(batch, item) == IF round = 0 THEN FitsPrompt(batch, item) ELSE Size(batch) + item.size <= PackLimit

\* The items of the call under way.  Evidence that is empty is one call too.
Upto(n) == SubSeq(items, place, n)
Batch == IF items = <<>> THEN <<>>
         ELSE Upto(Max({n \in place..Len(items) : \A k \in (place + 1)..n : Fits(Upto(k - 1), items[k])}))

Call == <<round, Len(reduced) + 1>>
Covered(summaries) == UNION {summaries[i].covers : i \in DOMAIN summaries}
Covers == IF round = 0 THEN {Batch[i].id : i \in DOMAIN Batch} ELSE Covered(Batch)
-----------------------------------------------------------------------------
Begin(number, evidence) ==
    /\ attempt' = number /\ source' = evidence
    /\ pc' = "asking" /\ maximum' = Maximum /\ round' = 0
    /\ items' = Entries(role, number, evidence) /\ place' = 1
    /\ reduced' = <<>> /\ tries' = 0 /\ answer' = {}

Init == /\ role \in {"grader", "tweaker"}
        /\ notes \in 1..MaxNotes
        /\ concise \in BOOLEAN
        /\ benchmark \in {b \in Benchmarks : Acceptable(b)}
        /\ attempt = 1 /\ source \in Sources
        /\ role = "tweaker" => source # <<>>  \* a dossier for every organism
        /\ pc = "asking" /\ maximum = Maximum /\ round = 0
        /\ items = Entries(role, 1, source) /\ place = 1 /\ reduced = <<>> /\ tries = 0 /\ answer = {}
        /\ kept = <<>> /\ report = {} /\ answered = 0 /\ faults = 0

Unread == place <= Len(items) \/ (items = <<>> /\ reduced = <<>>)
Asking == pc = "asking" /\ Unread
RoundOver == pc = "asking" /\ ~Unread

\* A checkpoint counts when the whole input is what it was.
ReusableByName(call, batch) == call \in DOMAIN kept
Reusable(call, batch) == call \in DOMAIN kept /\ kept[call].input = batch
Kept == Reusable(Call, Batch)

Take(output) == /\ reduced' = Append(reduced, output)
                /\ place' = place + Len(Batch)

Recall ==
    /\ Asking /\ Kept
    /\ Take(kept[Call].output)
    /\ UNCHANGED <<setting, input, pc, maximum, round, items, tries, answer, kept, report, answered, faults>>

\* The validator wants every fragment or summary exactly once; only the
\* length of the notes is the model's.
Length == IF round = 0 THEN notes
          ELSE IF concise THEN Greatest(1, Size(Batch) \div 2) ELSE Size(Batch)

AskValid ==
    /\ Asking /\ ~Kept
    /\ answer' = {[size |-> Length, covers |-> Covers]}
    /\ answered' = answered + 1
    /\ tries' = 0
    /\ pc' = "keeping"
    /\ UNCHANGED <<setting, input, maximum, round, items, place, reduced, kept, report, faults>>

AskInvalid ==
    /\ Asking /\ ~Kept /\ faults < MaxFaults
    /\ tries' = tries + 1
    /\ IF tries + 1 < MaxTries THEN UNCHANGED <<pc, faults>>
       ELSE pc' = "stopped" /\ faults' = faults + 1
    /\ UNCHANGED <<setting, input, maximum, round, items, place, reduced, answer, kept, report, answered>>

KeepNothing ==
    /\ pc = "keeping"
    /\ \E a \in answer : Take(a)
    /\ answer' = {} /\ pc' = "asking"
    /\ UNCHANGED <<setting, input, maximum, round, items, tries, kept, report, answered, faults>>

\* Written beside and moved into place.
Keep ==
    /\ pc = "keeping"
    /\ \E a \in answer :
          /\ kept' = [call \in DOMAIN kept \cup {Call} |->
                        IF call = Call THEN [input |-> Batch, output |-> a] ELSE kept[call]]
          /\ Take(a)
    /\ answer' = {} /\ pc' = "asking"
    /\ UNCHANGED <<setting, input, maximum, round, items, tries, report, answered, faults>>

\* A round of merging that gained nothing makes the Grader's next limit
\* smaller and the Tweaker give up, as too many rounds make both.
GainedNothing == Len(reduced) >= Len(items) /\ Size(reduced) >= Size(items)
Hopeless == round > 0 /\ role = "tweaker" /\ Len(reduced) >= Len(items)

EndRound ==
    /\ RoundOver /\ ~Hopeless
    /\ maximum' = IF role = "grader" /\ round > 0 /\ GainedNothing
                  THEN Greatest(HalfFloor, maximum \div 2) ELSE maximum
    /\ pc' = IF Size(reduced) <= maximum' THEN "deciding"
             ELSE IF round = MaxRounds THEN "stuck" ELSE "asking"
    /\ items' = reduced /\ place' = 1
    /\ round' = round + 1
    /\ reduced' = <<>>
    /\ UNCHANGED <<setting, input, tries, answer, kept, report, answered, faults>>

GiveUp ==
    /\ RoundOver /\ Hopeless
    /\ pc' = "stuck"
    /\ UNCHANGED <<setting, input, maximum, round, items, place, reduced, tries, answer, kept, report, answered, faults>>

(* The last call.  The Grader's is not kept: the kernel keeps its result.  *)
\* An answer that the contract allows and the formulas cannot score raises.
Decide ==
    /\ pc = "deciding" /\ role = "grader"
    /\ \E a \in Answers :
          IF KeepsContract(benchmark, a, Verified)
          THEN /\ pc' = IF Rejected(benchmark, a) \/ InRange(benchmark, Score(benchmark, a))
                        THEN "decided" ELSE "unscored"
               /\ UNCHANGED <<tries, faults>>
          ELSE /\ faults < MaxFaults
               /\ tries' = tries + 1
               /\ IF tries + 1 < MaxTries THEN UNCHANGED <<pc, faults>>
                  ELSE pc' = "stopped" /\ faults' = faults + 1
    /\ UNCHANGED <<setting, input, maximum, round, items, place, reduced, answer, kept, report, answered>>

\* The Tweaker's names every fragment once, and gives each birth to a parent of
\* the elite that it has a brief for.
Assigned(r) == {agent \in DOMAIN r.assignments : r.assignments[agent] > 0}
ValidReport(r) ==
    /\ r.whole
    /\ Assigned(r) # {} /\ Assigned(r) \subseteq Elites
    /\ MapThenSumSet(LAMBDA agent : r.assignments[agent], Assigned(r)) = Births
    /\ Assigned(r) \subseteq r.briefs /\ r.briefs \subseteq Elites

Reported == \E r \in report : r.input = items

RecallReport ==
    /\ pc = "deciding" /\ role = "tweaker" /\ Reported
    /\ pc' = "decided"
    /\ UNCHANGED <<setting, input, maximum, round, items, place, reduced, tries, answer, kept, report, answered, faults>>

AskReport ==
    /\ pc = "deciding" /\ role = "tweaker" /\ ~Reported
    /\ \E r \in Reports :
          IF ValidReport(r)
          THEN /\ pc' = "reporting" /\ answer' = {r}
               /\ tries' = 0 /\ answered' = answered + 1
               /\ UNCHANGED faults
          ELSE /\ faults < MaxFaults
               /\ tries' = tries + 1
               /\ IF tries + 1 < MaxTries THEN UNCHANGED <<pc, faults>>
                  ELSE pc' = "stopped" /\ faults' = faults + 1
               /\ UNCHANGED <<answer, answered>>
    /\ UNCHANGED <<setting, input, maximum, round, items, place, reduced, kept, report>>

KeepReport ==
    /\ pc = "reporting"
    /\ report' = {[input |-> items, output |-> r] : r \in answer}
    /\ answer' = {} /\ pc' = "decided"
    /\ UNCHANGED <<setting, input, maximum, round, items, place, reduced, tries, kept, answered, faults>>
-----------------------------------------------------------------------------
\* The selection that a report is for can still fail, and is undone and resumed.
Stop ==
    /\ pc \in {"asking", "keeping", "deciding", "reporting"} \/ (pc = "decided" /\ role = "tweaker")
    /\ faults < MaxFaults
    /\ pc' = "stopped"
    /\ faults' = faults + 1
    /\ UNCHANGED <<setting, input, maximum, round, items, place, reduced, tries, answer, kept, report, answered>>

Resume ==
    /\ pc = "stopped"
    /\ Begin(attempt, source)
    /\ UNCHANGED <<setting, kept, report, answered, faults>>

\* Another execution is graded with the checkpoints of the first in place.
Reexecute ==
    /\ pc = "stopped" /\ attempt = 1 /\ role = "grader"
    /\ \E evidence \in Sources : Begin(2, evidence)
    /\ answered' = 0 /\ faults' = MaxFaults
    /\ UNCHANGED <<setting, kept, report>>

Work == \/ Recall \/ AskValid \/ Keep \/ EndRound \/ GiveUp
        \/ Decide \/ RecallReport \/ AskReport \/ KeepReport
Next == Work \/ AskInvalid \/ Stop \/ Resume \/ Reexecute

Spec == Init /\ [][Next]_vars

\* Specialists are called again until they answer, and runs started again.
FairSpec == Spec /\ WF_vars(Work) /\ WF_vars(Resume)
-----------------------------------------------------------------------------
Everything == {entry.id : entry \in ToSet(Entries(role, attempt, source))}
Disjoint(sets) == \A i, j \in DOMAIN sets : i # j => sets[i].covers \cap sets[j].covers = {}

(* README.md:169: every fragment is reviewed exactly once.  Through all    *)
(* rounds, restarts and stale checkpoints the summaries that reach the     *)
(* decision account for every fragment of this attempt, none twice, and    *)
(* the fragments for every character (specialists.py:370-490, :492-507,    *)
(* :532-600, :774-819).                                                    *)
EveryFragmentOnce ==
    /\ pc = "deciding" => Covered(items) = Everything /\ Disjoint(items)
    /\ \A p \in DOMAIN source : LET f == Fragments(role, source[p]) IN
          \A c \in 0..(source[p].length - 1) :
             \E k \in DOMAIN f : c \in f[k].offset..(f[k].offset + f[k].length - 1)

(* README.md:276: finished calls are not blindly repeated.  All answers    *)
(* but the one a crash takes before it is kept are kept: as many as there  *)
(* are checkpoints and crashes (specialists.py:54-72, :843).               *)
LittleIsRepeated ==
    attempt = 1 => answered <= Cardinality(DOMAIN kept) + Cardinality(report) + Cardinality(answer) + faults

(* Nothing is decided from more than a prompt holds, and a call has more   *)
(* only when a single item is longer (specialists.py:453-460, :522-567).   *)
BoundedPrompts ==
    /\ pc = "deciding" => Size(items) <= Maximum
    /\ Asking => Size(Batch) <= Maximum \/ Len(Batch) = 1

(* README.md:180: the kernel applies the locked formulas itself.  An       *)
(* answer that keeps the contract of a benchmark that was accepted gets a  *)
(* score (specialists.py:278-280, :731-734).                               *)
ContractIsScored == pc # "unscored"

(* A Grader whose merged answers get shorter comes to a verdict, whatever  *)
(* is cut off in between (specialists.py:54-72, :532-567).                 *)
ReviewConverges == <>(pc = "decided" \/ ~concise \/ role = "tweaker")
=============================================================================
