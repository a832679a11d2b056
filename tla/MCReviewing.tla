---------------------------- MODULE MCReviewing ----------------------------
(***************************************************************************)
(* Instances of reviewing for TLC.  The proportions are those of the least *)
(* prompt the settings allow, in units of 2,500 characters.                *)
(***************************************************************************)
EXTENDS Reviewing

CONSTANTS ref, foreign

Piece(length, streamed, media) == [length |-> length, streamed |-> streamed, media |-> media]
Evidence == { <<>>,
              <<Piece(1, FALSE, TRUE), Piece(1, FALSE, TRUE), Piece(3, TRUE, FALSE), Piece(7, FALSE, FALSE)>> }

Criterion(type, weight) == [type |-> type, weight |-> weight, minimum |-> 4, target |-> 0, direction |-> "lower"]
Locked(first, second) ==
    [low |-> 0, high |-> 10, outputs |-> {"candidate"}, failures |-> {"f"}, frauds |-> {"g"},
     rubric |-> <<Criterion("binary", first), Criterion("numeric_linear", second)>>,
     ties |-> <<[minimum |-> 0, maximum |-> 2, weight |-> 1, direction |-> "lower"]>>]

ExactBenchmarks == {Locked(50000, 50000), Locked(50000, 49000)}
RoundedBenchmarks == {Locked(33333, 66666), Locked(33334, 66667)}

Said(facts, triggered, passed, refs) ==
    [facts |-> facts,
     failures |-> [f \in {"f"} |-> [triggered |-> triggered, refs |-> refs]],
     frauds |-> [g \in {"g"} |-> [passed |-> passed, refs |-> refs]],
     ties |-> <<[value |-> 1, refs |-> refs]>>]
Fact(value, refs) == [value |-> value, refs |-> refs]
Unfounded(said, refs) == [said EXCEPT !.ties = <<[value |-> 1, refs |-> refs]>>]

SomeAnswers ==
    { Said(<<Fact(1, {ref}), Fact(0, {ref})>>, FALSE, TRUE, {ref}),
      Said(<<Fact(0, {}), Fact(9, {})>>, FALSE, TRUE, {ref}),
      Said(<<Fact(1, {ref}), Fact(2, {ref})>>, TRUE, TRUE, {ref}),
      Said(<<Fact(1, {ref}), Fact(2, {ref})>>, FALSE, FALSE, {ref}),
      Said(<<Fact(1, {}), Fact(2, {ref})>>, FALSE, TRUE, {ref}),
      Said(<<Fact(1, {foreign}), Fact(2, {ref})>>, FALSE, TRUE, {ref}),
      Said(<<Fact(1, {ref})>>, FALSE, TRUE, {ref}),
      Unfounded(Said(<<Fact(1, {ref}), Fact(2, {ref})>>, FALSE, TRUE, {ref}), {}),
      Unfounded(Said(<<Fact(1, {ref}), Fact(2, {ref})>>, FALSE, TRUE, {ref}), {foreign}) }

VerifiedRefs == {ref}

EliteAgents == {"first", "second"}
Report(whole, first, second, third, briefs) ==
    [whole |-> whole, briefs |-> briefs,
     assignments |-> [agent \in {"first", "second", "third"} |->
                        CASE agent = "first" -> first [] agent = "second" -> second [] OTHER -> third]]
SomeReports ==
    { Report(TRUE, 2, 1, 0, {"first", "second"}),
      Report(TRUE, 3, 0, -1, {"first"}),
      Report(FALSE, 3, 0, 0, {"first"}),
      Report(TRUE, 2, 0, 1, {"first", "third"}),
      Report(TRUE, 2, 2, 0, {"first", "second"}),
      Report(TRUE, 2, 1, 0, {"first"}),
      Report(TRUE, 0, 0, 0, {}) }
=============================================================================
