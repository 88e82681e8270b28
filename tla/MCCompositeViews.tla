---------------------------- MODULE MCCompositeViews ----------------------------
(* A finished run and one that is written while the server runs.           *)
EXTENDS CompositeViews, TLC

Old == "old"
New == "new"
MCRunDirs == <<Old, New>>
MCExisting == {Old}
MCRows == Old :> {<<"f", "t">>} @@ New :> {<<"f", "t">>}
Descriptor(environment, repetitions) ==
  [config |-> "c", environment |-> environment, source |-> "s",
   repetitions |-> repetitions, runtime |-> 2]
MCMetadata == Old :> Descriptor("e", 1) @@ New :> Descriptor("e", 2)

OldF == Key(Old, <<"f", "t">>)
NewF == Key(New, <<"f", "t">>)
MCPosts ==
  { <<Selection(OldF, OldF, "historical", <<>>)>>,
    <<Selection(OldF, [renamed |-> OldF], "historical", <<"f", 2>>)>> }

\* Called compatible is an equivalence among the measurements of known source:
\* two that are compatible with a reference are so with each other.
Descriptors ==
  [config : {"c", "d"}, environment : {"e", "g"}, source : {"s", "u", NoSource},
   repetitions : {1}, runtime : {2}]

ASSUME CompatibleAgree ==
  \A a, b, c \in Descriptors :
    /\ Compare(a, b) = "compatible" => Compare(b, a) = "compatible"
    /\ Compare(a, b) = "compatible" /\ Compare(a, c) = "compatible" => Compare(b, c) = "compatible"

Symmetry == Permutations(Threads)
=============================================================================
