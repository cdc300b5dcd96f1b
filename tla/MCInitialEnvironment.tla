------------------------ MODULE MCInitialEnvironment ------------------------
(***************************************************************************)
(* Model for InitialEnvironment: the endpoint answers with the test's two  *)
(* lists (both collected, both uncollected) or with a mixed list where the *)
(* uncollected entry has the higher impactValue; at most two invalidation refetches per run.    *)
(***************************************************************************)
EXTENDS InitialEnvironment

MCServerLists ==
    { <<FakeEnvironmentA, FakeEnvironmentB>>,
      <<FakeEnvironmentC, FakeEnvironmentD>>,
      <<FakeEnvironmentC, FakeEnvironmentB>> }
=============================================================================
