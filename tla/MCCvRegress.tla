---------------------------- MODULE MCCvRegress ----------------------------
(***************************************************************************)
(* CvRegress on small testlists: two that share a build and a test name,   *)
(* as cv32e40x_ci_check.yaml and cv32e40x_compliance.yaml do, and ones     *)
(* that cv_regress refuses.                                                *)
(***************************************************************************)
EXTENDS CvRegress

B(n, c, v) == [name |-> n, cfg |-> c, cov |-> v]

T(n, bs, b, num) ==
    [name |-> n, builds |-> bs, build |-> b, num |-> num, skip_sim |-> FALSE,
     valid |-> TRUE, compliance |-> FALSE, results |-> FALSE,
     cov |-> None, makearg |-> None]

Yaml(bs, ts) == [asserted |-> TRUE, builds |-> bs, tests |-> ts]

Main  == B("main", None, None)
Clic  == B("clic", "clic_default", "NO")
Check == Yaml(<<Main, Clic>>,
              <<T(2, <<"main", "clic">>, None, None),
                [T(1, <<>>, "main", 2) EXCEPT !.makearg = "short"],
                [T(3, <<"main">>, None, None) EXCEPT !.skip_sim = TRUE]>>)
Compliance ==
    Yaml(<<B("main", "no_bitmanip", None), B("spare", None, None)>>,
         <<[T(4, <<>>, "main", None) EXCEPT !.compliance = TRUE, !.results = TRUE, !.valid = FALSE],
           T(2, <<"main">>, None, None)>>)
NoResults ==
    Yaml(<<Main>>, <<[T(2, <<"main">>, None, None) EXCEPT !.compliance = TRUE, !.cov = "NO"]>>)
Alt    == Yaml(<<B("main", "alt", None)>>, <<T(2, <<"main">>, None, None)>>)
Twice  == Yaml(<<Main, B("same", None, None)>>, <<T(1, <<"main", "same">>, None, None)>>)

NotAsserted == [Check EXCEPT !.asserted = FALSE]
NoBuild     == Yaml(<<Main>>, <<T(1, <<>>, None, None)>>)
Dangling    == Yaml(<<Main>>, <<T(1, <<"main", "gone">>, None, None)>>)
Unknown     == Yaml(<<Main>>, <<[T(1, <<"main">>, None, None) EXCEPT !.valid = FALSE]>>)

C(fs, c, n) == [files |-> fs, cfg |-> c, num |-> n, cov |-> TRUE]

MCCommandLines ==
    {C(<<Check>>, None, None), C(<<Check>>, "pma", 1),
     C(<<Compliance>>, None, None), C(<<Compliance>>, "pma", None),
     C(<<Twice, Check>>, None, 1), C(<<Check, Compliance>>, None, 1),
     C(<<NoResults>>, "pma", None), C(<<Alt, Check>>, None, 1),
     C(<<NotAsserted>>, None, None), C(<<Check, NoBuild>>, None, None),
     C(<<Dangling>>, None, None), C(<<Unknown>>, None, None)}
=============================================================================
