------------------------------ MODULE MCReviews ------------------------------
(* Instances of Reviews for TLC.                                           *)
EXTENDS Reviews, TLC
CONSTANTS t1, t2, c1, c2, m1, m2

TwoTabs == {t1, t2}
Symmetry == Permutations(TwoTabs) \cup Permutations({c1, c2})

\* Another supported executable may replace the first.  A restart keeps the
\* manifests, or brings a release that knows the first executable by another
\* one or no longer supports it.
Releases == <<<<m1, m1>>, <<m1, m1>>, <<m2, m1>>, <<None, m1>>>>
Start(runtime, adopted) == [runtime |-> runtime, files |-> adopted]
Starts == {Start(FALSE, FALSE), Start(TRUE, FALSE), Start(TRUE, TRUE)}

RuntimePage == {"getRuntime", "inspectCandidate", "adoptRuntime"}
WorkspacePage == {"getWorkspace", "inspectWorkspace", "adoptWorkspace"}
EditPage == {"getConfiguration", "preview", "save", "resolve"}
CreationPage == {"getConfiguration", "previewCreation", "create", "resolve"}
\* Two tabs on every pair of pages but the edits of an adopted and the
\* creation of a first workspace, of which only one can be under way.
Pairs ==
    [TwoTabs -> {RuntimePage, WorkspacePage, EditPage}]
        \cup [TwoTabs -> {RuntimePage, WorkspacePage, CreationPage}]
=============================================================================
