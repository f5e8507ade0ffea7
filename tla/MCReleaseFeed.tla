---------------------------- MODULE MCReleaseFeed ----------------------------
(* The entries that ReleaseFeed is checked with: release 1 is running. *)
EXTENDS ReleaseFeed

Listed(t, b, k) == [tag |-> t, build |-> b, mark |-> k]
Trusted(t, b, c) == [tag |-> t, build |-> b, compatible |-> c]

\* A stable release whose asset is replaced, a preview and the running release.
TwoBuilds == {Listed(2, "a", "stable"), Listed(2, "b", "stable"), Listed(3, "a", "preview")}
TwoTrusted == {Trusted(2, "a", TRUE), Trusted(2, "b", TRUE), Trusted(3, "a", TRUE)}

\* Also entries that must not be offered.
AllMarks == {Listed(1, "a", "stable"), Listed(2, "a", "draft"), Listed(2, "a", "stable"), Listed(3, "a", "preview")}
SomeTrusted == {Trusted(1, "a", TRUE), Trusted(2, "a", TRUE), Trusted(2, "a", FALSE), Trusted(3, "a", TRUE)}

\* A release and a preview that are out, or none.
Both == [f \in {"releases", "manifests"} |->
            IF f = "releases" THEN {Listed(2, "a", "stable"), Listed(3, "a", "preview")}
            ELSE {Trusted(2, "a", TRUE), Trusted(3, "a", TRUE)}]
Neither == [f \in {"releases", "manifests"} |-> {}]
=============================================================================
