SPECIFICATION Spec
CONSTANTS
    Running = 1
    Listings <- TwoBuilds
    Manifests <- TwoTrusted
    Outset <- Both
    MaxChanges = 3
    MaxFailures = 1
INVARIANT PreviewsWanted
