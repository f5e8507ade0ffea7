SPECIFICATION Spec
CONSTANTS
    Running = 1
    Listings <- TwoBuilds
    Manifests <- TwoTrusted
    Outset <- Both
    MaxChanges = 1
    MaxFailures = 1
INVARIANTS Verified PickerCurrent
PROPERTY EventuallyOffered
