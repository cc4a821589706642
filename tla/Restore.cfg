SPECIFICATION Spec
CONSTANTS
    Includes = {{}, {"etc/xrpld.cfg"}, {"etc/extra"}, {"opt/xrpld.cfg"}, {"odd/extra"}, {"raw/extra"}}
    Unsafe = {"odd/extra"}
    Garbled = {"raw/extra"}
    MaxSeq = 3
    MaxEdits = 2
    MaxDryRuns = 1
    MaxCuts = 1
    MaxRestores = 1
INVARIANTS BundleFollows DoneRestores ReportTrue VerifyForetells OlderThanTombstone
PROPERTY NoClobber
CHECK_DEADLOCK FALSE
VIEW View
