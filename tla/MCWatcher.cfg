SPECIFICATION FairSpec
CONSTANTS
    draft = draft
    edited = edited
    longer = longer
    Contents = {draft, edited, longer}
    SizeOf <- MCSizeOf
    Access = {"ok", "no read", "no stat"}
    StableReads = 2
    MaxChanges = 4
CHECK_DEADLOCK FALSE
PROPERTIES DeletionsAreReal StoppedIsSilent QuietFileReported
