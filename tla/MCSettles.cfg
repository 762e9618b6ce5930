SPECIFICATION Spec
CONSTANTS
    MaxTries = 2
    scratch = scratch
    out = out
    song = song
    none = none
    l1 = l1
    l2 = l2
    noNote = noNote
CHECK_DEADLOCK FALSE
 
 
PROPERTY EventuallyFiled
PROPERTY NoStuckNote
