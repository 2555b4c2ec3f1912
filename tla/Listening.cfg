CONSTANTS
    Listener = {l1, l2}
SPECIFICATION FairSpec
INVARIANTS ListedWhileServed NoAdOverAudio
PROPERTIES ServedOnlyWhenLoaded CountedWhilePresent EveryoneIsServed
CHECK_DEADLOCK FALSE
