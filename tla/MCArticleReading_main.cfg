\* Two articles, three slugs, one request at a time, three commits.
CONSTANTS
    Posts = {p1, p2}
    Slugs = {s1, s2, s3}
    Requests = {q1}
    MaxEvents = 3
    MaxSaving = 1
    None = None
SPECIFICATION ReadingSpec
SYMMETRY Symmetry
INVARIANTS
    ReadingTypeOK
    ShownWasReadable
    IndexHasAnsweredSaves
    OldLinksLive
