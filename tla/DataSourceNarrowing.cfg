SPECIFICATION QSpec
CONSTANTS
    Sources = {s1}
    Databases = {d1, d2}
    Tasks = {t1, t2}
    Queries = {q1}
    MaxVersion = 1
    MaxBoots = 1
    None = None
INVARIANT NarrowedByOwnIndex
