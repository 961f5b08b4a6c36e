SPECIFICATION Spec
CONSTANTS
    Sources = {s1}
    Databases = {d1, d2}
    Tasks = {t1, t2}
    MaxVersion = 1
    MaxBoots = 1
    None = None
INVARIANTS ReadyIsIndexed
PROPERTIES NoResurrection IndexingSettles
