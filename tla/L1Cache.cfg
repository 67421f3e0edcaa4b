\* Two ways for two plain lines, one of page-table entries and one of I/O.
CONSTANTS
    Tags = 4
    MemoryMaxTag = 3
    Index = {i0}
    Word = {x0}
    Ways = 2
    TickMod = 2
    Value = {v0, v1}
    Zero = v0
    Walked = 2
    NoAnswer = NoAnswer
    WalkerWord <- MCWalkerWord
SPECIFICATION Spec
INVARIANTS TypeOK Coherence TagsDistinct
PROPERTY FlatSpec
\* "out" is never read: states that differ only in it have the same future.
VIEW WithoutOut
