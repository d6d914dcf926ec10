SPECIFICATION Spec
CONSTANTS
    Key = Key
    Word = Word
    Passwords = {Word, Other, Empty}
    Secrets <- MCSecrets
    Known <- MCKnown
    Empty = Empty
    Unset = Unset
    Lifetime = 1
    MaxTime = 1
INVARIANTS
    TypeOK
PROPERTIES
    AccessFollowsLogin
