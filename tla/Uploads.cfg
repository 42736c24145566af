SPECIFICATION FairSpec
CONSTANTS
    Workers = {w1, w2}
    Main = Main
    Nodes = {n1, n2, n3}
    NULL = NULL
    Tokens = {t1, t2, t3}
    MaxChunks = 1
INVARIANTS
    ListIsSound
    NoUseAfterFree
    FilesMatchAnswers
PROPERTIES
    KeepsPromise
    EveryPutIsAnswered
