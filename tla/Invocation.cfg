\* Options in every order up to four words, five environments, brokers of two
\* versions and two executables.  Times, words and bytes reach each limit and pass it.
CONSTANTS
    None = None
    Missing = "missing"
    Words <- MCWords
    Text <- MCText
    Size <- MCSize
    Nanos <- MCNanos
    Canonical <- MCCanonical
    InPath = "/bin/op"
    CommandLines <- MCCommandLines
    Keys <- MCKeys
    Removed = {"OP_SESSION_x"}
    Odd = {"=C"}
    Environments <- MCEnvironments
    Own <- MCOwn
    Versions = {1, 2}
    Mine = 1
    MaxArguments = 2
    MaxBytes = 3
    Shortest = 1
    Longest = 3
    WireArguments = 2
    WireBytes = 3
    WireShortest = 1
    WireLongest = 3
    Usual = 3
    MaxChanges = 1
SPECIFICATION Spec
INVARIANTS
    HandledAsGiven
    ChildIsOfSelection
    ExitTellsTheTruth
CHECK_DEADLOCK FALSE
