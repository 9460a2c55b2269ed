CONSTANTS
    Nodes = {n1, n2, n3, n4}
    Null = Null
    Junk = {Null, n1}
SPECIFICATION Spec
INVARIANTS ListsKeepOrder SearchRight
