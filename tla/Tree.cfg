SPECIFICATION TreeSpec
CONSTANTS
    Threads = {t1, t2}
    Editor = editor
    Attrs = {a, b}
    Vals = {v}
    nodes_per_block = 3
    num_blocks = 2
    Bootstrap = 1
    Ops = {"get_child", "get_path"}
    PathLength = 2
    MaxCalls = 2
SYMMETRY ThreadSymmetry
INVARIANTS OneCopyPerThread PathsExact BlocksNotOverrun
PROPERTY PublishedFixed
