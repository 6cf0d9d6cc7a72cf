SPECIFICATION Spec
CONSTANTS
    Procs = {daemon}
    Blobs = {x, y}
    Users = {ann, bob}
    Inodes = {1, 2, 3, 4, 5}
    None = None
INVARIANTS TypeOK FilesAndRows PutIsKept
PROPERTIES OnlyOwnerDeletes
