CONSTANTS
    NO_UIDS = 1
    NO_GUIDS = 1
    INODES = 1
    FRAGMENTS = 2
    BLOCK_LOG = 1
    SQUASHFS_GUIDS = 2
    SQUASHFS_INVALID_FRAG = 3
    IdFields <- MCDirIdFields
    TypeFields <- MCDirTypeFields
    InodeNumbers <- MCDirInodeNumbers
    FragmentFields <- MCDirFragmentFields
    DirSizes <- MCDirDirSizes
    Locs <- MCDirLocs
    Offs <- MCDirOffs
    LregSizeFields <- MCDirLregSizeFields
    SymlinkSizes <- MCDirSymlinkSizes
    Rdevs <- MCDirRdevs
    REG_SIZE_BITS = 2
    LLONG_BITS = 7
    INT_BITS = 6
    CountFields <- MCCountFields
    NameFields <- MCNameFields
    NameSize <- MCNameSize
    BadNames <- MCBadNames
    DIR_HEADER_SIZE = 2
    DIR_ENTRY_SIZE = 1
    SQUASHFS_DIR_COUNT = 2
    SQUASHFS_NAME_LEN = 2
    MAX_ENTRIES = 4
SPECIFICATION DirSpec
CHECK_DEADLOCK FALSE
INVARIANT
    WalkFromFreshLocator
