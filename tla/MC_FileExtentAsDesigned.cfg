CONSTANTS
    NO_UIDS = 1
    NO_GUIDS = 1
    INODES = 1
    FRAGMENTS = 2
    BLOCK_LOG = 1
    SQUASHFS_GUIDS = 2
    SQUASHFS_INVALID_FRAG = 3
    IdFields <- MCIdFields
    TypeFields <- MCTypeFields
    InodeNumbers <- MCInodeNumbers
    FragmentFields <- MCFragmentFields
    DirSizes <- MCDirSizes
    Locs <- MCLocs
    Offs <- MCOffs
    LregSizeFields <- MCLregSizeFields
    SymlinkSizes <- MCSymlinkSizes
    Rdevs <- MCRdevs
    REG_SIZE_BITS = 3
    LLONG_BITS = 6
    INT_BITS = 4
INIT Init
NEXT INext
CHECK_DEADLOCK FALSE
INVARIANTS
    FileExtentAsDesigned
