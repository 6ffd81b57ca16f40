----------------------------- MODULE V6FileSystem -----------------------------
(***************************************************************************)
(* The Unix V6 reader (inode.c, file.c, directory.c, pathname.c over       *)
(* diskimg.c) against the images mkfs_v6.c writes.  The geometry is        *)
(* parameterised: sizes are in units.  A sector is Zero or a function from *)
(* positions to items: inodes, block numbers, directory entries, or bytes, *)
(* a byte being <<its file, its place there>>.  Names are sequences of     *)
(* characters, as their truncation matters.                                *)
(***************************************************************************)
EXTENDS Integers, Sequences, FiniteSets, SequencesExt, FiniteSetsExt

CONSTANTS
    SectorSize, InodeSize, PtrSize, DirentSize,
    Slots,          \* length of i_addr
    NumInodeBlocks,
    Half,           \* i_size1 holds the size modulo Half
    MaxName,        \* MAX_COMPONENT_LENGTH
    Names,          \* the names given to files and directories
    Sizes,          \* sizes of the files mkfs makes
    HugeSizes,      \* sizes of files that need double indirection
    Zero            \* a sector of zeros

ROOTINO == 1
InodeStart == 2
InodesPerBlock == SectorSize \div InodeSize
Ptrs == SectorSize \div PtrSize
DataStart == InodeStart + NumInodeBlocks
Blocks(size) == (size + SectorSize - 1) \div SectorSize
SingleMax == (Slots - 1) * Ptrs

ASSUME GeometryAssumption ==
    /\ {SectorSize, InodeSize, PtrSize, DirentSize, NumInodeBlocks, Half, MaxName}
         \subseteq Nat \ {0}
    /\ Slots \in Nat \ {0, 1}
    /\ Names \subseteq Seq(STRING) \ {<<>>}
    /\ \A n \in Sizes : n \in Nat /\ Blocks(n) =< SingleMax
    /\ \A n \in HugeSizes :
          n \in Nat /\ Blocks(n) > SingleMax /\ Blocks(n) =< SingleMax + Ptrs * Ptrs

VARIABLES
    disk,       \* disk[s]: the contents of sector s, for the sectors written
    nextData, nextInode, maxBlock,
    files,      \* history: the files made, [inumber, size]
    dirs,       \* dirs[i]: the directory made as inode i: parent and entries
    reserved    \* inodes allocated to directories that are yet to be made

vars == <<disk, nextData, nextInode, maxBlock, files, dirs, reserved>>

-------------------------------------------------------------------------------
(* The reader                                                              *)

\* A sector beyond the end of the image is read as zeros.
readsector(s) == IF s \in DOMAIN disk THEN disk[s] ELSE Zero
Item(s, k, zero) == IF readsector(s) = Zero THEN zero ELSE readsector(s)[k]

ZeroInode == [dir |-> FALSE, large |-> FALSE, size0 |-> 0, size1 |-> 0,
              addr |-> [k \in 0 .. Slots - 1 |-> 0]]

inode_iget(i) ==
    Item(InodeStart + (i - 1) \div InodesPerBlock, (i - 1) % InodesPerBlock, ZeroInode)

inode_getsize(in) == in.size0 * Half + in.size1

\* The sector of block b of the file, 0 if it has none, or -1.
inode_indexlookup(in, b) ==
    LET d == b - SingleMax
        l1 == Item(in.addr[Slots - 1], d \div Ptrs, 0)
    IN  CASE b < 0 -> -1
          [] ~in.large /\ b >= 0 -> IF b >= Slots THEN -1 ELSE in.addr[b]
          [] in.large /\ b \in 0 .. SingleMax - 1 ->
                IF in.addr[b \div Ptrs] = 0 THEN -1 ELSE Item(in.addr[b \div Ptrs], b % Ptrs, 0)
          [] OTHER ->
                IF d \div Ptrs >= Ptrs \/ in.addr[Slots - 1] = 0 \/ l1 = 0 THEN -1
                ELSE Item(l1, d % Ptrs, 0)

\* The number of units of block b that are part of the file, or -1.
file_getblock(i, b) ==
    LET size == inode_getsize(inode_iget(i))
        tail == size % SectorSize
        sector == inode_indexlookup(inode_iget(i), b)
    IN  IF i < 1 \/ sector =< 0 THEN -1
        ELSE IF b < size \div SectorSize \/ tail = 0 THEN SectorSize ELSE tail

\* What the buffer holds after file_getblock.
Block(i, b) == readsector(inode_indexlookup(inode_iget(i), b))

\* strncpy into, and strncmp with, a field of MaxName characters.
Truncated(name) == SubSeq(name, 1, Min({Len(name), MaxName}))

\* The inode of the first entry of that name, or -1.
directory_findname(name, d) ==
    LET in == inode_iget(d)
        blocks == 0 .. Blocks(inode_getsize(in)) - 1
        Entry(p) == Item(inode_indexlookup(in, p[1]), p[2], [inumber |-> 0, name |-> <<>>])
        unread == {b \in blocks : file_getblock(d, b) < 0}
        found == {p \in blocks \X (0 .. SectorSize \div DirentSize - 1) :
                    /\ \A b \in unread : p[1] < b
                    /\ p[2] < file_getblock(d, p[1]) \div DirentSize
                    /\ Entry(p).inumber # 0
                    /\ Entry(p).name = Truncated(name)}
        before(p, q) == p[1] < q[1] \/ (p[1] = q[1] /\ p[2] =< q[2])
    IN  IF d < 1 \/ ~in.dir \/ found = {} THEN -1
        ELSE Entry(CHOOSE p \in found : \A q \in found : before(p, q)).inumber

\* A pathname is what stands before, between and after its slashes: "/a/" is "", "a"
\* and "".  NULL is <<>>.
Absolute(pathname) == Len(pathname) > 1 /\ pathname[1] = <<>>

\* Mutant: repeated slashes are not skipped.
pathname_lookupEmpty(pathname) ==
    IF Absolute(pathname)
    THEN FoldLeft(LAMBDA i, name : IF i = -1 THEN i ELSE directory_findname(Truncated(name), i),
                  ROOTINO, Tail(pathname))
    ELSE -1

pathname_lookup(pathname) ==
    IF Absolute(pathname)
    THEN FoldLeft(LAMBDA i, name : IF i = -1 \/ name = <<>> THEN i
                                   ELSE directory_findname(Truncated(name), i),
                  ROOTINO, pathname)
    ELSE -1

-------------------------------------------------------------------------------
(* mkfs_v6                                                                 *)

Init ==
    /\ disk = [s \in 0 .. DataStart - 1 |-> Zero]
    /\ nextData = DataStart
    /\ nextInode = 1
    /\ maxBlock = DataStart - 1
    /\ files = {}
    /\ dirs = [i \in {} |-> {}]
    /\ reserved = {}

Sealed == disk[1] # Zero
Made == {f.inumber : f \in files} \cup DOMAIN dirs

set_size(size) == [size0 |-> size \div Half, size1 |-> size % Half]

\* Mutant: the other inodes of the sector are not read first.
put_inodeAlone(sectors, i, in) ==
        [[k \in 0 .. InodesPerBlock - 1 |-> ZeroInode]
            EXCEPT ![(i - 1) % InodesPerBlock] = in]

\* The inode's sector with inode i replaced.
put_inode(sectors, i, in) ==
    LET s == InodeStart + (i - 1) \div InodesPerBlock
        raw == IF sectors[s] = Zero THEN [k \in 0 .. InodesPerBlock - 1 |-> ZeroInode]
               ELSE sectors[s]
    IN  [raw EXCEPT ![(i - 1) % InodesPerBlock] = in]

\* wsector for a set of new sectors, and put_inode.
Write(new, i, in) ==
    LET s == InodeStart + (i - 1) \div InodesPerBlock
    IN  /\ disk' = (s :> put_inode(disk, i, in)) @@ new @@ disk
        /\ maxBlock' = Max(DOMAIN new \cup {maxBlock, s})

\* The bytes of block b of a file, the rest of the sector zero.
Data(i, size, b) ==
    [k \in 0 .. SectorSize - 1 |->
        IF b * SectorSize + k < size THEN <<i, b * SectorSize + k>> ELSE <<0, 0>>]

Small(nblocks) == nblocks =< Slots

\* Where make_file puts block b, and the indirect block of slot g: one indirect
\* block follows each Ptrs data blocks of a large file.
SectorOf(b) == nextData + b + b \div Ptrs
IndirectOf(g, nblocks) == nextData + Min({(g + 1) * Ptrs, nblocks}) + g

make_file(i, size) ==
    LET n == Blocks(size)
        groups == 0 .. (n - 1) \div Ptrs
        pointers(g) == [j \in 0 .. Ptrs - 1 |->
                          IF g * Ptrs + j < n THEN SectorOf(g * Ptrs + j) ELSE 0]
        data == IF Small(n)
                THEN [s \in nextData .. nextData + n - 1 |-> Data(i, size, s - nextData)]
                ELSE [s \in {SectorOf(b) : b \in 0 .. n - 1} |->
                        Data(i, size, CHOOSE b \in 0 .. n - 1 : SectorOf(b) = s)]
        indirect == IF Small(n) THEN [s \in {} |-> Zero]
                    ELSE [s \in {IndirectOf(g, n) : g \in groups} |->
                            pointers(CHOOSE g \in groups : IndirectOf(g, n) = s)]
        addr == [k \in 0 .. Slots - 1 |->
                   IF Small(n) THEN (IF k < n THEN nextData + k ELSE 0)
                   ELSE IF k \in groups THEN IndirectOf(k, n) ELSE 0]
    IN  /\ Write(data @@ indirect, i,
                 [dir |-> FALSE, large |-> ~Small(n), addr |-> addr] @@ set_size(size))
        /\ nextData' = nextData + Cardinality(DOMAIN (data @@ indirect))

\* The bound is main's: all its inodes fit the inode region.
alloc_inode ==
    /\ ~Sealed /\ ROOTINO \notin DOMAIN dirs
    /\ nextInode < NumInodeBlocks * InodesPerBlock
    /\ nextInode' = nextInode + 1

MakeFile(size) ==
    /\ alloc_inode
    /\ make_file(nextInode + 1, size)
    /\ files' = files \cup {[inumber |-> nextInode + 1, size |-> size]}
    /\ UNCHANGED <<dirs, reserved>>

\* An image of another origin may hold a file of more than SingleMax blocks: data,
\* then single, second-level and double indirect blocks.
HugeFile(size) ==
    LET i == nextInode + 1
        n == Blocks(size)
        ind == nextData + n
        groups == 0 .. (n - 1) \div Ptrs
        top == ind + Cardinality(groups)
    IN  /\ alloc_inode
        /\ Write([s \in nextData .. top |->
                    CASE s < ind -> Data(i, size, s - nextData)
                      [] s \in ind .. top - 1 ->
                            [j \in 0 .. Ptrs - 1 |->
                               LET b == (s - ind) * Ptrs + j
                               IN  IF b < n THEN nextData + b ELSE 0]
                      [] OTHER ->
                            [j \in 0 .. Ptrs - 1 |->
                               IF j + Slots - 1 \in groups THEN ind + j + Slots - 1 ELSE 0]],
                 i, [dir |-> FALSE, large |-> TRUE,
                     addr |-> [k \in 0 .. Slots - 1 |-> IF k = Slots - 1 THEN top ELSE ind + k]]
                    @@ set_size(size))
        /\ nextData' = top + 1
        /\ files' = files \cup {[inumber |-> i, size |-> size]}
        /\ UNCHANGED <<dirs, reserved>>

ReserveDir ==
    /\ alloc_inode
    /\ reserved' = reserved \cup {nextInode + 1}
    /\ UNCHANGED <<disk, nextData, maxBlock, files, dirs>>

\* The inodes that have no name yet and may become entries of directory d.
Nameless(d) ==
    {i \in Made : /\ \A e \in DOMAIN dirs : i \notin DOMAIN dirs[e].entries
                  /\ i \in DOMAIN dirs => dirs[i].parent = d}

mkent(i, name) == [inumber |-> i, name |-> Truncated(name)]

\* make_dir for directory d with parent p: ".", ".." and an entry for each of the
\* inodes that named gives a name, all in one sector; no two names agree in the
\* characters that are kept.
make_dir(d, p, named) ==
    LET ents == <<mkent(d, <<".">>), mkent(p, <<".", ".">>)>> \o
                [k \in 1 .. Cardinality(DOMAIN named) |->
                    LET i == SetToSortSeq(DOMAIN named, <)[k] IN mkent(i, named[i])]
        sector == [k \in 0 .. SectorSize \div DirentSize - 1 |->
                     IF k < Len(ents) THEN ents[k + 1] ELSE [inumber |-> 0, name |-> <<>>]]
    IN  /\ Len(ents) =< SectorSize \div DirentSize
        /\ \A i, j \in DOMAIN named : Truncated(named[i]) = Truncated(named[j]) => i = j
        /\ Write(nextData :> sector, d,
                 [dir |-> TRUE, large |-> FALSE,
                  addr |-> [k \in 0 .. Slots - 1 |-> IF k = 0 THEN nextData ELSE 0]]
                 @@ set_size(Len(ents) * DirentSize))
        /\ nextData' = nextData + 1
        /\ dirs' = (d :> [parent |-> p, entries |-> named]) @@ dirs

MakeDir(d, p) ==
    /\ ROOTINO \notin DOMAIN dirs
    /\ p # d
    /\ \E is \in SUBSET Nameless(d) : \E named \in [is -> Names] : make_dir(d, p, named)
    /\ reserved' = reserved \ {d}
    /\ UNCHANGED <<nextInode, files>>

MakeRoot ==
    /\ reserved = {} /\ ROOTINO \notin DOMAIN dirs
    /\ \E named \in [Nameless(ROOTINO) -> Names] : make_dir(ROOTINO, ROOTINO, named)
    /\ UNCHANGED <<nextInode, files, reserved>>

\* The superblock comes last.
Seal ==
    /\ ROOTINO \in DOMAIN dirs /\ ~Sealed
    /\ disk' = [disk EXCEPT ![1] = [isize |-> NumInodeBlocks, fsize |-> maxBlock + 1]]
    /\ UNCHANGED <<nextData, nextInode, maxBlock, files, dirs, reserved>>

Next ==
    \/ \E n \in Sizes : MakeFile(n)
    \/ \E n \in HugeSizes : HugeFile(n)
    \/ ReserveDir
    \/ \E d \in reserved : \E p \in reserved \cup {ROOTINO} : MakeDir(d, p)
    \/ MakeRoot
    \/ Seal

Spec == Init /\ [][Next]_vars

-------------------------------------------------------------------------------
(* Properties                                                              *)

TypeOK ==
    /\ DOMAIN disk = 0 .. maxBlock
    /\ nextData = maxBlock + 1
    /\ nextInode \in 1 .. NumInodeBlocks * InodesPerBlock
    /\ files \subseteq [inumber : 2 .. nextInode, size : Sizes \cup HugeSizes]
    /\ DOMAIN dirs \subseteq 1 .. nextInode
    /\ reserved \subseteq 2 .. nextInode

\* From the moment it is made, and whatever is written after it, every file is
\* read back: each block in full, with the count of units that belong to it, at
\* every boundary of the addressing schemes, and nothing before the start or
\* beyond the end.
ReadsBack ==
    TypeOK /\ \A f \in files :
        /\ inode_getsize(inode_iget(f.inumber)) = f.size
        /\ ~inode_iget(f.inumber).dir
        /\ \A b \in 0 .. Blocks(f.size) - 1 :
              /\ file_getblock(f.inumber, b) = Min({SectorSize, f.size - b * SectorSize})
              /\ \A k \in 0 .. file_getblock(f.inumber, b) - 1 :
                    Block(f.inumber, b)[k] = <<f.inumber, b * SectorSize + k>>
        /\ \A b \in {-1} \cup Blocks(f.size) .. SingleMax + Ptrs * (Ptrs + 1) :
              file_getblock(f.inumber, b) = -1

\* In each directory every name, also one longer than is kept, finds its inode, "."
\* the directory and ".." its parent, and a name that was not given finds nothing.
NamesResolve ==
    \A d \in DOMAIN dirs :
        /\ directory_findname(<<".">>, d) = d
        /\ directory_findname(<<".", ".">>, d) = dirs[d].parent
        /\ \A i \in DOMAIN dirs[d].entries : directory_findname(dirs[d].entries[i], d) = i
        /\ \A name \in Names :
              (\A i \in DOMAIN dirs[d].entries :
                  Truncated(dirs[d].entries[i]) # Truncated(name))
              => directory_findname(name, d) = -1

\* Names lead where they were put (directory_findname), and paths of any shape lead
\* down the tree (pathname_lookup): repeated slashes change nothing, ".." leads back,
\* nothing is found under a file, nor by a path that does not start at the root.
PathsResolve ==
    /\ NamesResolve
    /\ \A pathname \in {<<>>, <<<<>>>>} : pathname_lookup(pathname) = -1
    /\ ROOTINO \in DOMAIN dirs =>
           /\ pathname_lookup(<<<<>>, <<>>>>) = ROOTINO
           /\ \A i \in DOMAIN dirs[ROOTINO].entries :
                 LET name == dirs[ROOTINO].entries[i]
                 IN  /\ pathname_lookup(<<name>>) = -1 /\ pathname_lookup(<<name, <<>>>>) = -1
                     /\ pathname_lookup(<<<<>>, <<>>, name, <<>>>>) = i
                     /\ i \in DOMAIN dirs =>
                           \A j \in DOMAIN dirs[i].entries :
                               LET below == dirs[i].entries[j]
                               IN  /\ pathname_lookup(<<<<>>, name, <<>>, below>>) = j
                                   /\ pathname_lookup(<<<<>>, name, <<".", ".">>, name, below>>) = j
                     /\ i \notin DOMAIN dirs => pathname_lookup(<<<<>>, name, <<".">>>>) = -1
===============================================================================
