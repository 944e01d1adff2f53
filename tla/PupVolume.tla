------------------------------ MODULE PupVolume ------------------------------
(***************************************************************************)
(* Formatting, mounting and unmounting a PUP volume, and allocating its    *)
(* blocks (src/kernel/fs/pup.c, through src/kernel/fs/fs.c).  Threads       *)
(* allocate from the bitmask in memory with a compare-and-swap per byte;   *)
(* unmounting writes the bitmask back.  Block contents are abstract.       *)
(***************************************************************************)
EXTENDS Integers, FiniteSets

CONSTANTS Allocators,    \* threads that call AllocBlock
          BlockBytes,    \* K_FS_PUP_LOGICAL_BLOCK_SIZE
          ByteBits,      \* blocks a byte of the bitmask stands for
          Wrap,          \* sizes and counts are uint32_t: they wrap at this number
          Counts,        \* block counts that volumes are formatted with
          MaxMounts,     \* bound: times the volume is mounted
          MaxAllocs      \* bound: blocks allocated

(* A byte has bits, and a block more than one byte. *)
VolumeAssumption ==
  /\ BlockBytes \in Nat \ {0, 1} /\ ByteBits \in Nat \ {0}
  /\ Wrap \in Nat \ {0} /\ Counts \subseteq Nat

Unformatted == [root |-> "none"]
Null == 0

VARIABLES disk,     \* root: the root record; bitmask: set bits; node: the root node
          volume,   \* the mounted volume: root, block_bitmask; or Unmounted
          alloc,    \* each thread's AllocBlock: index, the byte it read
          owned,    \* blocks given out
          mounts    \* times mounted

volumeVars == <<disk, volume, alloc, owned, mounts>>

Unmounted == [mounted |-> FALSE]
Idle == [index |-> -1, byte |-> {}, read |-> FALSE]

VolumeInit == /\ disk = Unformatted /\ volume = Unmounted
        /\ alloc = [t \in Allocators |-> Idle]
        /\ owned = {} /\ mounts = 0

-----------------------------------------------------------------------------
\* The layout that FormatVolume computes.  The product is of two uint32_t.
Bytes(count) == (count * BlockBytes) % Wrap
BitmaskBlocks_Short(count) == Bytes(count) \div (BlockBytes * BlockBytes * ByteBits + 1)
BitmaskBlocks(count) ==
  LET blocks == Bytes(count) \div (BlockBytes * ByteBits + 1)
  IN IF blocks = 0 THEN 1 ELSE blocks
BitmaskStart == 2
RootNodeBlock == 1
AllocStart_Unaligned(count) == BitmaskStart + BitmaskBlocks(count) - 1
AllocStart(count) == ((BitmaskStart + BitmaskBlocks(count) + 3) \div 4) * 4
Root(count) == [block_count |-> count, bitmask_block_count |-> BitmaskBlocks(count),
                alloc_start |-> AllocStart(count)]

\* FormatVolume clears the bitmask, writes the root and the root node, on an image
\* of zeros.  Its first clear is meant for the root node's block but is given its
\* link, and is dropped beyond the volume's end.
PupFormatVolume(count) ==
  disk' = [root |-> Root(count), bitmask |-> {}, node |-> RootNodeBlock]
PupMountVolume(record, bitmask) ==
  volume' = [mounted |-> TRUE, root |-> record, block_bitmask |-> bitmask]

\* A volume is formatted, then mounted.
FormatPartition(count) ==
  /\ volume = Unmounted /\ mounts < MaxMounts
  /\ PupFormatVolume(count)
  /\ PupMountVolume(Root(count), {})
  /\ mounts' = mounts + 1
  /\ owned' = {}
  /\ UNCHANGED alloc

\* An image is saved and loaded with Bytes of it: a bound leaves out what is then lost.
TablesSaved == (BitmaskStart + disk.root.bitmask_block_count) * BlockBytes
                 <= Bytes(disk.root.block_count)
MountVolume ==
  /\ volume = Unmounted /\ disk # Unformatted /\ mounts < MaxMounts /\ TablesSaved
  /\ PupMountVolume(disk.root, disk.bitmask)
  /\ mounts' = mounts + 1
  /\ UNCHANGED <<disk, alloc, owned>>

\* Callers unmount when no thread is in the volume: nothing here waits for them.
WrittenBack == volume.block_bitmask
PupUnmountVolume ==
  /\ disk' = [disk EXCEPT !.bitmask = WrittenBack]
  /\ volume' = Unmounted
UnmountVolume ==
  /\ volume # Unmounted /\ \A t \in Allocators : alloc[t] = Idle
  /\ PupUnmountVolume
  /\ UNCHANGED <<alloc, owned, mounts>>

-----------------------------------------------------------------------------
\* AllocBlock: the byte is read, then swapped if it is still the same; when it is
\* not, the search starts again from the first block.
Free == (volume.root.block_count - volume.root.alloc_start) % Wrap
ByteOf(i) == {j \in 0 .. Free - 1 : j \div ByteBits = i \div ByteBits}

\* No bound keeps the search inside block_bitmask: what lies behind it is memory of
\* others, and may read as anything at any time.
Outside(i) == i >= volume.root.bitmask_block_count * BlockBytes * ByteBits
BytesRead(i) ==
  IF Outside(i) THEN SUBSET ByteOf(i) ELSE {volume.block_bitmask \cap ByteOf(i)}

AllocBlock(t) ==
  /\ volume # Unmounted /\ alloc[t] = Idle /\ Cardinality(owned) < MaxAllocs
  /\ alloc' = [alloc EXCEPT ![t] = [index |-> 0, byte |-> {}, read |-> FALSE]]
  /\ UNCHANGED <<disk, volume, owned, mounts>>

ReadByte(t) ==
  /\ alloc[t] # Idle /\ ~alloc[t].read
  /\ LET i == alloc[t].index
     IN \E byte \in BytesRead(i) : alloc' = [alloc EXCEPT ![t] =
          IF i >= Free THEN Idle
          ELSE IF i \in byte THEN [@ EXCEPT !.index = i + 1]
          ELSE [index |-> i, byte |-> byte, read |-> TRUE]]
  /\ UNCHANGED <<disk, volume, owned, mounts>>

SameByte_Bit(t) == alloc[t].index \notin alloc[t].byte
SameByte(t) == volume.block_bitmask \cap ByteOf(alloc[t].index) = alloc[t].byte
Swapped(t) ==
  IF Outside(alloc[t].index) THEN volume.block_bitmask
  ELSE (volume.block_bitmask \ ByteOf(alloc[t].index)) \cup alloc[t].byte \cup {alloc[t].index}

GetBlock(t) ==
  /\ alloc[t].read /\ (SameByte(t) \/ Outside(alloc[t].index))
  /\ volume' = [volume EXCEPT !.block_bitmask = Swapped(t)]
  /\ owned' = owned \cup {<<t, volume.root.alloc_start + alloc[t].index, mounts>>}
  /\ alloc' = [alloc EXCEPT ![t] = Idle]
  /\ UNCHANGED <<disk, mounts>>
SearchAgain(t) ==
  /\ alloc[t].read /\ (~SameByte(t) \/ Outside(alloc[t].index))
  /\ alloc' = [alloc EXCEPT ![t] = [index |-> 0, byte |-> {}, read |-> FALSE]]
  /\ UNCHANGED <<disk, volume, owned, mounts>>

VolumeNext ==
  \/ \E count \in Counts : FormatPartition(count)
  \/ MountVolume \/ UnmountVolume
  \/ \E t \in Allocators : AllocBlock(t) \/ ReadByte(t) \/ GetBlock(t) \/ SearchAgain(t)

VolumeSpec == VolumeInit /\ [][VolumeNext]_volumeVars

-----------------------------------------------------------------------------
\* A block belongs to one allocation only, over threads racing for a byte and over
\* unmounting and mounting again: the bitmask on disk keeps what was allocated.
BlocksGivenOnce ==
  \A a, b \in owned : a[2] = b[2] => a = b

\* No block that is given out holds the volume's own data, and every one lies on the
\* volume ("number of blocks in the volume", pup.h).
BlocksOutsideMetadata ==
  \A a \in owned :
    /\ a[2] \notin {0, RootNodeBlock}
    /\ a[2] \notin BitmaskStart .. BitmaskStart + disk.root.bitmask_block_count - 1
    /\ a[2] < disk.root.block_count

\* The blocks set aside for the bitmask have a bit for every block there is ("each byte
\* in a bitmask block contains state for 8 blocks", pup.c), so that what is written
\* on unmounting is the whole bitmask.
BitmaskLargeEnough ==
  disk # Unformatted =>
    disk.root.block_count - disk.root.alloc_start
      <= disk.root.bitmask_block_count * BlockBytes * ByteBits

\* The volumes whose size fits in a uint32_t and that reach behind their own tables.
\* On larger ones the product of pup.c:81 wraps and the bitmask is too small, and on
\* smaller ones the difference of pup.c:667 does and blocks behind the end are given.
Fits(count) == count * BlockBytes < Wrap /\ AllocStart(count) <= count
VolumeFits == disk # Unformatted => Fits(disk.root.block_count)

\* pup_AllocBlock from any volume that fits: a block is its caller's alone, whether
\* the other callers' marks or the file system's own tables are beside it.
BlocksAreOwners ==
  VolumeFits => BlocksGivenOnce /\ BlocksOutsideMetadata /\ BitmaskLargeEnough
=============================================================================
