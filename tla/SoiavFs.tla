------------------------------- MODULE SoiavFs -------------------------------
(***************************************************************************)
(* The file system (src/Kernel/Fs/Fs_Soiav.c): formatting a volume, mounting   *)
(* it and creating files in its root directory, with crashes between any two   *)
(* writes, writes that the device refuses (sync_dirty_buffer's result is not   *)
(* looked at) and buffers that are dropped from memory.  A block is written    *)
(* whole or not at all.                                                    *)
(*                                                                         *)
(* The VFS holds the directory's lock throughout a create and calls it for a   *)
(* name that has no entry in its own cache.  Creates are numbered; 0 is none.  *)
(***************************************************************************)
EXTENDS Naturals, FiniteSets, Sequences

CONSTANTS
  Names,
  Inos,           (* inode numbers a file may get                          *)
  Former,         (* the lists of entries that volumes formatted before may hold *)
  MaxCreates,     (* bound: creates; the directory's block has room for 15     *)
                  (* entries, and a create beyond them, which the code does    *)
                  (* not refuse, is left out                               *)
  MaxFaults       (* bound: crashes, refused writes and failed reads         *)

(* Assumed of the constants; the modules that instantiate this one check it. *)
FsAssumption ==
  /\ MaxCreates \in 0 .. 13 /\ MaxFaults \in Nat
  /\ Former \subseteq Seq([name : Names, ino : Inos, id : {0}])
  /\ \A old \in Former : Len(old) + MaxCreates <= 13

VARIABLES
  super,          (* the superblock with its magic is on the disk             *)
  root,           (* the root's inode is on the disk                        *)
  dir,            (* the entries of block 100 on the disk                   *)
  inode,          (* per inode number the create whose inode its block holds   *)
  dirBuffer, inodeBuffer,                    (* the same in the buffer cache *)
  stage,          (* the volume is "formatting", "unmounted" or "mounted"      *)
  dentries,       (* names the VFS knows in this mount                      *)
  call,           (* the create under way                                  *)
  creates, faults,
  created,        (* history: the creates that returned 0                   *)
  refused         (* history: creates of which a write was refused           *)

vars == <<super, root, dir, inode, dirBuffer, inodeBuffer, stage, dentries, call,
          creates, faults, created, refused>>

NoCall == [id |-> 0]
Dots == <<[name |-> ".", ino |-> 2, id |-> 0], [name |-> "..", ino |-> 2, id |-> 0]>>

(* A blank volume, or one that was formatted and used before: entry 0 is that    *)
(* of a file of those days.                                                 *)
Init ==
  /\ \/ super = FALSE /\ root = FALSE /\ dir = <<>>
     \/ super = TRUE /\ root = TRUE /\ \E old \in Former : dir = Dots \o old
  /\ inode = [i \in Inos |-> 0]
  /\ dirBuffer = dir /\ inodeBuffer = inode
  /\ stage = "formatting"
  /\ dentries = {} /\ call = NoCall
  /\ creates = 0 /\ faults = 0 /\ created = {} /\ refused = {}

memory == <<dirBuffer, inodeBuffer, dentries, call>>
histories == <<creates, faults, created, refused>>

(* soiavfs_format: the three blocks, one after the other.  The directory's block  *)
(* is not cleared: behind its first two entries stay those of a former volume.   *)
soiavfs_format ==
  /\ stage = "formatting"
  /\ \/ ~super /\ super' = TRUE /\ UNCHANGED <<root, dir, dirBuffer, stage>>
     \/ super /\ ~root /\ root' = TRUE /\ UNCHANGED <<super, dir, dirBuffer, stage>>
     \/ /\ super /\ root
        /\ dir' = (IF dir = <<>> THEN Dots ELSE dir)
        /\ dirBuffer' = dir'
        /\ stage' = "unmounted"
        /\ UNCHANGED <<super, root>>
  /\ UNCHANGED <<inode, inodeBuffer, dentries, call, histories>>

(* soiavfs_fill_super: the magic is tested, the root's inode is read as it is. *)
soiavfs_fill_super ==
  /\ stage = "unmounted"
  /\ super
  /\ stage' = "mounted"
  /\ dirBuffer' = dir /\ inodeBuffer' = inode
  /\ dentries' = {}
  /\ UNCHANGED <<super, root, dir, inode, call, histories>>

Unmount ==
  /\ stage = "mounted" /\ call = NoCall
  /\ stage' = "unmounted"
  /\ UNCHANGED <<super, root, dir, inode, memory, histories>>

(* The system stops: what was in memory is gone.                            *)
Crash ==
  /\ stage # "unmounted"
  /\ faults < MaxFaults
  /\ faults' = faults + 1
  /\ stage' = "unmounted"
  /\ call' = NoCall
  /\ UNCHANGED <<super, root, dir, inode, dirBuffer, inodeBuffer, dentries, creates,
                 created, refused>>

(* Memory runs short: clean buffers go, and with them what a refused write      *)
(* left in them.                                                           *)
DropBuffers ==
  /\ stage = "mounted"
  /\ \/ dirBuffer # dir /\ dirBuffer' = dir /\ UNCHANGED inodeBuffer
     \/ inodeBuffer # inode /\ inodeBuffer' = inode /\ UNCHANGED dirBuffer
  /\ UNCHANGED <<super, root, dir, inode, stage, dentries, call, histories>>

(* sync_dirty_buffer for create c: the block reaches the disk or does not.    *)
Synced(c, written, unchanged) ==
  \/ written /\ UNCHANGED <<faults, refused>>
  \/ /\ faults < MaxFaults
     /\ unchanged
     /\ faults' = faults + 1
     /\ refused' = refused \union {c}

(* soiavfs_find_free_inode is not in the repository: some number that no entry  *)
(* of the directory has.                                                   *)
FreeInos == Inos \ {dirBuffer[k].ino : k \in DOMAIN dirBuffer}

(* Mutant: the inode is only marked dirty.                                  *)
create_inode_unsynced(name, ino) ==
  /\ stage = "mounted" /\ root
  /\ call = NoCall
  /\ name \notin dentries
  /\ creates < MaxCreates
  /\ creates' = creates + 1
  /\ call' = [id |-> creates', name |-> name, ino |-> ino]
  /\ inodeBuffer' = [inodeBuffer EXCEPT ![ino] = creates']
  /\ UNCHANGED <<super, root, dir, inode, dirBuffer, stage, dentries, created, faults,
                 refused>>

(* soiavfs_create up to the inode, which is written and waited for.  When      *)
(* there is no number, no memory or the block cannot be read nothing changes.  *)
create_inode(name, ino) ==
  /\ stage = "mounted" /\ root
  /\ call = NoCall
  /\ name \notin dentries
  /\ creates < MaxCreates
  /\ creates' = creates + 1
  /\ call' = [id |-> creates', name |-> name, ino |-> ino]
  /\ inodeBuffer' = [inodeBuffer EXCEPT ![ino] = creates']
  /\ Synced(creates', inode' = [inode EXCEPT ![ino] = creates'], UNCHANGED inode)
  /\ UNCHANGED <<super, root, dir, dirBuffer, stage, dentries, created>>

Entry == [name |-> call.name, ino |-> call.ino, id |-> call.id]

(* The rest of soiavfs_create: the entry goes after the last one and the block  *)
(* is written, with whatever is in its buffer by then.                       *)
create_entry ==
  /\ call # NoCall
  /\ dirBuffer' = Append(dirBuffer, Entry)
  /\ Synced(call.id, dir' = dirBuffer', UNCHANGED dir)
  /\ dentries' = dentries \union {call.name}
  /\ created' = created \union {call.id}
  /\ call' = NoCall
  /\ UNCHANGED <<super, root, inode, inodeBuffer, stage, creates>>

(* The directory's block cannot be read: -EIO, the inode stays.              *)
create_fails ==
  /\ call # NoCall
  /\ faults < MaxFaults
  /\ faults' = faults + 1
  /\ call' = NoCall
  /\ UNCHANGED <<super, root, dir, inode, dirBuffer, inodeBuffer, stage, dentries,
                 creates, created, refused>>

Next ==
  \/ soiavfs_format \/ soiavfs_fill_super \/ Unmount \/ Crash \/ DropBuffers
  \/ \E name \in Names : \E ino \in FreeInos : create_inode(name, ino)
  \/ create_entry \/ create_fails

Spec == Init /\ [][Next]_vars
-----------------------------------------------------------------------------
Entries(d) == {d[k] : k \in DOMAIN d}
Files(d) == {e \in Entries(d) : e.id # 0}

TypeOK ==
  /\ super \in BOOLEAN /\ root \in BOOLEAN
  /\ stage \in {"formatting", "unmounted", "mounted"}
  /\ inode \in [Inos -> 0 .. creates] /\ inodeBuffer \in [Inos -> 0 .. creates]
  /\ dentries \subseteq Names
  /\ created \subseteq 1 .. creates /\ refused \subseteq 1 .. creates

(* Whatever crashes and fails, an entry on the disk has a number of its own      *)
(* and leads to the inode its create wrote, unless that write was refused; and   *)
(* each inode that no entry leads to was left by a create that was interrupted.  *)
FilesBacked ==
  /\ \A e, f \in Files(dir) : e.ino = f.ino => e = f
  /\ \A e \in Files(dir) : inode[e.ino] = e.id \/ e.id \in refused
  /\ LET Left == {i \in Inos : inode[i] # 0 /\ \A e \in Files(dir) : e.ino # i} IN
       Cardinality(Left) <= faults + (IF call = NoCall THEN 0 ELSE 1)

(* A file whose creation returned 0, with no write refused, is in the           *)
(* directory on the disk from then on, through crashes and mounts, in the order  *)
(* of creation.                                                            *)
CreatesKept ==
  /\ \A c \in created \ refused : \E e \in Files(dir) : e.id = c
  /\ \A j, k \in DOMAIN dir : j < k => dir[j].id < dir[k].id \/ dir[j].id = 0
=============================================================================
