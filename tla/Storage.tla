------------------------------ MODULE Storage -------------------------------
(***************************************************************************)
(* What outlives a request, in two parts that share no state: the files of *)
(* filesystem.Local and the models of package orm.                         *)
(***************************************************************************)
EXTENDS Integers, Sequences, FiniteSets

-----------------------------------------------------------------------------
(* filesystem.Local over a shared directory: Put and Copy write a temp     *)
(* file chunk by chunk and rename it over the target; Move, Delete and     *)
(* readers run in between.  A file is an inode: an open reader keeps the   *)
(* one it opened.  Its content is the number of its Chunks chunks that are *)
(* written.  Path resolution is left out.                                  *)

CONSTANTS Writers, Paths, Chunks,
          Unset              \* no path, no inode
VARIABLES dir,      \* name -> inode, over Paths and the writers' temp names
          inode,    \* the size of each inode: inode w is the one writer w made last
          op        \* what each writer is doing
fsVars == <<dir, inode, op>>
tmpName(w) == w
DirEntries == Paths \cup Writers
Idle == [pc |-> "idle", path |-> Unset, from |-> Unset]
Copying(p, f) == [pc |-> "copy", path |-> p, from |-> f]
DiskInit ==
  /\ dir = [e \in DirEntries |-> Unset]
  /\ inode = [w \in Writers |-> 0]
  /\ op = [w \in Writers |-> Idle]
-----------------------------------------------------------------------------
(* An inode is free for a new temp file once no name and no open reader holds it. *)
InUse(w) == (\E e \in DirEntries : dir[e] = w) \/ (\E v \in Writers : op[v].from = w)
(* PutStream: the directory and the temp file are made. *)
PutStream(w, p) ==
  /\ op[w] = Idle /\ ~InUse(w)
  /\ op' = [op EXCEPT ![w] = Copying(p, Unset)]
  /\ dir' = [dir EXCEPT ![tmpName(w)] = w]
  /\ inode' = [inode EXCEPT ![w] = 0]
(* Copy: Reader opens the source, which stays open while PutStream reads from it. *)
CopyFile(w, src, dst) ==
  /\ op[w] = Idle /\ ~InUse(w) /\ dir[src] # Unset
  /\ op' = [op EXCEPT ![w] = Copying(dst, dir[src])]
  /\ dir' = [dir EXCEPT ![tmpName(w)] = w]
  /\ inode' = [inode EXCEPT ![w] = 0]
(* io.Copy: one chunk, of the data or of the file being copied. *)
Chunk(w) ==
  /\ op[w].pc = "copy" /\ inode[w] < Chunks
  /\ op[w].from # Unset => inode[op[w].from] > inode[w]
  /\ inode' = [inode EXCEPT ![w] = @ + 1]
  /\ UNCHANGED <<dir, op>>
atEnd(w) == IF op[w].from = Unset THEN inode[w] = Chunks ELSE inode[w] >= inode[op[w].from]
target_early(w) == op[w].pc = "copy"
target(w) == op[w].pc = "copy" /\ atEnd(w)
(* Close, Chmod and Rename: the target name moves to the new inode in one step. *)
Rename(w) ==
  /\ target(w)
  /\ dir' = [dir EXCEPT ![op[w].path] = w, ![tmpName(w)] = Unset]
  /\ op' = [op EXCEPT ![w] = Idle]
  /\ UNCHANGED inode
removeTmp(w) == [dir EXCEPT ![tmpName(w)] = Unset]
(* The source fails, the context is cancelled, or a later step does: the temp file is removed. *)
Fails(w) ==
  /\ op[w].pc = "copy"
  /\ dir' = removeTmp(w)
  /\ op' = [op EXCEPT ![w] = Idle]
  /\ UNCHANGED inode
DeleteFile(p) ==
  /\ dir[p] # Unset
  /\ dir' = [dir EXCEPT ![p] = Unset]
  /\ UNCHANGED <<inode, op>>
Move(src, dst) ==
  /\ dir[src] # Unset
  /\ dir' = IF src = dst THEN dir ELSE [dir EXCEPT ![dst] = dir[src], ![src] = Unset]
  /\ UNCHANGED <<inode, op>>
DiskNext ==
  \/ \E w \in Writers, p \in Paths : PutStream(w, p)
  \/ \E w \in Writers, s \in Paths, d \in Paths : CopyFile(w, s, d)
  \/ \E w \in Writers : Chunk(w) \/ Rename(w) \/ Fails(w)
  \/ \E p \in Paths : DeleteFile(p)
  \/ \E s \in Paths, d \in Paths : Move(s, d)
-----------------------------------------------------------------------------
(* Whoever reads a path gets a whole file: no name but a temp name ever leads to a    *)
(* content still being written, whatever Puts, Copies, Moves and Deletes overlap      *)
(* (Disk.Put: "atomically"), and no two names lead to the same file.                  *)
WholeFiles ==
  /\ \A p \in Paths : dir[p] # Unset => inode[dir[p]] = Chunks
  /\ \A p, q \in Paths : p # q /\ dir[p] = dir[q] => dir[p] = Unset
(* A temp file exists only while its writer is writing: a Put that failed or was       *)
(* cancelled leaves nothing behind in the directory (PutStream's error paths).         *)
NoTempLeft == \A w \in Writers : dir[tmpName(w)] # Unset => op[w].pc = "copy" /\ dir[tmpName(w)] = w

-----------------------------------------------------------------------------
(* orm: callers hold copies of the rows of a soft-deletable model with an  *)
(* auto-increment key, and save, delete and restore them while another     *)
(* goroutine walks the table with Chunk.                                   *)

CONSTANTS
    Callers,
    MaxRows,        \* bound: rows inserted
    Size            \* Chunk's batch size

VARIABLES
    rows,       \* rows[k] = [created, deleted] of the rows in the table
    seq,        \* the last generated key
    copy,       \* copy[p]: the model p holds; pk 0 is a model not yet saved
    outdated,   \* history: callers whose copy another caller's Delete left behind
    gone,       \* history: rows that were soft-deleted and not restored ...
    stale,      \* ... and that an outdated copy was saved over
    chunk,      \* Chunk: [pc, last, seen], seen[k] the times row k was handed to fn
    always      \* history: rows in Chunk's scope ever since it started

ormVars == <<rows, seq, copy, outdated, gone, stale, chunk, always>>
Copy(k, created, deleted) == [pk |-> k, created |-> created, deleted |-> deleted]
NoCopy == Copy(-1, FALSE, FALSE)

OrmInit ==
    /\ rows = [k \in {} |-> NoCopy] /\ seq = 0 /\ copy = [p \in Callers |-> NoCopy]
    /\ outdated = {} /\ gone = {} /\ stale = {}
    /\ chunk = [pc |-> "new", last |-> 0, seen |-> [k \in 1 .. MaxRows |-> 0]] /\ always = {}

\* scopedQB in its three modes.
Live(t) == {k \in DOMAIN t : ~t[k].deleted}
Trashed(t) == {k \in DOMAIN t : t[k].deleted}
Track == always' = always \cap Live(rows')
Hold(p, c) == copy' = [copy EXCEPT ![p] = c] /\ outdated' = outdated \ {p}

-----------------------------------------------------------------------------
\* Find, with WithTrashed for a deleted row; or a model the caller fills in by hand.
Find(p, k) ==
    /\ k \in Live(rows) \cup Trashed(rows)
    /\ Hold(p, Copy(k, rows[k].created, rows[k].deleted))
    /\ UNCHANGED <<rows, seq, gone, stale, chunk, always>>
NewModel(p) ==
    /\ Hold(p, Copy(0, FALSE, FALSE))
    /\ UNCHANGED <<rows, seq, gone, stale, chunk, always>>
ByHand(p, k) ==
    /\ k \in Live(rows)
    /\ Hold(p, Copy(k, FALSE, FALSE))
    /\ UNCHANGED <<rows, seq, gone, stale, chunk, always>>

\* Save of a model without a key: timestamps, insert, and the key read back.
SaveNew(p) ==
    /\ copy[p].pk = 0 /\ seq < MaxRows
    /\ seq' = seq + 1
    /\ rows' = [k \in DOMAIN rows \cup {seq + 1} |->
                    IF k = seq + 1 THEN [created |-> TRUE, deleted |-> copy[p].deleted] ELSE rows[k]]
    /\ copy' = [copy EXCEPT ![p] = Copy(seq + 1, TRUE, copy[p].deleted)]
    /\ Track
    /\ UNCHANGED <<outdated, gone, stale, chunk>>

\* Save of a model with one: every column but the key and created_at.
collectUpdateValues(p, old) == [created |-> old.created, deleted |-> copy[p].deleted]
SaveUpdate(p) ==
    /\ copy[p].pk > 0
    /\ LET k == copy[p].pk IN
       /\ rows' = [j \in DOMAIN rows |-> IF j = k THEN collectUpdateValues(p, rows[k]) ELSE rows[j]]
       /\ stale' = IF p \in outdated THEN stale \cup {k} ELSE stale
    /\ Track
    /\ UNCHANGED <<seq, copy, outdated, gone, chunk>>

\* Delete stamps deleted_at in the row and in the caller's model.
setDeletedAt(c, d) == [c EXCEPT !.deleted = d]
Stamp(p, d) ==
    /\ rows' = [j \in DOMAIN rows |-> IF j = copy[p].pk THEN [rows[j] EXCEPT !.deleted = d] ELSE rows[j]]
    /\ copy' = [copy EXCEPT ![p] = setDeletedAt(@, d)]
    /\ Track
Delete(p) ==
    /\ copy[p].pk > 0
    /\ Stamp(p, TRUE)
    /\ gone' = gone \cup ({copy[p].pk} \cap DOMAIN rows)
    /\ stale' = stale \ {copy[p].pk}
    /\ outdated' = (outdated \cup {q \in Callers \ {p} : copy[q].pk = copy[p].pk /\ ~copy[q].deleted}) \ {p}
    /\ UNCHANGED <<seq, chunk>>
Restore(p) ==
    /\ copy[p].pk > 0
    /\ Stamp(p, FALSE)
    /\ gone' = gone \ {copy[p].pk}
    /\ UNCHANGED <<seq, outdated, stale, chunk>>
ForceDelete(p) ==
    /\ copy[p].pk > 0
    /\ rows' = [j \in DOMAIN rows \ {copy[p].pk} |-> rows[j]]
    /\ Track
    /\ UNCHANGED <<seq, copy, outdated, gone, stale, chunk>>

\* Chunk: one batch per query, the first Size rows after the cursor on the key.
remaining == {k \in Live(rows) : k > chunk.last}
batch == {k \in remaining : Cardinality({j \in remaining : j < k}) < Size}
final == CHOOSE k \in batch : \A j \in batch : j <= k
ChunkStart ==
    /\ chunk.pc = "new"
    /\ chunk' = [chunk EXCEPT !.pc = "on"] /\ always' = Live(rows)
    /\ UNCHANGED <<rows, seq, copy, outdated, gone, stale>>
ChunkBatch ==
    /\ chunk.pc = "on"
    /\ chunk' = [pc |-> IF Cardinality(batch) < Size THEN "done" ELSE "on",
                 last |-> IF batch = {} THEN chunk.last ELSE final,
                 seen |-> [k \in 1 .. MaxRows |-> IF k \in batch THEN chunk.seen[k] + 1 ELSE chunk.seen[k]]]
    /\ UNCHANGED <<rows, seq, copy, outdated, gone, stale, always>>

OrmNext ==
    \/ \E p \in Callers :
          \/ NewModel(p) \/ SaveNew(p) \/ SaveUpdate(p) \/ Delete(p) \/ Restore(p) \/ ForceDelete(p)
          \/ \E k \in DOMAIN rows : Find(p, k) \/ ByHand(p, k)
    \/ ChunkStart \/ ChunkBatch

\* Paginate's arithmetic for a total of n.
lastPage(n, per) == LET up == (n + per - 1) \div per IN IF up < 1 THEN 1 ELSE up
Page(n, per, i) == {k \in 1 .. n : (i - 1) * per < k /\ k <= i * per}

-----------------------------------------------------------------------------
\* Chunk hands every row that was in scope the whole time to fn once, and no row
\* twice, however many rows are inserted, deleted and restored between its batches.
ChunkOnce ==
    /\ \A k \in 1 .. MaxRows : chunk.seen[k] <= 1
    /\ chunk.pc = "done" => \A k \in always : chunk.seen[k] = 1

\* created_at survives every update, also one from a model that never loaded it.
CreatedAtKept == \A k \in DOMAIN rows : rows[k].created

\* A soft-deleted row leaves the trash through Restore only, or by saving a copy
\* another caller read before the Delete: the deleting caller's own copy is safe to save.
DeletedStays == \A k \in gone \cap DOMAIN rows : rows[k].deleted \/ k \in stale

\* For n rows in pages of per, the pages 1 to LastPage hold every row, and none of
\* them is empty.
PagesCover(n, per) ==
    LET last == lastPage(n, per) IN
    /\ UNION {Page(n, per, i) : i \in 1 .. last} = 1 .. n
    /\ n > 0 => Page(n, per, last) # {}

-----------------------------------------------------------------------------
Init == DiskInit /\ OrmInit
Next ==
    \/ DiskNext /\ UNCHANGED ormVars
    \/ OrmNext /\ UNCHANGED fsVars
-----------------------------------------------------------------------------
(* The inductive invariants of the properties above (OuterServicesProofs). *)
(* A writer at work has a temp file that nobody else has, and a file that is being     *)
(* read is complete and keeps its inode.                                               *)
DiskType ==
  /\ dir \in [DirEntries -> Writers \cup {Unset}]
  /\ inode \in [Writers -> 0 .. Chunks]
  /\ op \in [Writers -> [pc : {"idle", "copy"}, path : Paths \cup {Unset}, from : Writers \cup {Unset}]]
AtWork ==
  \A w \in Writers :
    /\ op[w].pc = "idle" => op[w] = Idle
    /\ op[w].pc = "copy" => dir[w] = w /\ op[w].path \in Paths /\ \A p \in Paths : dir[p] # w
    /\ op[w].from # Unset => inode[op[w].from] = Chunks /\ op[op[w].from].pc = "idle"
DiskInv == DiskType /\ AtWork /\ WholeFiles /\ NoTempLeft

Row == [created : BOOLEAN, deleted : BOOLEAN]
OrmType ==
    /\ seq \in 0 .. MaxRows /\ DOMAIN rows \in SUBSET (1 .. seq) /\ rows \in [DOMAIN rows -> Row]
    /\ copy \in [Callers -> [pk : Int, created : BOOLEAN, deleted : BOOLEAN]]
    /\ \A p \in Callers : copy[p].pk <= seq
    /\ gone \in SUBSET (1 .. seq)
\* A copy that would bring a deleted row back is known to be outdated, or has been.
CopiesKnown ==
    \A p \in Callers : copy[p].pk \in gone \cap DOMAIN rows /\ ~copy[p].deleted => p \in outdated \/ copy[p].pk \in stale
\* Chunk has handed over the rows up to its cursor, those that were in scope all along once.
ChunkInv ==
    /\ chunk \in [pc : {"new", "on", "done"}, last : Nat, seen : [1 .. MaxRows -> Nat]]
    /\ chunk.last <= seq /\ always \in SUBSET Live(rows)
    /\ \A k \in 1 .. MaxRows : chunk.seen[k] = 0 \/ (chunk.seen[k] = 1 /\ k <= chunk.last)
    /\ chunk.pc = "new" => chunk.last = 0
    /\ chunk.pc = "on" => \A k \in always : k <= chunk.last => chunk.seen[k] = 1
    /\ chunk.pc = "done" => \A k \in always : chunk.seen[k] = 1
OrmInv == OrmType /\ CreatedAtKept /\ CopiesKnown /\ DeletedStays /\ ChunkInv
=============================================================================
