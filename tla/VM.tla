--------------------------------- MODULE VM ---------------------------------
(***************************************************************************)
(* Virtual memory: the coremap (coremap.c), two-level page tables with     *)
(* copy-on-write (page_table.c), vm_fault and the address-space calls      *)
(* (vm.c), and the TLB of the one CPU.  All of it runs with interrupts     *)
(* off, so a call is one action, except that a fault on a page of the      *)
(* program file sleeps in VOP_READ while other processes run.              *)
(*                                                                         *)
(* A page-table entry is its frame, TLBLO_DIRTY (the page may be written)  *)
(* and PTE_READONLY (not before it has been copied).  TLBLO_VALID clear is *)
(* NULL.                                                                   *)
(***************************************************************************)
EXTENDS Integers, FiniteSets, FiniteSetsExt

CONSTANTS
    Proc,       \* address spaces
    Page,       \* user pages
    Writable,   \* the pages in regions with PF_W, the stack and the heap
    FromFile,   \* the pages that are read from the program file
    TablePages, \* the frames of a page table: the first level and, for pages
                \* that lie close together, one second-level table
    NFrames,    \* COREMAP_SIZE
    NumTlb,     \* NUM_TLB
    Value,      \* contents of a page
    Initial,    \* the contents of every page as loaded or zeroed
    MaxBlock,   \* bound: pages in one allocation of the kernel
    MaxBlocks,  \* bound: such allocations at a time
    MaxLost,    \* bound: reads of a page that fail
    NULL

ASSUME VMAssumption ==
    /\ Writable \subseteq Page
    /\ FromFile \subseteq Page
    /\ NFrames \in Nat \ {0}
    /\ NumTlb \in Nat \ {0}
    /\ TablePages \in Nat \ {0}
    /\ Initial \in Value
    /\ MaxBlock \in 1..255
    /\ MaxBlocks \in Nat
    /\ MaxLost \in Nat
    /\ NULL \notin Value

VARIABLES
    alloc_size, \* of each frame in the coremap: 0 when it is unallocated
    shared,     \* of each frame: the number of page-table entries, less one
    unallocated,\* UNALLOCATED_FRAME
    blocks,     \* the kernel's own allocations: their first frames
    pt,         \* the page table of each address space
    tables,     \* the frames of its page table
    loading,    \* the page and frame whose VOP_READ a process sleeps in
    lost,       \* the frames that nothing refers to after a failed read
    content,    \* of each frame; NULL stands for what its last use left
    cur,        \* the process on the CPU
    live,       \* the processes that exist
    tlb

coremapVars == <<alloc_size, shared, unallocated>>
spaceVars == <<pt, tables, live, cur>>
loadVars == <<loading, lost>>
vars == <<coremapVars, blocks, spaceVars, loadVars, content, tlb>>

Frame == 0..(NFrames - 1)
Pte == [frame : Frame, dirty : BOOLEAN, readonly : BOOLEAN]
TlbEntry == [page : Page, frame : Frame, dirty : BOOLEAN]
TlbIndex == 1..NumTlb

VMTypeOK ==
    /\ alloc_size \in [Frame -> 0..255]
    /\ shared \in [Frame -> 0..255]
    /\ unallocated \in 0..NFrames
    /\ blocks \subseteq Frame
    /\ pt \in [Proc -> [Page -> Pte \cup {NULL}]]
    /\ tables \in [Proc -> SUBSET Frame]
    /\ loading \in [Proc -> [page : Page, frame : Frame] \cup {NULL}]
    /\ lost \subseteq Frame
    /\ content \in [Frame -> Value \cup {NULL}]
    /\ live \subseteq Proc
    /\ cur \in live \cup {NULL}
    /\ tlb \in [TlbIndex -> TlbEntry \cup {NULL}]

Unmapped == [v \in Page |-> NULL]

VMInit ==
    /\ alloc_size = [f \in Frame |-> 0]
    /\ shared = [f \in Frame |-> 0]
    /\ unallocated = NFrames
    /\ blocks = {}
    /\ pt = [p \in Proc |-> Unmapped]
    /\ tables = [p \in Proc |-> {}]
    /\ loading = [p \in Proc |-> NULL]
    /\ lost = {}
    /\ content = [f \in Frame |-> NULL]
    /\ live = {}
    /\ cur = NULL
    /\ tlb = [i \in TlbIndex |-> NULL]

-----------------------------------------------------------------------------

\* Where n unallocated frames in a row begin.
Runs(sizes, n) ==
    {i \in Frame : i + n <= NFrames /\ \A j \in 0..(n - 1) : sizes[i + j] = 0}

\* allocate_frame: the first run; its sizes count down to 1.
Allocated(sizes, n) ==
    LET i == Min(Runs(sizes, n))
    IN [f \in Frame |-> IF f \in i..(i + n - 1) THEN i + n - f ELSE sizes[f]]

\* Mutant: the frame after the block is freed with it.
BlockAndNext(f) ==
    {g \in Frame : g >= f /\ \A h \in f..(g - 2) : alloc_size[h] # 1}

\* The frames that free_frame clears from f on: as far as the next size 1.
Block(f) == {g \in Frame : g >= f /\ \A h \in f..(g - 1) : alloc_size[h] # 1}

\* kmalloc of n pages by the kernel.
alloc_kpages(n) ==
    /\ Cardinality(blocks) < MaxBlocks
    /\ n <= unallocated
    /\ Runs(alloc_size, n) # {}
    /\ blocks' = blocks \cup {Min(Runs(alloc_size, n))}
    /\ alloc_size' = Allocated(alloc_size, n)
    /\ unallocated' = unallocated - n
    /\ UNCHANGED <<shared, spaceVars, loadVars, content, tlb>>

free_kpages(f) ==
    /\ f \in blocks
    /\ blocks' = blocks \ {f}
    /\ alloc_size' = [g \in Frame |-> IF g \in Block(f) THEN 0 ELSE alloc_size[g]]
    /\ shared' = [g \in Frame |-> IF g \in Block(f) THEN 0 ELSE shared[g]]
    /\ unallocated' = unallocated + Cardinality(Block(f))
    /\ UNCHANGED <<spaceVars, loadVars, content, tlb>>

\* Single frames taken one after the other, n of them.
Taken(n) == {f \in Frame : /\ alloc_size[f] = 0
                           /\ Cardinality({g \in 0..f : alloc_size[g] = 0}) <= n}

TakeFrames(fs) ==
    /\ alloc_size' = [f \in Frame |-> IF f \in fs THEN 1 ELSE alloc_size[f]]
    /\ unallocated' = unallocated - Cardinality(fs)

-----------------------------------------------------------------------------
Mapped(p) == {v \in Page : pt[p][v] # NULL}


\* as_activate.
Flushed == [i \in TlbIndex |-> NULL]

\* runprogram: a new address space, with no page table yet.
as_create(p) ==
    /\ p \in Proc \ live
    /\ live' = live \cup {p}
    /\ cur' = p
    /\ pt' = [pt EXCEPT ![p] = Unmapped]
    /\ tlb' = Flushed
    /\ UNCHANGED <<coremapVars, blocks, tables, loadVars, content>>

\* mi_switch to another process.
as_activate(p) ==
    /\ p \in live \ {cur}
    /\ loading[p] = NULL
    /\ cur' = p
    /\ tlb' = Flushed
    /\ UNCHANGED <<coremapVars, blocks, pt, tables, live, loadVars, content>>

\* Mutant: a frame that is shared is freed.
FreedByAll(p) == {pt[p][v].frame : v \in Mapped(p)}

\* The frames pt_deep_destroy frees; for the others it decrements the count.
FreedBy(p) == {f \in {pt[p][v].frame : v \in Mapped(p)} : shared[f] = 0}

\* as_destroy.
DestroySpace(p) ==
    LET freed == UNION {Block(f) : f \in FreedBy(p) \cup tables[p]}
        kept == {pt[p][v].frame : v \in Mapped(p)} \ freed
    IN /\ content' = [f \in Frame |-> IF f \in freed THEN NULL ELSE content[f]]
       /\ alloc_size' = [f \in Frame |-> IF f \in freed THEN 0 ELSE alloc_size[f]]
       /\ shared' = [f \in Frame |-> IF f \in freed THEN 0
                                     ELSE IF f \in kept THEN (shared[f] - 1) % 256
                                     ELSE shared[f]]
       /\ unallocated' = unallocated + Cardinality(freed)
       /\ pt' = [pt EXCEPT ![p] = Unmapped]
       /\ tables' = [tables EXCEPT ![p] = {}]

\* thread_exit of process p; the next one is not chosen yet.
Ended(p) ==
    /\ DestroySpace(p)
    /\ live' = live \ {p}
    /\ cur' = NULL
    /\ UNCHANGED <<blocks, tlb>>

exit ==
    /\ cur # NULL
    /\ Ended(cur)
    /\ UNCHANGED loadVars

\* sys_execv: a new address space takes the place of the old one.
execv ==
    /\ cur # NULL
    /\ DestroySpace(cur)
    /\ tlb' = Flushed
    /\ UNCHANGED <<blocks, live, cur, loadVars>>

\* Mutant: the parent's entry is copied to the child as it is.
ChildPteWritable(e) == e

\* make_readonly on the child's page table; the parent's table is traversed
\* with coremap_update = 0 and stays as it is.
ChildPte(e) == IF e = NULL THEN NULL ELSE [e EXCEPT !.readonly = TRUE]

\* as_make_readonly.
ReadOnlyTlb == [i \in TlbIndex |-> IF tlb[i] = NULL THEN NULL
                                   ELSE [tlb[i] EXCEPT !.dirty = FALSE]]

\* sys_fork, when there is memory for the tables of the child.
fork(q) ==
    /\ cur # NULL
    /\ q \in Proc \ live
    /\ tables[cur] # {}
    /\ unallocated >= TablePages
    /\ TakeFrames(Taken(TablePages))
    /\ tables' = [tables EXCEPT ![q] = Taken(TablePages)]
    /\ pt' = [pt EXCEPT ![q] = [v \in Page |-> ChildPte(pt[cur][v])]]
    /\ LET copied == {pt[cur][v].frame : v \in Mapped(cur)}
       IN shared' = [f \in Frame |-> IF f \in copied THEN (shared[f] + 1) % 256
                                     ELSE shared[f]]
    /\ live' = live \cup {q}
    /\ tlb' = ReadOnlyTlb
    /\ UNCHANGED <<blocks, cur, loadVars, content>>

-----------------------------------------------------------------------------
\* The TLB entries for page v.
TlbFor(v) == {i \in TlbIndex : tlb[i] # NULL /\ tlb[i].page = v}

\* Mutant: entrylo always has the write permission of the page.
EntryloDirty(e) == e.dirty

\* The write permission pt_lookup puts into entrylo on a read or write fault.
EntryloPermits(e) == e.dirty /\ ~e.readonly

\* The slot vm_fault writes: the first invalid one, or, when there is none,
\* a random one.
Slots ==
    LET invalid == {i \in TlbIndex : tlb[i] = NULL}
    IN IF invalid = {} THEN TlbIndex ELSE {Min(invalid)}

Refill(v, e) ==
    \E i \in Slots : tlb' = [tlb EXCEPT ![i] =
        [page |-> v, frame |-> e.frame, dirty |-> EntryloPermits(e)]]

\* A user access to page v that misses in the TLB; the page is mapped.
vm_fault_found(v) ==
    /\ cur # NULL
    /\ TlbFor(v) = {}
    /\ v \in Mapped(cur)
    /\ Refill(v, pt[cur][v])
    /\ UNCHANGED <<coremapVars, blocks, spaceVars, loadVars, content>>

\* The frames a fault on an unmapped page takes: the tables if they do not
\* exist, then the page.
Needed == IF tables[cur] = {} THEN TablePages + 1 ELSE 1

\* Mutant: every page is made writable.
NewPteWritable(v, f) == [frame |-> f, dirty |-> TRUE, readonly |-> FALSE]

\* update_second_pt_entry.
NewPte(v, f) == [frame |-> f, dirty |-> v \in Writable, readonly |-> FALSE]

\* The same for a heap or stack page that is not mapped yet.
vm_fault_zero(v) ==
    /\ cur # NULL
    /\ v \notin Mapped(cur) \cup FromFile
    /\ Needed <= unallocated
    /\ LET f == Max(Taken(Needed))
       IN /\ TakeFrames(Taken(Needed))
          /\ tables' = [tables EXCEPT ![cur] = @ \cup (Taken(Needed) \ {f})]
          /\ pt' = [pt EXCEPT ![cur][v] = NewPte(v, f)]
          /\ content' = [content EXCEPT ![f] = Initial]
          /\ Refill(v, NewPte(v, f))
    /\ UNCHANGED <<shared, blocks, live, cur, loadVars>>

\* For a code or data page: as_load_page sleeps in VOP_READ.
vm_fault_load(v) ==
    /\ cur # NULL
    /\ v \in FromFile \ Mapped(cur)
    /\ Needed <= unallocated
    /\ LET f == Max(Taken(Needed))
       IN /\ TakeFrames(Taken(Needed))
          /\ tables' = [tables EXCEPT ![cur] = @ \cup (Taken(Needed) \ {f})]
          /\ loading' = [loading EXCEPT ![cur] = [page |-> v, frame |-> f]]
    /\ cur' = NULL
    /\ UNCHANGED <<shared, blocks, pt, live, lost, content, tlb>>

\* VOP_READ has read the page: p runs again, and the handler goes on.
vm_fault_loaded(p) ==
    /\ loading[p] # NULL
    /\ LET v == loading[p].page
           f == loading[p].frame
       IN /\ pt' = [pt EXCEPT ![p][v] = NewPte(v, f)]
          /\ content' = [content EXCEPT ![f] = Initial]
          /\ tlb' = [Flushed EXCEPT ![1] = [page |-> v, frame |-> f,
                                           dirty |-> EntryloPermits(NewPte(v, f))]]
    /\ cur' = p
    /\ loading' = [loading EXCEPT ![p] = NULL]
    /\ UNCHANGED <<coremapVars, blocks, tables, live, lost>>

\* VOP_READ fails: as_load_page returns with the frame in no one's hands,
\* and kill_curthread ends the process.
vm_fault_unread(p) ==
    /\ loading[p] # NULL
    /\ Cardinality(lost) < MaxLost
    /\ lost' = lost \cup {loading[p].frame}
    /\ loading' = [loading EXCEPT ![p] = NULL]
    /\ Ended(p)

\* No frame: vm_fault returns ENOMEM and kill_curthread ends the process.
vm_fault_nomem(v) ==
    /\ cur # NULL
    /\ v \notin Mapped(cur)
    /\ Needed > unallocated
    /\ exit


\* pt_copy_on_write: decrefcount.
SharedAfterCopy(f) == [shared EXCEPT ![f] = (@ - 1) % 256]


Copied(old, new) == [content EXCEPT ![new] = content[old]]

\* A write through a TLB entry without write permission, to a page that may
\* be written (pt_copy_on_write).  When it may not, vm_fault panics.  There is
\* a frame for the copy: see the README for what happens when there is none.
vm_fault_readonly(v) ==
    /\ cur # NULL
    /\ \E i \in TlbFor(v) :
         LET e == pt[cur][v]
             new == IF shared[e.frame] # 0
                    THEN [frame |-> Min(Taken(1)), dirty |-> TRUE, readonly |-> FALSE]
                    ELSE [e EXCEPT !.readonly = FALSE]
         IN /\ ~tlb[i].dirty /\ e.dirty
            /\ IF shared[e.frame] # 0
               THEN /\ unallocated > 0
                    /\ TakeFrames(Taken(1))
                    /\ shared' = SharedAfterCopy(e.frame)
                    /\ content' = Copied(e.frame, new.frame)
               ELSE UNCHANGED <<coremapVars, content>>
            /\ pt' = [pt EXCEPT ![cur][v] = new]
            /\ tlb' = [tlb EXCEPT ![i] =
                 [page |-> v, frame |-> new.frame, dirty |-> new.dirty]]
    /\ UNCHANGED <<blocks, tables, live, cur, loadVars>>

\* The program writes x to page v through a TLB entry that permits it.
write(v, x) ==
    /\ cur # NULL
    /\ \E i \in TlbFor(v) :
         /\ tlb[i].dirty
         /\ content' = [content EXCEPT ![tlb[i].frame] = x]
    /\ UNCHANGED <<coremapVars, blocks, spaceVars, loadVars, tlb>>

VMNext ==
    \/ \E n \in 1..MaxBlock : alloc_kpages(n)
    \/ \E f \in Frame : free_kpages(f)
    \/ \E p \in Proc : as_create(p) \/ as_activate(p) \/ fork(p)
    \/ exit \/ execv
    \/ \E v \in Page : \/ vm_fault_found(v) \/ vm_fault_zero(v) \/ vm_fault_load(v)
                       \/ vm_fault_nomem(v) \/ vm_fault_readonly(v)
    \/ \E p \in Proc : vm_fault_loaded(p) \/ vm_fault_unread(p)
    \/ \E v \in Page, x \in Value : write(v, x)

VMSpec == VMInit /\ [][VMNext]_vars

-----------------------------------------------------------------------------
\* The page-table entries that map frame f.
Mappers(f) == {<<p, v>> \in Proc \X Page : pt[p][v] # NULL /\ pt[p][v].frame = f}



\* At most one page-table entry lets its process write a frame in place: all
\* others that map it have PTE_READONLY and copy first.
OneWriter == \A f \in Frame :
    Cardinality({m \in Mappers(f) : ~pt[m[1]][m[2]].readonly}) <= 1


\* Pages of a read-only region keep what was loaded from the program file.
TextUnchanged ==
    \A p \in live : \A v \in Mapped(p) \ Writable :
        content[pt[p][v].frame] = Initial

\* What process p reads in page v.
View(p, v) == content[pt[p][v].frame]


\* "The two processes do not share memory ... subsequent modification in one
\* process does not affect the other" (fork.html): the program can write
\* only into frames that no other process maps.
Isolation ==
    cur # NULL => \A i \in TlbIndex : tlb[i] # NULL /\ tlb[i].dirty =>
        Mappers(tlb[i].frame) = {<<cur, tlb[i].page>>}
=============================================================================
