------------------------------- MODULE Memory -------------------------------
(***************************************************************************)
(* The pool of blocks everything in the library is allocated from          *)
(* (gekkota_memory.c), the buffers on top of it (gekkota_buffer.c) and the *)
(* queues of a client whose nodes lie in its blocks (gekkota_xudpclient.c).*)
(*                                                                         *)
(* A block is a list node, its header, and a data area.  Headers are       *)
(* linked in the list of free or of allocated blocks; the first words of a *)
(* data area are linked in a queue while they are an acknowledgement or a  *)
(* message, and hold something else otherwise.  What malloc gives outside  *)
(* the pool is known by what its pointer is worth.                         *)
(***************************************************************************)
EXTENDS Naturals, Lists

CONSTANTS
    BlockCount,     \* fastHeap.blockCount
    Free, Used,     \* the sentinels of freeBlocks and of allocatedBlocks
    Acks, Messages, \* the sentinels of two queues of a client
    Holders,        \* whatever keeps one pointer to memory
    Nowhere, Shifted, Chunk, Wild, Stale   \* pointers that are not to a block

Blocks == 1..BlockCount
Headers == Blocks \cup {Free, Used}
Queues == {Acks, Messages}
Areas == Blocks \cup Queues
\* Not allocated; of malloc, moved by the size of a node that is not there; of
\* realloc; no memory at all, moved in the same way; of a pool that is no more.
NotBlocks == {Nowhere, Shifted, Chunk, Wild, Stale}

ASSUME BlockAssumption == BlockCount \in Nat \ {0}
ASSUME NodeAssumption ==
    /\ Free # Used /\ Free \notin Blocks /\ Used \notin Blocks
    /\ Acks # Messages /\ Acks \notin Blocks /\ Messages \notin Blocks
    /\ Null # Junk /\ {Null, Junk} \cap (Headers \cup Areas) = {}
    /\ NotBlocks \cap Blocks = {} /\ "data" \notin Queues

VARIABLES
    pool,     \* fastHeap.memory: "none", "growing" inside of initialize, "ready"
    turn,     \* the block the loop of initialize is at
    heads,    \* the links of the headers
    areas,    \* the links that the first words of the data areas are
    held,     \* the pointer of each holder
    role,     \* what a holder's memory is: "data", or a node of a queue
    failed,   \* history: has a holder lost its block while it was to grow
    fault     \* the first thing done that C does not define

poolVars == <<pool, turn, heads, areas, held, role, failed, fault>>

Faults == {"none", "overrun", "null", "free", "list"}

PoolTypeOK ==
    /\ pool \in {"none", "growing", "ready"}
    /\ turn \in 1..BlockCount + 1
    /\ heads \in [next : [Headers -> Headers \cup {Null, Junk}],
                  previous : [Headers -> Headers \cup {Null, Junk}]]
    /\ areas \in [next : [Areas -> Areas \cup {Null, Junk}],
                  previous : [Areas -> Areas \cup {Null, Junk}]]
    /\ held \in [Holders -> Blocks \cup NotBlocks]
    /\ role \in [Holders -> {"data"} \cup Queues]
    /\ failed \in BOOLEAN
    /\ fault \in Faults

Unlinked(nodes, word) == [next |-> [x \in nodes |-> word[x]], previous |-> [x \in nodes |-> word[x]]]

PoolInit ==
    /\ pool = "none" /\ turn = 1
    /\ heads = Unlinked(Headers, [x \in Headers |-> Null])
    /\ areas = Unlinked(Areas, [x \in Areas |-> Null])
    /\ held = [h \in Holders |-> Nowhere]
    /\ role = [h \in Holders |-> "data"]
    /\ failed = FALSE /\ fault = "none"

-----------------------------------------------------------------------------
(* The pool.                                                               *)

\* malloc gives what others left there: the words of the headers and of the
\* areas of junk are not null.
PoolInitialize ==
    /\ pool = "none"
    /\ \E junk \in SUBSET Blocks :
         LET word(nodes) == [x \in nodes |-> IF x \in junk THEN Junk ELSE Null]
         IN  /\ heads' = ListClear(ListClear(Unlinked(Headers, word(Headers)), Used), Free)
             /\ areas' = ListClear(ListClear(Unlinked(Areas, word(Areas)), Acks), Messages)
    /\ pool' = "growing" /\ turn' = 1
    /\ UNCHANGED <<held, role, failed, fault>>

\* One turn of the loop that fills freeBlocks: what gekkota_list_add answers
\* is not looked at.
AddBlock ==
    /\ pool = "growing"
    /\ heads' = ListAdd(heads, Free, turn)
    /\ turn' = turn + 1
    /\ pool' = IF turn = BlockCount THEN "ready" ELSE pool
    /\ UNCHANGED <<areas, held, role, failed, fault>>

\* All memory of the pool goes, whoever holds a part of it.
PoolUninitialize ==
    /\ pool = "ready"
    /\ pool' = "none" /\ turn' = 1
    /\ heads' = Unlinked(Headers, [x \in Headers |-> Null])
    /\ areas' = Unlinked(Areas, [x \in Areas |-> Null])
    /\ held' = [h \in Holders |-> IF held[h] \in Blocks THEN Stale ELSE held[h]]
    /\ failed' = FALSE
    /\ UNCHANGED <<role, fault>>

-----------------------------------------------------------------------------
(* Allocation.                                                             *)

First(l, s) == l.next[s]

\* Block b goes from freeBlocks to allocatedBlocks.
Taken(b) == ListAdd(ListRemove(heads, b), Used, b)

\* Mutant: it is added to freeBlocks, but not removed from the other list.
ReturnedTwice(b) == ListAdd(heads, Free, b)

\* Block b goes from allocatedBlocks, its place, to the end of freeBlocks.
Returned(b) == ListAdd(ListRemove(heads, b), Free, b)

\* Mutant: the words are left as they are.
ClearedNot(b, initialize) == areas

\* The words of block b's area, set to zero or left, and then linked in q.
Cleared(b, initialize) ==
    IF initialize THEN [next |-> [areas.next EXCEPT ![b] = Null],
                        previous |-> [areas.previous EXCEPT ![b] = Null]]
    ELSE areas

\* Data that is written, over what was at the beginning of the area.
Written(b) == [next |-> [areas.next EXCEPT ![b] = Junk],
               previous |-> [areas.previous EXCEPT ![b] = Junk]]

\* The first free block, if there is one and the request fits in it.
AllocBlock(h, initialize) ==
    /\ pool = "ready" /\ ~IsEmpty(heads, Free)
    /\ LET b == First(heads, Free)
       IN  /\ heads' = Taken(b)
           /\ areas' = Cleared(b, initialize)
           /\ held' = [held EXCEPT ![h] = b]
    /\ UNCHANGED <<pool, turn, failed>>

\* Memory of malloc, or none, for a request that is too large or finds no free
\* block: either way the pointer is moved by the size of a node, and not null.
AllocChunk(h, initialize) ==
    /\ pool = "ready"
    /\ \E given \in {Shifted, Wild} :
         /\ held' = [held EXCEPT ![h] = given]
         /\ fault' = IF ~initialize THEN fault
                     ELSE IF given = Shifted THEN "overrun" ELSE "null"
    /\ UNCHANGED <<pool, turn, heads, areas, failed>>

\* gekkota_memory_alloc, gekkota_buffer_malloc: too large a request or not.
Malloc(h) ==
    /\ held[h] = Nowhere
    /\ \E initialize \in BOOLEAN :
         \/ AllocBlock(h, initialize) /\ UNCHANGED fault
         \/ AllocChunk(h, initialize)
    /\ role' = [role EXCEPT ![h] = "data"]

\* The memory is used: all that was asked for is written.
Write(h) ==
    /\ held[h] \notin {Nowhere, Stale, Chunk} /\ role[h] = "data" /\ pool = "ready"
    /\ areas' = IF held[h] \in Blocks THEN Written(held[h]) ELSE areas
    /\ fault' = CASE held[h] = Shifted -> "overrun"
                  [] held[h] = Wild -> "null"
                  [] OTHER -> fault
    /\ UNCHANGED <<pool, turn, heads, held, role, failed>>

\* gekkota_memory_free, gekkota_buffer_free.  A block is known by its address;
\* what is not one goes to free(), which knows what malloc and realloc gave.
Release(h) ==
    /\ held[h] # Nowhere /\ role[h] = "data" /\ pool # "growing"
    /\ heads' = IF held[h] \in Blocks THEN Returned(held[h]) ELSE heads
    /\ fault' = IF pool = "none" \/ held[h] \in Blocks \cup {Chunk} THEN fault ELSE "free"
    /\ held' = [held EXCEPT ![h] = Nowhere]
    /\ UNCHANGED <<pool, turn, areas, role, failed>>

\* gekkota_memory_realloc, gekkota_buffer_resize: to a size that fits a block or
\* not.  A block is returned before malloc is asked for something larger: if
\* there is none the buffer keeps the pointer to the block it has no more.
Resize(h, large, initialize) ==
    /\ held[h] # Nowhere /\ role[h] = "data" /\ pool = "ready"
    /\ \/ /\ held[h] \in Blocks /\ ~large
          /\ areas' = Cleared(held[h], initialize)
          /\ UNCHANGED <<heads, held, failed, fault>>
       \/ /\ held[h] \in Blocks /\ large
          /\ heads' = Returned(held[h])
          /\ \E given \in BOOLEAN :
               /\ held' = [held EXCEPT ![h] = IF given THEN Chunk ELSE @]
               /\ failed' = (failed \/ ~given)
               /\ fault' = IF ~given /\ initialize THEN "null" ELSE fault
          /\ UNCHANGED areas
       \/ /\ held[h] = Chunk
          /\ \E given \in BOOLEAN :
               fault' = IF ~given /\ initialize THEN "null" ELSE fault
          /\ UNCHANGED <<heads, areas, held, failed>>
       \/ /\ held[h] \notin Blocks \cup {Chunk}
          /\ fault' = "free"
          /\ UNCHANGED <<heads, areas, held, failed>>
    /\ UNCHANGED <<pool, turn, role>>

-----------------------------------------------------------------------------
(* The queues of a client.                                                 *)

\* An acknowledgement, whose memory is not initialized, or a message, whose
\* memory is, allocated from the pool and added to its queue.
Enqueue(h, q) ==
    /\ held[h] = Nowhere /\ pool = "ready"
    /\ role' = [role EXCEPT ![h] = q]
    /\ \/ /\ ~IsEmpty(heads, Free)
          /\ LET b == First(heads, Free)
             IN  /\ heads' = Taken(b)
                 /\ held' = [held EXCEPT ![h] = b]
                 /\ areas' = ListAdd(Cleared(b, q = Messages), q, b)
          /\ fault' = IF areas.previous[q] \in Areas THEN fault ELSE "list"
          /\ UNCHANGED <<pool, turn, failed>>
       \/ IsEmpty(heads, Free) /\ AllocChunk(h, TRUE)

\* The first of a queue is sent: it leaves the queue and its memory is freed.
Dequeue(q) ==
    /\ pool = "ready" /\ ~IsEmpty(areas, q)
    /\ LET b == First(areas, q)
       IN  IF b \in Blocks /\ {areas.next[b], areas.previous[b]} \subseteq Areas
           THEN /\ areas' = ListRemove(areas, b)
                /\ heads' = Returned(b)
                /\ held' = [h \in Holders |->
                              IF held[h] = b /\ role[h] = q THEN Nowhere ELSE held[h]]
                /\ UNCHANGED fault
           ELSE fault' = "list" /\ UNCHANGED <<areas, heads, held>>
    /\ UNCHANGED <<pool, turn, role, failed>>

PoolNext ==
    /\ fault = "none"
    /\ \/ PoolInitialize \/ AddBlock \/ PoolUninitialize
       \/ \E h \in Holders :
            \/ Malloc(h) \/ Write(h) \/ Release(h)
            \/ \E large, initialize \in BOOLEAN : Resize(h, large, initialize)
            \/ \E q \in Queues : Enqueue(h, q)
       \/ \E q \in Queues : Dequeue(q)

PoolSpec == PoolInit /\ [][PoolNext]_poolVars

-----------------------------------------------------------------------------
(* Properties.                                                             *)

\* The blocks a walk from sentinel s meets.
Members(l, s, nodes) ==
    LET walk[n \in 0..BlockCount] ==
            IF n = 0 THEN s
            ELSE IF walk[n - 1] \in nodes THEN l.next[walk[n - 1]] ELSE Null
    IN  {walk[n] : n \in 0..BlockCount} \cap Blocks

\* Blocks that initialize did not lose.
Kept == {b \in Blocks : heads.next[b] \in Headers}

\* Some set of nodes has one sentinel and not the other, and no link leads out of it.
Apart ==
    \E free \in SUBSET Headers :
        /\ Free \in free /\ Used \notin free
        /\ \A x \in Headers : heads.next[x] \in Headers => (x \in free <=> heads.next[x] \in free)

\* Whatever is allocated, resized and freed, and in whatever order, the lists
\* of blocks stay sound and apart, and what a holder takes for its block is in
\* one of them: even after a buffer that could not grow kept the block it lost.
ListsAreSound ==
    pool # "none" =>
        /\ Sound(heads, Headers)
        /\ Apart
        /\ heads.next[Free] \in Headers /\ heads.next[Used] \in Headers
        /\ \A h \in Holders : held[h] \in Blocks => heads.next[held[h]] \in Headers

\* Unless a buffer could not grow, no block has two holders, and the blocks in
\* use are those that are held: none is lost, none is free and in use.
HeldOnce ==
    ~failed /\ fault = "none" /\ pool = "ready" =>
        LET taken == {held[h] : h \in Holders} \cap Blocks
        IN  /\ \A g, h \in Holders : held[g] \in Blocks /\ held[g] = held[h] => g = h
            /\ Members(heads, Used, Headers) = taken
            /\ Members(heads, Free, Headers) = Kept \ taken

\* A queue holds only what its client queued, and every message it queued: an
\* element of another queue, or memory that was freed, is never met.
QueuesAreTheirs ==
    ~failed /\ fault = "none" /\ pool = "ready" =>
        /\ \A q \in Queues : \A b \in Members(areas, q, Areas) :
              \E h \in Holders : held[h] = b /\ role[h] = q
        /\ \A h \in Holders :
              held[h] \in Blocks /\ role[h] = Messages => held[h] \in Members(areas, Messages, Areas)

\* "If the case, send back an acknowledgement": what is queued is in the queue.
AcknowledgementIsQueued ==
    ~failed /\ fault = "none" /\ pool = "ready" =>
        \A h \in Holders :
            held[h] \in Blocks /\ role[h] = Acks => held[h] \in Members(areas, Acks, Areas)
=============================================================================
