---------------------------- MODULE ShardPrefetch ----------------------------
(***************************************************************************)
(* The page cache of a checkpoint while one rank reads it:                 *)
(* _BlockwiseDiskFiller._handle, _await_or_warm, _prefetch_after,          *)
(* _retire_keys and finalize.  The fill reads one unit (a block, at last   *)
(* the tail) after the other, each from one or more shards.  A shard is    *)
(* streamed into the page cache before it is mapped, the next one by a     *)
(* thread meanwhile, and dropped when no key of it is owed any more.       *)
(***************************************************************************)
EXTENDS Naturals, Sequences, FiniteSets

CONSTANTS
    NumShards,  \* shards, in the order of the checkpoint index
    NumUnits,   \* blocks and the tail
    UnitKeys,   \* bound: the shard changes within a unit, plus one
    Chunks,     \* pread calls of one stream
    Depth,      \* XDIT_WARM_SHARDS: 0 off, 1 the shard read, 2 also the next
    FreeShards  \* bound: the shards of a checkpoint that is read out of order

ASSUME SizesAssumption ==
    NumShards \in Nat /\ NumUnits \in Nat \ {0} /\ UnitKeys \in Nat /\ Chunks \in Nat \ {0}
ASSUME DepthAssumption == Depth \in Nat /\ FreeShards \in Nat

Shards == 1 .. NumShards
Units  == 1 .. NumUnits
None   == 0

VARIABLES
    layout,    \* layout[u]: the shards of the keys of unit u, in reading order
    surplus,   \* the shards with a key the fill never asks for
    pc, unit, key,
    handle,    \* the shard that is mapped, or None
    cached,    \* the shards with pages in the page cache
    streamed,  \* _streamed: the shards believed to be in page cache
    thread,    \* _prefetch_thread: the shard of the last prefetch not yet joined
    stream     \* stream[s]: the preads left to a running prefetch of s

vars == <<layout, surplus, pc, unit, key, handle, cached, streamed, thread, stream>>

-----------------------------------------------------------------------------
Needed     == layout[unit][key]
\* An operator whose name ends in _Something is a mutant of the next one.
Running(s) == stream[s] > 0
Mapped(u)  == {layout[u][k] : k \in DOMAIN layout[u]}

\* _unread_by_shard: does the fill owe a key of s, from unit u on?
OwedFrom(u, s) == s \in surplus \/ \E v \in u .. NumUnits : s \in Mapped(v)

\* _handle: unmap the old shard, make the new one warm, map it.
WarmsFirst_Always(s) == Depth > 0
WarmsFirst(s) == Depth > 0 /\ s \notin streamed
Open ==
    /\ pc = "read" /\ handle # Needed
    /\ handle' = Needed
    /\ cached' = IF WarmsFirst(Needed) THEN cached \union {Needed} ELSE cached
    /\ streamed' = IF Depth > 0 THEN streamed \union {Needed} ELSE streamed
    /\ pc' = IF Depth > 1 THEN "prefetch" ELSE "get"
    /\ UNCHANGED <<layout, surplus, unit, key, thread, stream>>

\* _join_prefetch: the thread it waits for has ended.
Joined_Never == TRUE
Joined == thread # None => ~Running(thread)

\* _prefetch_after: stream the shard that follows, if it is wanted and cold.
Follows == IF handle = NumShards THEN None ELSE handle + 1
Wanted(s) == s # None /\ s \notin streamed /\ OwedFrom(unit, s)
PrefetchAfter ==
    /\ pc = "prefetch"
    /\ pc' = "get"
    /\ \/ /\ ~Wanted(Follows)
          /\ UNCHANGED <<streamed, thread, stream>>
       \/ /\ Wanted(Follows) /\ Joined
          /\ streamed' = streamed \union {Follows}
          /\ thread' = Follows
          /\ stream' = [stream EXCEPT ![Follows] = Chunks]
    /\ UNCHANGED <<layout, surplus, unit, key, handle, cached>>

\* get_tensor: the mapping faults the pages that are not there.
Get ==
    /\ \/ pc = "get"
       \/ pc = "read" /\ handle = Needed
    /\ cached' = cached \union {Needed}
    /\ IF key = Len(layout[unit])
       THEN pc' = "retire" /\ UNCHANGED key
       ELSE pc' = "read" /\ key' = key + 1
    /\ UNCHANGED <<layout, surplus, unit, handle, streamed, thread, stream>>

\* _retire_keys, after the unit was broadcast: drop the shards that are done.
Finished_OfThisUnit == {s \in Mapped(unit) : ~OwedFrom(unit, s)}
Finished == {s \in Mapped(unit) : ~OwedFrom(unit + 1, s)}
Retire ==
    /\ pc = "retire"
    /\ streamed' = streamed \ Finished
    /\ cached' = cached \ Finished
    /\ unit' = unit + 1 /\ key' = 1
    /\ IF unit = NumUnits
       THEN pc' = "join" /\ handle' = None
       ELSE pc' = "read" /\ UNCHANGED handle
    /\ UNCHANGED <<layout, surplus, thread, stream>>

\* finalize: join the thread, then drop every shard of the checkpoint.
JoinLast ==
    /\ pc = "join" /\ Joined
    /\ pc' = "drop"
    /\ thread' = None
    /\ UNCHANGED <<layout, surplus, unit, key, handle, cached, streamed, stream>>
ShardPaths == surplus \union UNION {Mapped(u) : u \in Units}
DropAll ==
    /\ pc = "drop"
    /\ pc' = "done"
    /\ cached' = cached \ ShardPaths
    /\ UNCHANGED <<layout, surplus, unit, key, handle, streamed, thread, stream>>

\* The thread: one pread, or an OSError that ends its stream.
Pread(s) ==
    /\ Running(s)
    /\ \/ /\ stream' = [stream EXCEPT ![s] = @ - 1]
          /\ cached' = cached \union {s}
       \/ /\ stream' = [stream EXCEPT ![s] = 0]
          /\ UNCHANGED cached
    /\ UNCHANGED <<layout, surplus, pc, unit, key, handle, streamed, thread>>

-----------------------------------------------------------------------------
\* One entry of layout per change of the shard, which is where _handle acts.
Runs == UNION {{q \in [1 .. n -> Shards] : \A k \in 1 .. n - 1 : q[k] # q[k + 1]}
                 : n \in 1 .. UnitKeys}

\* The fill reads all of the index, in its order.
InOrder ==
    /\ surplus = {}
    /\ \A u, v \in Units : \A s \in Mapped(u), t \in Mapped(v) : u < v => s <= t
    /\ \A u \in Units : \A j, k \in DOMAIN layout[u] : j < k => layout[u][j] < layout[u][k]
    /\ UNION {Mapped(u) : u \in Units} = Shards

Init ==
    /\ layout \in [Units -> Runs]
    /\ surplus \in {{}} \union {{s} : s \in Shards}
    /\ InOrder \/ ShardPaths \subseteq 1 .. FreeShards
    /\ pc = "read" /\ unit = 1 /\ key = 1
    /\ handle = None
    /\ cached = {} /\ streamed = {}
    /\ thread = None
    /\ stream = [s \in Shards |-> 0]

Reader     == Open \/ PrefetchAfter \/ Get \/ Retire \/ JoinLast \/ DropAll
Terminated == pc = "done" /\ (\A s \in Shards : ~Running(s)) /\ UNCHANGED vars
Next == Reader \/ (\E s \in Shards : Pread(s)) \/ Terminated
Spec == Init /\ [][Next]_vars

-----------------------------------------------------------------------------
(* Properties *)

\* The types of the variables.
TypeOK ==
    /\ pc \in {"read", "prefetch", "get", "retire", "join", "drop", "done"}
    /\ unit \in 1 .. NumUnits + 1 /\ key \in 1 .. UnitKeys
    /\ handle \in Shards \union {None} /\ thread \in Shards \union {None}
    /\ cached \subseteq Shards /\ streamed \subseteq Shards /\ surplus \subseteq Shards
    /\ stream \in [Shards -> 0 .. Chunks]

\* A prefetch never puts back the cache that finalize dropped: when the fill
\* has ended, nothing of the checkpoint is cached and nothing streams it.
CleanAtEnd == pc = "done" => cached = {} /\ \A s \in Shards : ~Running(s)

\* Exactly one shard is in flight.
OneInFlight == Cardinality({s \in Shards : Running(s)}) <= 1

\* A shard is streamed only while none of it is cached, by the reader or by
\* the thread, however often the tail reopens what the blocks have closed.
StreamsOnlyCold ==
    [][/\ pc = "read" /\ pc' # pc /\ handle' # handle /\ WarmsFirst(handle')
            => handle' \notin cached
       /\ \A s \in Shards : ~Running(s) /\ stream'[s] > 0 => s \notin cached]_vars

\* A shard is cached for the keys the fill owes of it: when the last is retired
\* its pages go, and only a stream that still runs can bring them back.
CacheIsOwed ==
    [][\A s \in cached' :
            \/ OwedFrom(unit', s)
            \/ Running(s)
            \/ s \in cached /\ ~OwedFrom(unit, s)]_vars

\* Of a checkpoint read in its order, no more is cached than the shards one
\* block may span and the one streamed ahead.
CacheBound == InOrder => Cardinality(cached) <= UnitKeys + 1
=============================================================================
