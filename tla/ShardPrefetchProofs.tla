------------------------- MODULE ShardPrefetchProofs -------------------------
(***************************************************************************)
(* ShardPrefetch for every checkpoint and every depth: one stream at a     *)
(* time, nothing left behind, nothing streamed that is cached.  The        *)
(* inductive invariant ties a running stream to the thread that will be    *)
(* joined, and the cache of a shard that is still owed to _streamed, the   *)
(* record the reader decides by.                                           *)
(***************************************************************************)
EXTENDS ShardPrefetch, FiniteSetTheorems, TLAPS

Reading == {"read", "prefetch", "get", "retire"}

\* Where the reader stands: the shard it maps is one of the unit it reads.
Place ==
    /\ pc \in Reading => unit \in Units /\ key \in 1 .. Len(layout[unit])
    /\ pc \in {"prefetch", "get", "retire"} => handle = Needed
    /\ pc = "prefetch" => Depth > 1
    /\ pc \notin Reading => unit = NumUnits + 1

\* A running stream is that of the thread, and of a shard of the checkpoint.
Streams ==
    /\ \A s \in Shards : Running(s) => s = thread /\ s \in ShardPaths
    /\ pc \in {"drop", "done"} => thread = None

\* What is cached is of the checkpoint, and known to the reader while owed.
Known ==
    /\ cached \subseteq ShardPaths
    /\ pc = "done" => cached = {}
    /\ Depth > 0 =>
        \A s \in Shards : OwedFrom(unit, s) /\ (s \in cached \/ Running(s) \/ s = handle)
                            => s \in streamed

IInv == TypeOK /\ layout \in [Units -> Runs] /\ Place /\ Streams /\ Known

-----------------------------------------------------------------------------
\* A unit is a sequence of at least one and at most UnitKeys shards.
LEMMA RunsAreSequences ==
    ASSUME NEW q \in Runs
    PROVE  q \in Seq(Shards) /\ Len(q) \in 1 .. UnitKeys /\ DOMAIN q = 1 .. Len(q)
<1>1. PICK n \in 1 .. UnitKeys : q \in [1 .. n -> Shards]
    BY DEF Runs
<1>2. n \in Nat /\ DOMAIN q = 1 .. n
    BY <1>1, SizesAssumption
<1>3. q \in Seq(Shards)
    BY <1>1, <1>2
<1>4. Len(q) = n
    BY <1>2, <1>3
<1> QED BY <1>1, <1>2, <1>3, <1>4

\* The shard of the next key belongs to the unit, is owed, and is a shard.
LEMMA NeededIsOwed ==
    ASSUME IInv, pc \in Reading
    PROVE  /\ Needed \in Shards /\ Needed \in Mapped(unit)
           /\ OwedFrom(unit, Needed)
<1>1. unit \in Units /\ layout[unit] \in Runs /\ key \in 1 .. Len(layout[unit])
    BY DEF IInv, Place
<1>2. /\ layout[unit] \in Seq(Shards)
      /\ DOMAIN layout[unit] = 1 .. Len(layout[unit])
    BY <1>1, RunsAreSequences
<1>3. Needed \in Shards /\ Needed \in Mapped(unit)
    BY <1>1, <1>2 DEF Needed, Mapped
<1>4. unit \in unit .. NumUnits
    BY <1>1, SizesAssumption DEF Units
<1> QED BY <1>3, <1>4 DEF OwedFrom

\* What is owed from a unit of the fill on is a shard of the checkpoint.
LEMMA OwedIsListed ==
    ASSUME NEW s, unit \in 1 .. NumUnits + 1, OwedFrom(unit, s)
    PROVE  s \in ShardPaths
<1>1. CASE s \in surplus
    BY <1>1 DEF ShardPaths
<1>2. CASE \E v \in unit .. NumUnits : s \in Mapped(v)
    <2>1. PICK v \in unit .. NumUnits : s \in Mapped(v)
        BY <1>2
    <2>2. v \in Units
        BY SizesAssumption DEF Units
    <2> QED BY <2>1, <2>2 DEF ShardPaths
<1> QED BY <1>1, <1>2 DEF OwedFrom

\* Once a unit is read, exactly the shards that Finished drops of it are not
\* owed any more.
LEMMA RetireSettles ==
    ASSUME NEW s, unit \in Units
    PROVE  /\ OwedFrom(unit + 1, s) => OwedFrom(unit, s) /\ s \notin Finished
           /\ OwedFrom(unit, s) /\ s \notin Finished => OwedFrom(unit + 1, s)
<1>1. unit .. NumUnits = {unit} \union ((unit + 1) .. NumUnits)
    BY SizesAssumption DEF Units
<1>2. OwedFrom(unit + 1, s) => s \notin Finished
    BY DEF Finished
<1>3. OwedFrom(unit, s) <=> s \in Mapped(unit) \/ OwedFrom(unit + 1, s)
    BY <1>1 DEF OwedFrom
<1>4. s \in Mapped(unit) /\ s \notin Finished => OwedFrom(unit + 1, s)
    BY DEF Finished
<1> QED BY <1>2, <1>3, <1>4

-----------------------------------------------------------------------------
\* The type invariant, one action after the other.
LEMMA TypeStep ==
    ASSUME IInv, [Next]_vars
    PROVE  TypeOK' /\ (layout \in [Units -> Runs])'
<1> USE SizesAssumption, DepthAssumption DEF IInv, TypeOK, None
<1>0. layout' = layout /\ surplus' = surplus
    BY DEF Next, Reader, Open, PrefetchAfter, Get, Retire, JoinLast, DropAll, Pread,
           Terminated, vars
<1>1. CASE Open
    BY <1>0, <1>1, NeededIsOwed DEF Open, Reading
<1>2. CASE PrefetchAfter
    <2>1. Wanted(Follows) => Follows \in Shards
        BY SMTT(30), <1>2, NeededIsOwed DEF PrefetchAfter, Place, Reading, Wanted, Follows, Shards
    <2>2. stream' \in [Shards -> 0 .. Chunks]
        BY <1>2, <2>1 DEF PrefetchAfter
    <2> QED BY <1>0, <1>2, <2>1, <2>2 DEF PrefetchAfter
<1>3. CASE Get
    <2>1. Len(layout[unit]) \in 1 .. UnitKeys
        BY <1>3, RunsAreSequences DEF Get, Place, Reading
    <2>2. key' \in 1 .. UnitKeys
        BY <1>3, <2>1 DEF Get, Place, Reading
    <2> QED BY <1>0, <1>3, <2>2, NeededIsOwed DEF Get, Reading
<1>4. CASE Retire
    <2>1. unit \in Units /\ 1 \in 1 .. UnitKeys
        BY <1>4 DEF Retire, Place, Reading
    <2> QED BY <1>0, <1>4, <2>1 DEF Retire, Units
<1>5. CASE JoinLast
    BY <1>0, <1>5 DEF JoinLast
<1>6. CASE DropAll
    BY <1>0, <1>6 DEF DropAll
<1>7. ASSUME NEW s \in Shards, Pread(s)
      PROVE  TypeOK'
    <2>1. stream[s] \in 1 .. Chunks
        BY <1>7 DEF Pread, Running
    <2>2. stream' \in [Shards -> 0 .. Chunks]
        BY <1>7, <2>1 DEF Pread
    <2> QED BY <1>0, <1>7, <2>2 DEF Pread
<1>8. CASE UNCHANGED vars
    BY <1>8 DEF vars
<1> QED BY <1>0, <1>1, <1>2, <1>3, <1>4, <1>5, <1>6, <1>7, <1>8 DEF Next, Reader, Terminated

\* The reader stays at a shard of its unit.
LEMMA PlaceStep ==
    ASSUME IInv, [Next]_vars
    PROVE  Place'
<1> USE SizesAssumption, DepthAssumption DEF IInv, Place, Reading
<1>0. layout' = layout
    BY DEF Next, Reader, Open, PrefetchAfter, Get, Retire, JoinLast, DropAll, Pread,
           Terminated, vars
<1>1. CASE Open
    BY <1>0, <1>1 DEF Open, Needed
<1>2. CASE PrefetchAfter
    BY <1>0, <1>2 DEF PrefetchAfter, Needed
<1>3. CASE Get
    <2>1. Len(layout[unit]) \in 1 .. UnitKeys
        BY <1>3, RunsAreSequences DEF Get
    <2>2. handle = Needed
        BY <1>3 DEF Get
    <2>3. CASE key = Len(layout[unit])
        BY <1>0, <1>3, <2>2, <2>3 DEF Get, Needed
    <2>4. CASE key # Len(layout[unit])
        BY <1>0, <1>3, <2>1, <2>4 DEF Get, Needed
    <2> QED BY <2>3, <2>4
<1>4. CASE Retire
    <2>1. CASE unit = NumUnits
        BY <1>4, <2>1 DEF Retire
    <2>2. CASE unit # NumUnits
        <3>1. unit + 1 \in Units
            BY <1>4, <2>2 DEF Retire, Units
        <3>2. Len(layout[unit + 1]) \in 1 .. UnitKeys
            BY <3>1, RunsAreSequences
        <3> QED BY <1>0, <1>4, <2>2, <3>1, <3>2 DEF Retire
    <2> QED BY <2>1, <2>2
<1>5. CASE JoinLast
    BY <1>5 DEF JoinLast
<1>6. CASE DropAll
    BY <1>6 DEF DropAll
<1>7. ASSUME NEW s \in Shards, Pread(s)
      PROVE  Place'
    BY <1>0, <1>7 DEF Pread, Needed
<1>8. CASE UNCHANGED vars
    BY <1>8 DEF vars, Needed
<1> QED BY <1>1, <1>2, <1>3, <1>4, <1>5, <1>6, <1>7, <1>8 DEF Next, Reader, Terminated

\* Only PrefetchAfter starts a stream, and it joins the last one first.
LEMMA StreamsStep ==
    ASSUME IInv, [Next]_vars
    PROVE  Streams'
<1> USE DEF IInv, TypeOK, Streams, Running, None
<1>0. layout' = layout /\ surplus' = surplus
    BY DEF Next, Reader, Open, PrefetchAfter, Get, Retire, JoinLast, DropAll, Pread,
           Terminated, vars
<1>1. ShardPaths' = ShardPaths
    BY <1>0 DEF ShardPaths, Mapped
<1>2. CASE Open \/ Get \/ Retire
    BY <1>1, <1>2 DEF Open, Get, Retire
<1>3. CASE PrefetchAfter
    <2>1. CASE ~Wanted(Follows)
        BY <1>1, <1>3, <2>1 DEF PrefetchAfter
    <2>2. CASE Wanted(Follows) /\ Joined
        <3>1. Follows \in Shards
            BY <1>3, <2>2, NeededIsOwed, SizesAssumption
            DEF PrefetchAfter, Place, Reading, Wanted, Follows, Shards
        <3>2. Follows \in ShardPaths
            BY <2>2, OwedIsListed DEF Wanted
        <3>3. \A s \in Shards : ~Running(s)
            BY <2>2, SizesAssumption DEF Joined, Shards
        <3> QED BY <1>1, <1>3, <2>2, <3>1, <3>2, <3>3 DEF PrefetchAfter
    <2> QED BY <1>3, <2>1, <2>2 DEF PrefetchAfter
<1>4. CASE JoinLast
    <2>1. \A s \in Shards : ~Running(s)
        BY <1>4, SizesAssumption DEF JoinLast, Joined, Shards
    <2> QED BY <1>1, <1>4, <2>1 DEF JoinLast
<1>5. CASE DropAll
    BY <1>1, <1>5 DEF DropAll
<1>6. ASSUME NEW s \in Shards, Pread(s)
      PROVE  Streams'
    BY <1>1, <1>6 DEF Pread
<1>7. CASE UNCHANGED vars
    BY <1>1, <1>7 DEF vars
<1> QED BY <1>2, <1>3, <1>4, <1>5, <1>6, <1>7 DEF Next, Reader, Terminated

\* What is cached or streamed while it is owed is in _streamed.
LEMMA KnownStep ==
    ASSUME IInv, [Next]_vars
    PROVE  Known'
<1> USE DEF IInv, TypeOK, Known
<1>0. layout' = layout /\ surplus' = surplus
    BY DEF Next, Reader, Open, PrefetchAfter, Get, Retire, JoinLast, DropAll, Pread,
           Terminated, vars
<1>1. /\ ShardPaths' = ShardPaths
      /\ \A s : OwedFrom(unit, s)' <=> OwedFrom(unit', s)
    BY <1>0 DEF ShardPaths, Mapped, OwedFrom
<1>2. pc \in Reading => Needed \in Shards /\ Needed \in ShardPaths
    BY NeededIsOwed, OwedIsListed
<1>3. CASE Open
    <2>1. Needed \in Shards /\ Needed \in ShardPaths
        BY <1>2, <1>3 DEF Open, Reading
    <2> QED BY <1>0, <1>1, <1>3, <2>1, DepthAssumption DEF Open, WarmsFirst, OwedFrom, Mapped, Running
<1>4. CASE PrefetchAfter
    <2>1. unit' = unit /\ cached' = cached /\ pc' = "get"
        BY <1>4 DEF PrefetchAfter
    <2>2. \A s \in Shards : Running(s)' => Running(s) \/ s \in streamed'
        BY <1>4 DEF PrefetchAfter, Running
    <2>3. streamed \subseteq streamed' /\ handle' = handle
        BY <1>4 DEF PrefetchAfter
    <2> QED BY <1>0, <1>1, <2>1, <2>2, <2>3 DEF OwedFrom, Mapped
<1>5. CASE Get
    <2>1. Needed \in Shards /\ Needed \in ShardPaths
        BY <1>2, <1>5 DEF Get, Reading
    <2>2. Needed = handle /\ OwedFrom(unit, Needed)
        BY <1>5, NeededIsOwed DEF Get, Place, Reading
    <2> QED BY <1>1, <1>5, <2>1, <2>2 DEF Get, Running
<1>6. CASE Retire
    <2>1. unit \in Units /\ unit' = unit + 1 /\ stream' = stream /\ pc' # "done"
        BY <1>6 DEF Retire, Place, Reading
    <2>2. cached' = cached \ Finished /\ streamed' = streamed \ Finished
        BY <1>6 DEF Retire
    <2>3. handle' = None \/ handle' = handle
        BY <1>6 DEF Retire
    <2>4. None \notin Shards
        BY SizesAssumption DEF None, Shards
    <2>5. ASSUME Depth > 0, NEW s \in Shards, OwedFrom(unit', s),
                 s \in cached' \/ Running(s)' \/ s = handle'
          PROVE  s \in streamed'
        <3>1. OwedFrom(unit, s) /\ s \notin Finished
            BY <2>1, <2>5, RetireSettles
        <3> QED BY <2>1, <2>2, <2>3, <2>4, <2>5, <3>1 DEF Running
    <2> QED BY <1>1, <2>1, <2>2, <2>5
<1>7. CASE JoinLast
    BY <1>0, <1>1, <1>7 DEF JoinLast, OwedFrom, Mapped, Running
<1>8. CASE DropAll
    BY <1>0, <1>1, <1>8 DEF DropAll, OwedFrom, Mapped, Running
<1>9. ASSUME NEW s \in Shards, Pread(s)
      PROVE  Known'
    <2>1. s \in ShardPaths /\ s = thread /\ pc # "done"
        BY <1>9, SizesAssumption DEF Pread, Streams, Shards, None
    <2>2. cached \subseteq cached' /\ cached' \subseteq cached \union {s}
        BY <1>9 DEF Pread
    <2>3. \A t \in Shards : Running(t)' => Running(t)
        BY <1>9 DEF Pread, Running
    <2>4. unit' = unit /\ streamed' = streamed /\ handle' = handle /\ pc' = pc
        BY <1>9 DEF Pread
    <2>5. Running(s)
        BY <1>9 DEF Pread
    <2> QED BY <1>1, <2>1, <2>2, <2>3, <2>4, <2>5
<1>10. CASE UNCHANGED vars
    BY <1>1, <1>10 DEF vars, OwedFrom, Mapped, Running
<1> QED BY <1>3, <1>4, <1>5, <1>6, <1>7, <1>8, <1>9, <1>10 DEF Next, Reader, Terminated

-----------------------------------------------------------------------------
\* The invariant holds at the start of a fill.
LEMMA InitialInv == Init => IInv
<1> SUFFICES ASSUME Init PROVE IInv
    OBVIOUS
<1> USE SizesAssumption DEF Init
<1>1. layout[1] \in Runs /\ 1 \in Units
    BY DEF Units
<1>2. Len(layout[1]) \in 1 .. UnitKeys
    BY <1>1, RunsAreSequences
<1>3. 1 \in 1 .. UnitKeys /\ 1 \in 1 .. Len(layout[1]) /\ 0 \in 0 .. Chunks
    BY <1>2
<1>4. TypeOK
    BY <1>3 DEF TypeOK
<1>5. Place
    BY <1>1, <1>3 DEF Place, Reading
<1>6. Streams /\ Known
    BY DEF Streams, Known, Running, Shards, None
<1> QED BY <1>4, <1>5, <1>6 DEF IInv

\* The inductive invariant holds in every reachable state.
THEOREM Invariance == Spec => []IInv
<1>1. Init => IInv
    BY InitialInv
<1>2. IInv /\ [Next]_vars => IInv'
    BY TypeStep, PlaceStep, StreamsStep, KnownStep DEF IInv
<1> QED BY <1>1, <1>2, PTL DEF Spec

\* The variables keep their types.
THEOREM TypeCorrect == Spec => []TypeOK
<1>1. IInv => TypeOK
    BY DEF IInv
<1> QED BY <1>1, Invariance, PTL

\* At most one prefetch streams, whatever the checkpoint and the depth.
THEOREM OneStreamAtATime == Spec => []OneInFlight
<1>1. IInv => OneInFlight
    <2> SUFFICES ASSUME IInv PROVE OneInFlight
        OBVIOUS
    <2> DEFINE R == {s \in Shards : Running(s)}
    <2>1. R \subseteq {thread}
        BY DEF IInv, Streams
    <2>2. IsFiniteSet({thread}) /\ Cardinality({thread}) = 1
        BY FS_Singleton
    <2>3. Cardinality(R) <= Cardinality({thread})
        BY <2>1, <2>2, FS_Subset
    <2> QED BY <2>2, <2>3 DEF OneInFlight
<1> QED BY <1>1, Invariance, PTL

\* Nothing of the checkpoint is cached or streamed when the fill has ended.
THEOREM NothingOutlivesTheFill == Spec => []CleanAtEnd
<1>1. IInv => CleanAtEnd
    BY SizesAssumption DEF IInv, Known, Streams, CleanAtEnd, Shards, None
<1> QED BY <1>1, Invariance, PTL

\* No shard is streamed while pages of it are cached: the record in _streamed
\* never lacks a shard whose pages are there and still owed.
THEOREM OnlyColdIsStreamed == Spec => StreamsOnlyCold
<1> DEFINE A == /\ pc = "read" /\ pc' # pc /\ handle' # handle /\ WarmsFirst(handle')
                       => handle' \notin cached
                /\ \A s \in Shards : ~Running(s) /\ stream'[s] > 0 => s \notin cached
<1>1. IInv /\ [Next]_vars => [A]_vars
    <2> SUFFICES ASSUME IInv, Next PROVE A
        BY DEF vars
    <2> USE DEF IInv
    <2>1. CASE Open
        <3>1. handle' = Needed /\ stream' = stream
            BY <2>1 DEF Open
        <3>2. Needed \in Shards /\ OwedFrom(unit, Needed)
            BY <2>1, NeededIsOwed DEF Open, Reading
        <3> QED BY <3>1, <3>2 DEF Known, WarmsFirst, Running
    <2>2. CASE PrefetchAfter
        <3>1. handle' = handle /\ Depth > 0
            BY <2>2, DepthAssumption DEF PrefetchAfter, Place
        <3>2. \A s \in Shards : ~Running(s) /\ stream'[s] > 0 => s = Follows /\ Wanted(s)
            BY <2>2 DEF PrefetchAfter, Running, TypeOK
        <3> QED BY <3>1, <3>2 DEF Known, Wanted
    <2>3. CASE Get \/ Retire \/ JoinLast \/ DropAll \/ UNCHANGED vars
        <3>1. stream' = stream /\ (pc = "read" => handle' = handle)
            BY <2>3 DEF Get, Retire, JoinLast, DropAll, vars
        <3> QED BY <3>1 DEF Running
    <2>4. ASSUME NEW s \in Shards, Pread(s)
          PROVE  A
        BY <2>4 DEF Pread, Running, TypeOK
    <2> QED BY <2>1, <2>2, <2>3, <2>4 DEF Next, Reader, Terminated
<1> QED BY <1>1, Invariance, PTL DEF Spec, StreamsOnlyCold

\* Only a stream that still runs brings back pages nobody is owed.
THEOREM CacheFollowsDebt == Spec => CacheIsOwed
<1> DEFINE A == \A s \in cached' : \/ OwedFrom(unit', s)
                                   \/ Running(s)
                                   \/ s \in cached /\ ~OwedFrom(unit, s)
<1>1. IInv /\ [Next]_vars => [A]_vars
    <2> SUFFICES ASSUME IInv, Next PROVE A
        BY DEF vars
    <2> USE DEF IInv
    <2>1. CASE Open \/ Get
        <3>1. cached' \subseteq cached \union {Needed} /\ unit' = unit
            BY <2>1 DEF Open, Get
        <3>2. OwedFrom(unit, Needed)
            BY <2>1, NeededIsOwed DEF Open, Get, Reading
        <3> QED BY <3>1, <3>2
    <2>2. CASE PrefetchAfter \/ JoinLast \/ DropAll \/ UNCHANGED vars
        BY <2>2 DEF PrefetchAfter, JoinLast, DropAll, vars
    <2>3. CASE Retire
        <3>1. unit \in Units /\ unit' = unit + 1 /\ cached' = cached \ Finished
            BY <2>3 DEF Retire, Place, Reading
        <3> QED BY <3>1, RetireSettles
    <2>4. ASSUME NEW s \in Shards, Pread(s)
          PROVE  A
        BY <2>4 DEF Pread
    <2> QED BY <2>1, <2>2, <2>3, <2>4 DEF Next, Reader, Terminated
<1> QED BY <1>1, Invariance, PTL DEF Spec, CacheIsOwed

-----------------------------------------------------------------------------
(* The cache of a checkpoint that is read in its order                     *)

\* A unit reads its shards without a gap, and the units without one between
\* them: the keys of unit u end at the shard the next unit begins with, or at
\* the one before it.
LEMMA NoGap ==
    ASSUME IInv, InOrder
    PROVE  /\ \A u \in Units : \A k \in 1 .. Len(layout[u]) - 1 :
                layout[u][k + 1] = layout[u][k] + 1
           /\ \A u \in Units : u + 1 \in Units =>
                layout[u + 1][1] \in {layout[u][Len(layout[u])], layout[u][Len(layout[u])] + 1}
           /\ layout[1][1] = 1 /\ 1 \in Units
           /\ NumUnits \in Units /\ layout[NumUnits][Len(layout[NumUnits])] = NumShards
           /\ \A u \in Units : /\ Len(layout[u]) \in Nat /\ 1 \in 1 .. Len(layout[u])
                               /\ Len(layout[u]) \in 1 .. Len(layout[u])
                               /\ \A k \in 1 .. Len(layout[u]) : layout[u][k] \in Shards
                               /\ DOMAIN layout[u] = 1 .. Len(layout[u])
<1>1. ASSUME NEW u \in Units
      PROVE  /\ DOMAIN layout[u] = 1 .. Len(layout[u]) /\ Len(layout[u]) \in Nat
             /\ 1 \in 1 .. Len(layout[u]) /\ Len(layout[u]) \in 1 .. Len(layout[u])
             /\ \A k \in 1 .. Len(layout[u]) : layout[u][k] \in Shards
    <2>1. layout[u] \in Runs
        BY DEF IInv
    <2>2. /\ layout[u] \in Seq(Shards) /\ Len(layout[u]) \in 1 .. UnitKeys
          /\ DOMAIN layout[u] = 1 .. Len(layout[u])
        BY <2>1, RunsAreSequences
    <2> QED BY <2>2, SizesAssumption
<1>2. ASSUME NEW u \in Units, NEW v \in Units, NEW j \in 1 .. Len(layout[u]),
             NEW k \in 1 .. Len(layout[v])
      PROVE  /\ layout[u][j] \in Nat /\ layout[v][k] \in Nat
             /\ u < v => layout[u][j] <= layout[v][k]
             /\ u = v /\ j < k => layout[u][j] < layout[v][k]
    <2>1. layout[u][j] \in Nat /\ layout[v][k] \in Nat
        BY <1>1, SizesAssumption DEF Shards
    <2>2. layout[u][j] \in Mapped(u) /\ layout[v][k] \in Mapped(v)
        BY <1>1 DEF Mapped
    <2>3. u < v => layout[u][j] <= layout[v][k]
        BY <2>2 DEF InOrder
    <2>4. u = v /\ j < k => layout[u][j] < layout[v][k]
        BY <1>1 DEF InOrder
    <2> QED BY <2>1, <2>3, <2>4
<1>3. ASSUME NEW s \in Shards
      PROVE  \E v \in Units : \E j \in 1 .. Len(layout[v]) : s = layout[v][j]
    <2>1. PICK v \in Units : s \in Mapped(v)
        BY DEF InOrder
    <2> QED BY <1>1, <2>1 DEF Mapped
<1>4. ASSUME NEW u \in Units, NEW k \in 1 .. Len(layout[u]) - 1
      PROVE  layout[u][k + 1] = layout[u][k] + 1
    <2>1. k \in 1 .. Len(layout[u]) /\ k + 1 \in 1 .. Len(layout[u]) /\ k < k + 1
        BY <1>1
    <2>2. PICK a, b : a = layout[u][k] /\ b = layout[u][k + 1]
        OBVIOUS
    <2>3. a \in Shards /\ b \in Shards /\ a < b
        BY <1>1, <1>2, <2>1, <2>2
    <2> SUFFICES ASSUME a + 1 < b PROVE FALSE
        BY <2>2, <2>3, SizesAssumption DEF Shards
    <2>4. a + 1 \in Shards
        BY <2>3, SizesAssumption DEF Shards
    <2>5. PICK v \in Units : \E j \in 1 .. Len(layout[v]) : a + 1 = layout[v][j]
        BY <1>3, <2>4
    <2>6. PICK j \in 1 .. Len(layout[v]) : a + 1 = layout[v][j]
        BY <2>5
    <2>7. a \in Nat /\ b \in Nat /\ u \in Nat /\ v \in Nat /\ j \in Nat /\ k \in Nat
        BY <2>3, SizesAssumption DEF Shards, Units
    <2>8. CASE v < u
        BY <1>2, <2>1, <2>2, <2>6, <2>7, <2>8
    <2>9. CASE v > u
        BY <1>2, <2>1, <2>2, <2>6, <2>7, <2>9
    <2>10. CASE v = u
        <3>1. j < k \/ j = k \/ j = k + 1 \/ k + 1 < j
            BY <2>7
        <3>2. j < k => a + 1 < a
            BY <1>2, <2>1, <2>2, <2>6, <2>10
        <3>3. k + 1 < j => b < a + 1
            BY <1>2, <2>1, <2>2, <2>6, <2>10
        <3> QED BY <2>2, <2>6, <2>7, <2>10, <3>1, <3>2, <3>3
    <2> QED BY <2>7, <2>8, <2>9, <2>10
<1>5. ASSUME NEW u \in Units, u + 1 \in Units
      PROVE  layout[u + 1][1] \in {layout[u][Len(layout[u])], layout[u][Len(layout[u])] + 1}
    <2>1. PICK a, b, w, last : a = layout[u][last] /\ b = layout[w][1] /\ w = u + 1
                               /\ last = Len(layout[u])
        OBVIOUS
    <2>2. /\ w \in Units /\ last \in 1 .. Len(layout[u]) /\ 1 \in 1 .. Len(layout[w])
          /\ a \in Shards /\ b \in Shards
        BY <1>1, <1>5, <2>1
    <2>3. a \in Nat /\ b \in Nat /\ u \in Nat /\ last \in Nat /\ w \in Nat /\ a <= b
        BY <1>2, <2>1, <2>2, SizesAssumption DEF Shards, Units
    <2> SUFFICES ASSUME a + 1 < b PROVE FALSE
        BY SMTT(30), <2>1, <2>3
    <2>4. a + 1 \in Shards
        BY <2>2, <2>3, SizesAssumption DEF Shards
    <2>5. PICK v \in Units : \E j \in 1 .. Len(layout[v]) : a + 1 = layout[v][j]
        BY <1>3, <2>4
    <2>6. PICK j \in 1 .. Len(layout[v]) : a + 1 = layout[v][j]
        BY <2>5
    <2>7. v \in Nat /\ j \in Nat /\ j >= 1 /\ Len(layout[v]) \in Nat
        BY <1>1, SizesAssumption DEF Units
    <2>8. CASE v < u
        <3>1. layout[v][j] <= layout[u][last]
            BY <1>2, <2>2, <2>8
        <3> QED BY <2>1, <2>3, <2>6, <3>1
    <2>9. CASE v = u
        <3>1. j = last \/ j < last
            BY <2>1, <2>3, <2>7, <2>9
        <3> QED BY <1>2, <2>1, <2>2, <2>3, <2>6, <2>9, <3>1
    <2>10. CASE v = w
        <3>1. j = 1 \/ 1 < j
            BY <2>7
        <3> QED BY <1>2, <2>1, <2>2, <2>3, <2>6, <2>10, <3>1
    <2>11. CASE v > w
        BY SMTT(30), <1>2, <2>1, <2>2, <2>3, <2>6, <2>11
    <2> QED BY <2>1, <2>3, <2>7, <2>8, <2>9, <2>10, <2>11
<1>6. 1 \in Units /\ NumUnits \in Units
    BY SizesAssumption DEF Units
<1>7. layout[1][1] = 1
    <2>1. layout[1][1] \in Shards /\ layout[1][1] \in Nat /\ layout[1][1] >= 1 /\ 1 \in Shards
        <3>1. layout[1][1] \in Shards
            BY <1>1, <1>6
        <3> QED BY <3>1, SizesAssumption DEF Shards
    <2>2. PICK v \in Units : \E j \in 1 .. Len(layout[v]) : 1 = layout[v][j]
        BY <1>3, <2>1
    <2>3. PICK j \in 1 .. Len(layout[v]) : 1 = layout[v][j]
        BY <2>2
    <2>4. v \in Nat /\ j \in Nat /\ 1 \in 1 .. Len(layout[1])
          /\ (v = 1 \/ 1 < v) /\ (j = 1 \/ 1 < j)
        BY <1>1, <1>6, SizesAssumption DEF Units
    <2>5. CASE 1 < v
        BY <1>2, <1>6, <2>1, <2>3, <2>4, <2>5
    <2>6. CASE v = 1
        BY <1>2, <1>6, <2>1, <2>3, <2>4, <2>6
    <2> QED BY <2>4, <2>5, <2>6
<1>8. layout[NumUnits][Len(layout[NumUnits])] = NumShards
    <2>1. PICK n, b : n = Len(layout[NumUnits]) /\ b = layout[NumUnits][n]
        OBVIOUS
    <2>2. b \in Shards /\ n \in 1 .. Len(layout[NumUnits]) /\ n \in Nat /\ NumUnits \in Nat
        BY <1>1, <1>6, <2>1, SizesAssumption
    <2>3. NumShards \in Shards /\ b \in Nat /\ NumShards \in Nat /\ b <= NumShards
        BY <2>2, SizesAssumption DEF Shards
    <2>4. PICK v \in Units : \E j \in 1 .. Len(layout[v]) : NumShards = layout[v][j]
        BY <1>3, <2>3
    <2>5. PICK j \in 1 .. Len(layout[v]) : NumShards = layout[v][j]
        BY <2>4
    <2>6. v \in Nat /\ j \in Nat /\ (v = NumUnits \/ v < NumUnits)
        BY <1>1, SizesAssumption DEF Units
    <2>7. CASE v < NumUnits
        <3>1. layout[v][j] <= layout[NumUnits][n]
            BY <1>2, <1>6, <2>2, <2>7
        <3> QED BY <2>1, <2>3, <2>5, <3>1
    <2>8. CASE v = NumUnits
        <3>1. j = n \/ j < n
            BY <2>1, <2>2, <2>6, <2>8
        <3> QED BY <1>2, <1>6, <2>1, <2>2, <2>3, <2>5, <2>8, <3>1
    <2> QED BY <2>1, <2>6, <2>7, <2>8
<1> QED BY <1>1, <1>4, <1>5, <1>6, <1>7, <1>8

\* The cache holds shards of the unit and the one that follows the shard that
\* is mapped, and the streams run ahead by no more.
Spanned ==
    /\ cached \subseteq Mapped(unit) \union {handle + 1}
    /\ \A s \in streamed : s <= (IF pc = "prefetch" THEN handle ELSE handle + 1)
    /\ \A s \in Shards : Running(s) =>
            IF pc = "prefetch" THEN s = handle ELSE s = handle + 1 \/ (s = handle /\ s = NumShards)
    /\ pc = "read" => handle + 1 = Needed \/ (handle = Needed /\ key = 1)
    /\ pc = "retire" => key = Len(layout[unit])
InOrderInv ==
    /\ Depth <= 1 => \A s \in Shards : ~Running(s)
    /\ InOrder => IF pc \in Reading THEN Spanned
                  ELSE /\ cached \subseteq {NumShards}
                       /\ \A s \in Shards : Running(s) => s = NumShards

LEMMA InOrderStart == Init => InOrderInv
<1> SUFFICES ASSUME Init PROVE InOrderInv
    OBVIOUS
<1>1. \A s \in Shards : ~Running(s)
    BY DEF Init, Running
<1>2. ASSUME InOrder PROVE Spanned
    <2>1. IInv
        BY InitialInv
    <2>2. layout[1][1] = 1
        BY <1>2, <2>1, NoGap
    <2> QED BY <1>1, <2>2 DEF Init, Spanned, Needed, None
<1> QED BY <1>1, <1>2 DEF InOrderInv, Init, Reading

\* A shard of the checkpoint is owed from the unit of a shard before it on.
LEMMA LaterIsOwed ==
    ASSUME IInv, InOrder, NEW u \in Units, NEW s \in Mapped(u), NEW t \in Shards, s < t
    PROVE  OwedFrom(u, t)
<1>1. PICK v \in Units : t \in Mapped(v)
    BY DEF InOrder
<1>2. ~(v < u)
    <2>1. ASSUME v < u PROVE t <= s
        BY <1>1, <2>1 DEF InOrder
    <2>2. layout[u] \in Runs
        BY DEF IInv
    <2>3. s \in Shards
        BY <2>2, RunsAreSequences DEF Mapped
    <2> QED BY <2>1, <2>3, SizesAssumption DEF Shards
<1>3. v \in u .. NumUnits
    BY <1>2, SizesAssumption DEF Units
<1> QED BY <1>1, <1>3 DEF OwedFrom

\* What a unit leaves in the cache is of the next unit too.
LEMMA LeftIsOfNext ==
    ASSUME IInv, InOrder, NEW u \in Units, NEW s \in Mapped(u), OwedFrom(u + 1, s)
    PROVE  u + 1 \in Units /\ s \in Mapped(u + 1)
<1>1. PICK v \in u + 1 .. NumUnits : s \in Mapped(v)
    BY DEF OwedFrom, InOrder
<1>2. u \in Nat /\ v \in Nat /\ v \in Units /\ u + 1 \in Units /\ u < u + 1
    BY SizesAssumption DEF Units
<1>3. CASE v = u + 1
    BY <1>1, <1>2, <1>3
<1>4. CASE v > u + 1
    <2>1. PICK t : t = layout[u + 1][1]
        OBVIOUS
    <2>2. t \in Mapped(u + 1) /\ t \in Shards
        BY <1>2, <2>1, NoGap DEF Mapped
    <2>3. s <= t /\ t <= s
        BY <1>1, <1>2, <1>4, <2>2 DEF InOrder
    <2>4. layout[u] \in Runs
        BY DEF IInv
    <2>5. s \in Shards
        BY <2>4, RunsAreSequences DEF Mapped
    <2>6. s = t
        BY <2>2, <2>3, <2>5, SizesAssumption DEF Shards
    <2> QED BY <1>2, <2>2, <2>6
<1> QED BY <1>2, <1>3, <1>4

\* The shard that follows is wanted as soon as a shard is mapped.
LEMMA FollowsIsWanted ==
    ASSUME IInv, InOrder, Spanned, pc = "prefetch", Follows # None
    PROVE  Wanted(Follows) /\ Follows = handle + 1 /\ Follows \in Shards
<1>1. handle = Needed /\ unit \in Units
    BY DEF IInv, Place, Reading
<1>2. handle \in Shards /\ handle \in Mapped(unit)
    BY <1>1, NeededIsOwed DEF Reading
<1>3. Follows = handle + 1 /\ Follows \in Shards
    BY <1>2, SizesAssumption DEF Follows, Shards
<1>4. handle \in Nat /\ handle < Follows
    BY <1>2, <1>3, SizesAssumption DEF Shards
<1>5. Follows \notin streamed
    BY <1>3, <1>4 DEF Spanned
<1>6. OwedFrom(unit, Follows)
    BY <1>1, <1>2, <1>3, <1>4, LaterIsOwed
<1> QED BY <1>3, <1>5, <1>6 DEF Wanted

LEMMA InOrderOpen ==
    ASSUME IInv, InOrder, Spanned, InOrderInv, Open
    PROVE  Spanned'
<1>1. /\ unit' = unit /\ key' = key /\ layout' = layout /\ stream' = stream
      /\ pc = "read" /\ handle # Needed /\ handle' = Needed
      /\ pc' = IF Depth > 1 THEN "prefetch" ELSE "get"
      /\ cached' \subseteq cached \union {Needed} /\ streamed' \subseteq streamed \union {Needed}
    BY DEF Open
<1>2. /\ Needed \in Shards /\ Needed \in Mapped(unit) /\ handle + 1 = Needed
      /\ handle \in Nat
    BY <1>1, NeededIsOwed, SizesAssumption DEF Reading, Spanned, IInv, TypeOK, Shards, None
<1>3. Mapped(unit)' = Mapped(unit)
    BY <1>1 DEF Mapped
<1>4. cached' \subseteq Mapped(unit) \union {handle' + 1}
    BY <1>1, <1>2 DEF Spanned
<1>5. \A s \in streamed' : s <= handle' /\ s <= handle' + 1
    <2>1. \A s \in streamed : s \in Nat /\ s <= handle + 1
        BY <1>1, SizesAssumption DEF Spanned, IInv, TypeOK, Shards
    <2> QED BY <1>1, <1>2, <2>1
<1>6. ASSUME NEW s \in Shards, Running(s)'
      PROVE  pc' = "prefetch" /\ s = handle'
    <2>1. Running(s)
        BY <1>1, <1>6 DEF Running
    <2>2. Depth > 1
        BY <2>1, DepthAssumption DEF InOrderInv
    <2>3. s = handle + 1
        BY <1>1, <1>2, <2>1, SizesAssumption DEF Spanned, Shards
    <2> QED BY <1>1, <1>2, <2>2, <2>3
<1> QED BY <1>1, <1>3, <1>4, <1>5, <1>6 DEF Spanned

LEMMA InOrderPrefetch ==
    ASSUME IInv, InOrder, Spanned, PrefetchAfter
    PROVE  Spanned'
<1>1. /\ unit' = unit /\ key' = key /\ layout' = layout /\ cached' = cached /\ handle' = handle
      /\ pc = "prefetch" /\ pc' = "get"
    BY DEF PrefetchAfter
<1>2. handle \in Shards /\ handle \in Nat
    BY <1>1, NeededIsOwed, SizesAssumption DEF Reading, IInv, Place, Shards
<1>3. Mapped(unit)' = Mapped(unit)
    BY <1>1 DEF Mapped
<1>4. \A s \in streamed : s \in Nat /\ s <= handle
    BY <1>1, SizesAssumption DEF Spanned, IInv, TypeOK, Shards
<1>5. CASE ~Wanted(Follows)
    <2>1. handle = NumShards
        <3>1. Follows = None
            BY <1>1, <1>5, FollowsIsWanted
        <3> QED BY <1>2, <3>1 DEF Follows, None
    <2>2. streamed' = streamed /\ stream' = stream
        BY <1>5 DEF PrefetchAfter
    <2>3. \A s \in streamed' : s <= handle' + 1
        BY <1>1, <1>2, <1>4, <2>2
    <2>4. \A s \in Shards : Running(s)' => (s = handle' /\ s = NumShards)
        BY <1>1, <2>1, <2>2 DEF Spanned, Running
    <2> QED BY <1>1, <1>3, <2>3, <2>4 DEF Spanned
<1>6. CASE Wanted(Follows)
    <2>1. Follows = handle + 1 /\ Follows \in Shards
        <3>1. Follows # None
            BY <1>6 DEF Wanted
        <3> QED BY <1>1, <3>1, FollowsIsWanted
    <2>2. /\ Joined /\ streamed' = streamed \union {Follows}
          /\ stream' = [stream EXCEPT ![Follows] = Chunks]
        BY <1>6 DEF PrefetchAfter
    <2>3. \A s \in Shards : ~Running(s)
        BY <2>2, SizesAssumption DEF Joined, IInv, Streams, Shards, None
    <2>4. \A s \in Shards : Running(s)' => s = handle' + 1
        BY <1>1, <2>1, <2>2, <2>3 DEF Running, IInv, TypeOK
    <2>5. \A s \in streamed' : s <= handle' + 1
        BY <1>1, <1>2, <1>4, <2>1, <2>2
    <2>6. cached' \subseteq Mapped(unit) \union {handle' + 1}
        BY <1>1 DEF Spanned
    <2>7. pc' # "prefetch" /\ pc' # "read" /\ pc' # "retire"
        BY <1>1
    <2> QED BY <1>3, <2>4, <2>5, <2>6, <2>7, Zenon DEF Spanned
<1> QED BY <1>5, <1>6

LEMMA InOrderGet ==
    ASSUME IInv, InOrder, Spanned, Get
    PROVE  Spanned'
<1>1. /\ unit' = unit /\ layout' = layout /\ handle' = handle /\ streamed' = streamed
      /\ stream' = stream /\ cached' = cached \union {Needed} /\ handle = Needed
      /\ pc \in Reading /\ pc # "prefetch" /\ pc' \in {"read", "retire"}
      /\ key = Len(layout[unit]) => pc' = "retire" /\ key' = key
      /\ key # Len(layout[unit]) => pc' = "read" /\ key' = key + 1
    BY DEF Get, IInv, Place, Reading
<1>2. /\ unit \in Units /\ key \in 1 .. Len(layout[unit]) /\ Len(layout[unit]) \in Nat
      /\ Needed \in Mapped(unit)
    BY <1>1, NeededIsOwed, NoGap DEF IInv, Place, Reading
<1>3. Mapped(unit)' = Mapped(unit)
    BY <1>1 DEF Mapped
<1>4. cached' \subseteq Mapped(unit) \union {handle' + 1}
    BY <1>1, <1>2 DEF Spanned
<1>5. pc' = "read" => handle' + 1 = Needed'
    <2> SUFFICES ASSUME key # Len(layout[unit]) PROVE handle + 1 = layout[unit][key + 1]
        BY <1>1 DEF Needed
    <2>1. key \in 1 .. Len(layout[unit]) - 1
        BY <1>2
    <2> QED BY <1>1, <1>2, <2>1, NoGap DEF Needed
<1>6. pc' = "retire" => key' = Len(layout[unit])
    BY <1>1
<1>7. \A s \in Shards : Running(s)' => s = handle' + 1 \/ (s = handle' /\ s = NumShards)
    BY <1>1 DEF Spanned, Running
<1> QED BY <1>1, <1>3, <1>4, <1>5, <1>6, <1>7 DEF Spanned

LEMMA InOrderRetire ==
    ASSUME IInv, InOrder, Spanned, Retire
    PROVE  IF pc' \in Reading THEN Spanned'
           ELSE /\ cached' \subseteq {NumShards}
                /\ \A s \in Shards : Running(s)' => s = NumShards
<1>1. /\ layout' = layout /\ stream' = stream /\ surplus' = surplus /\ pc = "retire"
      /\ cached' = cached \ Finished /\ streamed' \subseteq streamed
      /\ unit' = unit + 1 /\ key' = 1 /\ key = Len(layout[unit])
      /\ unit = NumUnits => pc' = "join"
      /\ unit # NumUnits => pc' = "read" /\ handle' = handle
      /\ unit \in Units /\ handle = layout[unit][key]
    BY DEF Retire, Spanned, IInv, Place, Reading, Needed
<1>2. \A s \in cached' : s \in Shards /\ (s \in Mapped(unit) => OwedFrom(unit + 1, s))
    BY <1>1 DEF IInv, TypeOK, Finished
<1>3. \A s \in cached' : s \in Mapped(unit) \/ s = handle + 1
    BY <1>1 DEF Spanned
<1>4. CASE unit = NumUnits
    <2>1. handle = NumShards
        BY <1>1, <1>4, NoGap
    <2>2. NumShards + 1 \notin Shards
        BY SizesAssumption DEF Shards
    <2>3. \A s \in cached' : s \in Mapped(unit)
        BY <1>2, <1>3, <2>1, <2>2
    <2>4. \A s \in cached' : FALSE
        <3>1. unit + 1 \notin Units
            BY <1>4, SizesAssumption DEF Units
        <3> QED BY <1>1, <1>2, <2>3, <3>1, LeftIsOfNext
    <2>5. \A s \in Shards : Running(s)' => s = NumShards
        BY <1>1, <2>1, <2>2 DEF Spanned, Running
    <2> QED BY <1>1, <1>4, <2>4, <2>5 DEF Reading
<1>5. CASE unit # NumUnits
    <2>1. unit + 1 \in Units
        BY <1>1, <1>5, SizesAssumption DEF Units
    <2>2. /\ pc' = "read" /\ handle' = handle /\ handle \in Nat
          /\ layout[unit + 1][1] \in {handle, handle + 1}
        <3>1. /\ layout[unit + 1][1] \in {layout[unit][Len(layout[unit])],
                                            layout[unit][Len(layout[unit])] + 1}
              /\ layout[unit][Len(layout[unit])] \in Shards
            BY <1>1, <2>1, NoGap
        <3> QED BY <1>1, <1>5, <3>1, SizesAssumption DEF Shards
    <2>3. Needed' = layout[unit + 1][1] /\ Mapped(unit)' = Mapped(unit + 1)
        BY <1>1 DEF Needed, Mapped
    <2>4. cached' \subseteq Mapped(unit + 1) \union {handle' + 1}
        BY <1>1, <1>2, <1>3, <2>2, LeftIsOfNext
    <2>5. \A s \in streamed' : s <= handle' + 1
        BY <1>1, <2>2 DEF Spanned
    <2>6. \A s \in Shards : Running(s)' => s = handle' + 1 \/ (s = handle' /\ s = NumShards)
        BY <1>1, <2>2 DEF Spanned, Running
    <2>7. handle' + 1 = Needed' \/ (handle' = Needed' /\ key' = 1)
        BY <1>1, <2>2, <2>3
    <2> QED BY <2>2, <2>3, <2>4, <2>5, <2>6, <2>7 DEF Spanned, Reading
<1> QED BY <1>4, <1>5

LEMMA InOrderPread ==
    ASSUME IInv, InOrder, pc \in Reading, Spanned, NEW s \in Shards, Pread(s)
    PROVE  Spanned'
<1>1. /\ unit' = unit /\ key' = key /\ layout' = layout /\ handle' = handle /\ pc' = pc
      /\ streamed' = streamed /\ Running(s) /\ cached' \subseteq cached \union {s}
      /\ \A t \in Shards : Running(t)' => Running(t)
    BY DEF Pread, Running, IInv, TypeOK
<1>2. Mapped(unit)' = Mapped(unit) /\ Needed' = Needed
    BY <1>1 DEF Mapped, Needed
<1>3. Needed \in Mapped(unit) /\ Needed \in Shards
    BY NeededIsOwed
<1>4. s \in Mapped(unit) \union {handle + 1}
    <2>1. CASE s = handle + 1
        BY <2>1
    <2>2. CASE s # handle + 1
        <3>1. s = handle /\ (pc # "prefetch" => s = NumShards)
            BY <1>1, <2>2 DEF Spanned
        <3>2. handle = Needed
            <4>1. CASE pc = "read"
                BY <1>3, <3>1, <4>1, SizesAssumption DEF Spanned, Shards
            <4>2. CASE pc # "read"
                BY <4>2 DEF IInv, Place, Reading
            <4> QED BY <4>1, <4>2
        <3> QED BY <1>3, <3>1, <3>2
    <2> QED BY <2>1, <2>2
<1>5. cached' \subseteq Mapped(unit) \union {handle' + 1}
    BY <1>1, <1>4 DEF Spanned
<1>6. \A t \in streamed' : t <= (IF pc' = "prefetch" THEN handle' ELSE handle' + 1)
    BY <1>1 DEF Spanned
<1>7. \A t \in Shards : Running(t)' =>
        IF pc' = "prefetch" THEN t = handle' ELSE t = handle' + 1 \/ (t = handle' /\ t = NumShards)
    BY <1>1 DEF Spanned
<1>8. /\ pc' = "read" => handle' + 1 = Needed' \/ (handle' = Needed' /\ key' = 1)
      /\ pc' = "retire" => key' = Len(layout'[unit'])
    BY <1>1, <1>2 DEF Spanned
<1> QED BY <1>2, <1>5, <1>6, <1>7, <1>8 DEF Spanned

LEMMA InOrderStep ==
    ASSUME IInv, [Next]_vars, InOrderInv
    PROVE  InOrderInv'
<1>1. layout' = layout /\ surplus' = surplus
    BY DEF Next, Reader, Open, PrefetchAfter, Get, Retire, JoinLast, DropAll, Pread,
           Terminated, vars
<1>2. InOrder' = InOrder
    BY <1>1 DEF InOrder, Mapped
<1>3. Depth <= 1 => \A s \in Shards : ~Running(s)'
    <2> SUFFICES ASSUME Depth <= 1, NEW s \in Shards PROVE ~Running(s)'
        OBVIOUS
    <2>1. ~Running(s)
        BY DEF InOrderInv
    <2>2. ~PrefetchAfter
        BY DepthAssumption DEF PrefetchAfter, IInv, Place
    <2>3. ASSUME NEW t \in Shards, Pread(t) PROVE stream'[s] = stream[s]
        BY <2>1, <2>3 DEF Pread, IInv, TypeOK
    <2>4. stream'[s] = stream[s]
        BY <2>2, <2>3 DEF Next, Reader, Open, Get, Retire, JoinLast, DropAll, Terminated, vars
    <2> QED BY <2>1, <2>4 DEF Running
<1> SUFFICES ASSUME InOrder
             PROVE  IF pc' \in Reading THEN Spanned'
                    ELSE /\ cached' \subseteq {NumShards}
                         /\ \A s \in Shards : Running(s)' => s = NumShards
    BY <1>2, <1>3 DEF InOrderInv
<1>4. CASE pc \in Reading
    <2>1. Spanned
        BY <1>4 DEF InOrderInv
    <2>2. CASE Open
        BY <2>1, <2>2, InOrderOpen DEF Open, Reading
    <2>3. CASE PrefetchAfter
        BY <2>1, <2>3, InOrderPrefetch DEF PrefetchAfter, Reading
    <2>4. CASE Get
        BY <2>1, <2>4, InOrderGet DEF Get, Reading
    <2>5. CASE Retire
        BY <2>1, <2>5, InOrderRetire
    <2>6. CASE JoinLast \/ DropAll
        BY <1>4, <2>6 DEF JoinLast, DropAll, Reading
    <2>7. ASSUME NEW s \in Shards, Pread(s)
          PROVE  Spanned' /\ pc' \in Reading
        BY <1>4, <2>1, <2>7, InOrderPread DEF Pread
    <2>8. CASE UNCHANGED vars
        BY <1>4, <2>1, <2>8 DEF vars, Spanned, Mapped, Needed, Running
    <2> QED BY <2>2, <2>3, <2>4, <2>5, <2>6, <2>7, <2>8 DEF Next, Reader, Terminated
<1>5. CASE pc \notin Reading
    <2>1. cached \subseteq {NumShards} /\ \A s \in Shards : Running(s) => s = NumShards
        BY <1>5 DEF InOrderInv
    <2>2. CASE JoinLast \/ DropAll \/ UNCHANGED vars
        BY <1>5, <2>1, <2>2 DEF JoinLast, DropAll, vars, Running, Reading
    <2>3. CASE Open \/ PrefetchAfter \/ Get \/ Retire
        BY <1>5, <2>3 DEF Open, PrefetchAfter, Get, Retire, Reading
    <2>4. ASSUME NEW s \in Shards, Pread(s)
          PROVE  /\ pc' \notin Reading /\ cached' \subseteq {NumShards}
                 /\ \A t \in Shards : Running(t)' => t = NumShards
        BY <1>5, <2>1, <2>4 DEF Pread, Running, IInv, TypeOK
    <2> QED BY <2>2, <2>3, <2>4 DEF Next, Reader, Terminated
<1> QED BY <1>4, <1>5

\* What a unit reads is no more than its shard changes.
LEMMA SpanSize ==
    ASSUME IInv, NEW u \in Units
    PROVE  IsFiniteSet(Mapped(u)) /\ Cardinality(Mapped(u)) \in Nat
           /\ Cardinality(Mapped(u)) <= UnitKeys
<1>1. layout[u] \in Runs
    BY DEF IInv
<1>2. PICK f : f = layout[u]
    OBVIOUS
<1>3. /\ DOMAIN f = 1 .. Len(f) /\ Len(f) \in Nat /\ Len(f) <= UnitKeys /\ UnitKeys \in Nat
    BY <1>1, <1>2, RunsAreSequences, SizesAssumption
<1>4. IsFiniteSet(1 .. Len(f)) /\ Cardinality(1 .. Len(f)) = Len(f)
    <2>1. 1 \in Int /\ Len(f) \in Int
        BY <1>3
    <2>2. IsFiniteSet(1 .. Len(f)) /\ Cardinality(1 .. Len(f)) = IF 1 > Len(f) THEN 0 ELSE Len(f) - 1 + 1
        BY <2>1, FS_Interval
    <2> QED BY <1>3, <2>2
<1>5. f \in Surjection(1 .. Len(f), Mapped(u))
    BY <1>1, <1>2, <1>3, RunsAreSequences DEF Surjection, Mapped
<1>6. IsFiniteSet(Mapped(u)) /\ Cardinality(Mapped(u)) <= Len(f)
    BY <1>4, <1>5, FS_Surjection
<1> QED BY <1>3, <1>6, FS_CardinalityType

\* Of a checkpoint that is read in the order of its index, the page cache
\* holds at most the shards one block spans and the one streamed ahead
\* (_prefetch_after, _retire_keys), for every checkpoint and every depth.
THEOREM CacheStaysSmall == Spec => []CacheBound
<1>1. Init => IInv /\ InOrderInv
    BY InitialInv, InOrderStart
<1>2. IInv /\ InOrderInv /\ [Next]_vars => IInv' /\ InOrderInv'
    BY TypeStep, PlaceStep, StreamsStep, KnownStep, InOrderStep DEF IInv
<1>3. IInv /\ InOrderInv => CacheBound
    <2> SUFFICES ASSUME IInv, InOrderInv, InOrder PROVE Cardinality(cached) <= UnitKeys + 1
        BY DEF CacheBound
    <2>1. CASE pc \in Reading
        <3>1. PICK u \in Units : u = unit
            BY <2>1 DEF IInv, Place
        <3>2. IsFiniteSet(Mapped(u)) /\ Cardinality(Mapped(u)) \in Nat
              /\ Cardinality(Mapped(u)) <= UnitKeys
            BY SpanSize
        <3>3. PICK S : S = Mapped(u) \union {handle + 1}
            OBVIOUS
        <3>4. IsFiniteSet(S) /\ Cardinality(S) <= UnitKeys + 1 /\ Cardinality(S) \in Nat
            <4>1. /\ IsFiniteSet(S)
                  /\ Cardinality(S) = IF handle + 1 \in Mapped(u) THEN Cardinality(Mapped(u))
                                      ELSE Cardinality(Mapped(u)) + 1
                BY <3>2, <3>3, FS_AddElement
            <4> QED BY <3>2, <4>1, SizesAssumption
        <3>5. cached \subseteq S
            BY <2>1, <3>1, <3>3 DEF InOrderInv, Spanned
        <3>6. Cardinality(cached) <= Cardinality(S) /\ Cardinality(cached) \in Nat
            BY <3>4, <3>5, FS_Subset, FS_CardinalityType
        <3> QED BY <3>4, <3>6, SizesAssumption
    <2>2. CASE pc \notin Reading
        <3>1. cached \subseteq {NumShards}
            BY <2>2 DEF InOrderInv
        <3>2. IsFiniteSet({NumShards}) /\ Cardinality({NumShards}) = 1
            BY FS_Singleton
        <3>3. Cardinality(cached) <= 1 /\ Cardinality(cached) \in Nat
            BY <3>1, <3>2, FS_Subset, FS_CardinalityType
        <3> QED BY <3>3, SizesAssumption
    <2> QED BY <2>1, <2>2
<1> QED BY <1>1, <1>2, <1>3, PTL DEF Spec
=============================================================================
