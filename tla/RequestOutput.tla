---------------------------- MODULE RequestOutput ----------------------------
(***************************************************************************)
(* From the prompts of a request to its images: the runner (or the Ray     *)
(* driver) deals the prompts to the data-parallel replicas, every replica  *)
(* denoises its share call by call, the latents of the replicas are handed *)
(* to whoever decodes, and the images end on one rank.  Who owns latents   *)
(* and who talks to whom follows from the groups that                      *)
(* initialize_model_parallel cuts the ranks into.                          *)
(*                                                                         *)
(* A collective is one step of all the members of its group, taken when    *)
(* all of them are at it; a send is one step of both ends.  A prompt is a  *)
(* number, a latent or an image the prompt it was made for.                *)
(***************************************************************************)
EXTENDS Integers, Sequences, FiniteSets, SequencesExt

CONSTANTS
    Setups      \* the configurations: degrees, decoder, caller, prompts

\* tp, sp, pp, cfg, dp: the degrees; vae: ranks that only decode; parallel:
\* use_parallel_vae; caller: a legacy wrapper or a native pipeline under the
\* runner, or a wrapper under Ray; prompts: how many; batch: the runner's
\* batch_size, 0 for none.  Only Ray starts ranks that only decode; they hear
\* the last rank alone, so every further replica would wait in its send.  A model
\* that runs on more than one stage is a legacy wrapper.  Only the runner refuses
\* uneven shares.
ASSUME SetupsOK ==
    /\ Setups \subseteq [tp : Nat \ {0}, sp : Nat \ {0}, pp : Nat \ {0}, cfg : Nat \ {0},
                         dp : Nat \ {0}, vae : Nat, parallel : BOOLEAN,
                         caller : {"legacy", "native", "ray"},
                         prompts : Nat \ {0}, batch : Nat]
    /\ \A s \in Setups :
          /\ s.vae > 0 => s.caller = "ray" /\ s.parallel /\ s.dp = 1 /\ s.tp = 1
          /\ s.caller = "native" => s.pp = 1
          /\ s.caller = "ray" => s.prompts % s.dp = 0 /\ s.batch = 0

VARIABLES
    setup,
    groups,      \* per axis, the groups initialize_model_parallel made
    pc,          \* per rank, what it does next
    call,        \* per rank, pipeline calls finished
    latents,     \* per rank, the latents it holds after the denoising
    owners,      \* per rank, dp_rank_list
    received,    \* of the messages to the first VAE rank, how many arrived
    images,      \* per rank, the images its calls returned, or the VAE rank's
    saved        \* what is saved, or what the Ray driver has, in the end

vars == <<setup, groups, pc, call, latents, owners, received, images, saved>>

----------------------------------------------------------------------------
(* The groups: RankGenerator in the order tp-sp-pp-cfg-dp.                 *)

Shape == <<setup.tp, setup.sp, setup.pp, setup.cfg, setup.dp>>

\* The axes of a group, and the other ones; those of a replica are all but the
\* data-parallel one.
Axes == [tp |-> <<1>>, sp |-> <<2>>, pp |-> <<3>>, cfg |-> <<4>>, dp |-> <<5>>,
         replica |-> <<1, 2, 3, 4>>]

OtherAxes == [tp |-> <<2, 3, 4, 5>>, sp |-> <<1, 3, 4, 5>>, pp |-> <<1, 2, 4, 5>>,
              cfg |-> <<1, 2, 3, 5>>, dp |-> <<1, 2, 3, 4>>, replica |-> <<5>>]

\* prefix_product: the product of the first i entries.
Products(s) ==
    LET product[i \in 0 .. Len(s)] == IF i = 0 THEN 1 ELSE product[i - 1] * s[i]
    IN  product

Product(s) == Products(s)[Len(s)]

DitSize == Product(Shape)

DitRanks == 0 .. DitSize - 1

VaeRanks == DitSize .. DitSize + setup.vae - 1

World == DitRanks \union VaeRanks

Strides(s) == [i \in DOMAIN s |-> Products(s)[i - 1]]

Decompose(index, shape) == [i \in DOMAIN shape |-> (index \div Strides(shape)[i]) % shape[i]]

InnerProduct(a, b) ==
    LET sum[i \in 0 .. Len(a)] == IF i = 0 THEN 0 ELSE sum[i - 1] + a[i] * b[i]
    IN  sum[Len(a)]

\* The entries of a sequence over the axes that belong to some axes.
Masked(s, axes) == [i \in 1 .. Len(axes) |-> s[axes[i]]]

\* generate_masked_orthogonal_rank_groups; the strides are those of all the axes.
GroupRank_PackedStride(group, place, axes, others) ==
    InnerProduct(Decompose(place, Masked(Shape, axes)), Strides(Masked(Shape, axes)))
    + InnerProduct(Decompose(group, Masked(Shape, others)), Masked(Strides(Shape), others))

GroupRank(group, place, axes, others) ==
    InnerProduct(Decompose(place, Masked(Shape, axes)), Masked(Strides(Shape), axes))
    + InnerProduct(Decompose(group, Masked(Shape, others)), Masked(Strides(Shape), others))

RankGroups(axis) ==
    LET size == Product(Masked(Shape, Axes[axis]))
    IN  [g \in 1 .. DitSize \div size |->
            [k \in 1 .. size |-> GroupRank(g - 1, k - 1, Axes[axis], OtherAxes[axis])]]

\* init_model_parallel_group: the group of the rank, and its place in it.
GroupOf(r, axis) == CHOOSE g \in ToSet(groups[axis]) : r \in ToSet(g)

RankInGroup(r, axis) ==
    LET g == GroupOf(r, axis) IN (CHOOSE k \in DOMAIN g : g[k] = r) - 1

\* The module-level is_dp_last_group; it does not look at the tensor-parallel rank.
IsOwner_AnyStage(r) ==
    \A axis \in {"sp", "cfg"} : RankInGroup(r, axis) = setup[axis] - 1

IsOwner(r) ==
    \A axis \in {"sp", "cfg", "pp"} : RankInGroup(r, axis) = setup[axis] - 1

----------------------------------------------------------------------------
(* How the request is served.                                              *)

NaiveForward ==
    /\ setup.pp = 1 /\ setup.cfg = 1 /\ setup.sp = 1 /\ setup.tp = 1
    /\ setup.vae = 0

ParallelizesVae == setup.caller # "native" /\ setup.parallel /\ ~NaiveForward

Dedicated == setup.parallel /\ setup.vae > 0

\* Who returns images from a call of a legacy wrapper.
Returns(r) == IF ParallelizesVae THEN r = 0 ELSE IsOwner(r)

CeilDiv(a, b) == (a + b - 1) \div b

\* s[first : last] of Python.
Slice(s, first, last) == SubSeq(s, first + 1, IF last > Len(s) THEN Len(s) ELSE last)

\* enable_data_parallel deals runs of neighbours, the runner every dp-th.
Share(r) ==
    LET dp == setup.dp
        all == [i \in 1 .. setup.prompts |-> i]
        each == CeilDiv(setup.prompts, dp)
        replica == IF setup.caller = "ray" THEN r \div (DitSize \div dp)
                                           ELSE RankInGroup(r, "dp")
    IN  IF setup.prompts = 1 \/ dp = 1 THEN all
        ELSE IF setup.caller = "ray" THEN Slice(all, replica * each, (replica + 1) * each)
        ELSE [i \in 1 .. CeilDiv(setup.prompts - replica, dp) |-> replica + 1 + (i - 1) * dp]

Batch(r) == IF setup.batch = 0 THEN Len(Share(r)) ELSE setup.batch

\* How many calls: the batches of the runner; Ray's prepare_run and its request.
Calls(r) == IF setup.caller = "ray" THEN 2 ELSE CeilDiv(Len(Share(r)), Batch(r))

\* _run_pipe_batched: the prompts of the rank's next call.
CallPrompts(r) ==
    IF setup.caller = "ray" THEN Share(r)
    ELSE Slice(Share(r), call[r] * Batch(r), (call[r] + 1) * Batch(r))

\* _split_prompts_for_dp: too few prompts, or shares of different sizes for a gather.
Refused_TooFewOnly ==
    /\ setup.caller # "ray" /\ setup.dp > 1 /\ setup.prompts > 1
    /\ setup.prompts < setup.dp

Refused ==
    /\ setup.caller # "ray" /\ setup.dp > 1 /\ setup.prompts > 1
    /\ \/ setup.prompts < setup.dp
       \/ ParallelizesVae /\ setup.prompts % setup.dp # 0

\* Who takes part in the all-gather of the owners, and in creating their group.
Announcers == IF Dedicated THEN DitRanks ELSE World

----------------------------------------------------------------------------
Init ==
    /\ setup \in Setups
    /\ groups = [axis \in DOMAIN Axes |-> RankGroups(axis)]
    /\ pc = [r \in World |-> IF r \in VaeRanks THEN "receive" ELSE "split"]
    /\ call = [r \in World |-> 0]
    /\ latents = [r \in World |-> <<>>]
    /\ owners = [r \in World |-> <<>>]
    /\ received = 0
    /\ images = [r \in World |-> <<>>]
    /\ saved = <<>>

At(ranks, where) == \A r \in ranks : pc[r] = where

Go(ranks, where) == pc' = [r \in World |-> IF r \in ranks THEN where ELSE pc[r]]

\* _split_prompts_for_dp, on every rank by itself.
Split(r) ==
    /\ At({r}, "split")
    /\ Go({r}, IF Refused THEN "refused" ELSE "denoise")
    /\ UNCHANGED <<setup, groups, call, latents, owners, received, images, saved>>

\* What a rank does when a call is over; the runner's ranks gather at the end.
GathersOutputs == setup.caller # "ray" /\ (setup.dp > 1 \/ ParallelizesVae)

AfterCall(r) ==
    IF setup.caller = "ray" THEN "returned"
    ELSE IF call[r] + 1 < Calls(r) THEN "denoise"
    ELSE IF GathersOutputs THEN "gather_outputs"
    ELSE "save"

\* A call returned, with these images; a Ray call's are its own.
Return(ranks, made) ==
    /\ call' = [r \in World |-> IF r \in ranks THEN call[r] + 1 ELSE call[r]]
    /\ images' = [r \in World |->
          IF r \notin ranks THEN images[r]
          ELSE IF setup.caller = "ray" THEN made[r]
          ELSE images[r] \o made[r]]
    /\ pc' = [r \in World |-> IF r \in ranks THEN AfterCall(r) ELSE pc[r]]

\* The denoising of a call.  Only owners have the finished latents.  Without a
\* parallel decoder the owners decode their own.
Denoise(r) ==
    /\ At({r}, "denoise")
    /\ latents' = [latents EXCEPT ![r] = IF IsOwner(r) THEN CallPrompts(r) ELSE <<>>]
    /\ IF ParallelizesVae
         THEN Go({r}, "announce") /\ UNCHANGED <<call, images>>
         ELSE Return({r}, [q \in {r} |-> IF setup.caller = "native" \/ Returns(q)
                                            THEN CallPrompts(q) ELSE <<>>])
    /\ UNCHANGED <<setup, groups, owners, received, saved>>

\* A set of ranks in the order a gather lists them.
InOrder(ranks) ==
    CHOOSE s \in [1 .. Cardinality(ranks) -> ranks] :
        \A i, j \in DOMAIN s : i < j => s[i] < s[j]

\* all_gather of the owners' ranks, and _get_dp_last_group.  With a dedicated
\* decoder one owner gathers too, in the broadcasting path it does not.
Announce ==
    /\ At(Announcers, "announce")
    /\ LET list == InOrder({r \in DitRanks : IsOwner(r)})
           others == IF Dedicated THEN "returned" ELSE "broadcast"
       IN  /\ owners' = [r \in World |-> IF r \in Announcers THEN list ELSE owners[r]]
           /\ pc' = [r \in World |->
                 IF r \notin Announcers THEN pc[r]
                 ELSE IF r \in ToSet(list) /\ (Dedicated \/ Len(list) > 1) THEN "collect"
                 ELSE others]
           /\ call' = [r \in World |->
                 IF Dedicated /\ r \in DitRanks \ ToSet(list) THEN call[r] + 1 ELSE call[r]]
    /\ UNCHANGED <<setup, groups, latents, received, images, saved>>

\* gather to the last owner, which joins the latents in the order of the ranks.
Collect ==
    LET list == owners[0]
        last == list[Len(list)]
    IN  /\ list # <<>> /\ At(ToSet(list), "collect")
        /\ latents' = [latents EXCEPT ![last] =
               FlattenSeq([i \in DOMAIN list |-> latents[list[i]]])]
        /\ Go(ToSet(list), IF Dedicated THEN "send" ELSE "broadcast")
        /\ UNCHANGED <<setup, groups, call, owners, received, images, saved>>

\* gather_broadcast_latents: shape, dtype and latents from the last owner; then
\* all ranks decode together and rank 0 returns the images.
Broadcast ==
    /\ ~Dedicated /\ At(World, "broadcast")
    /\ LET source == owners[0][Len(owners[0])]
       IN  /\ latents' = [r \in World |-> latents[source]]
           /\ Return(World, [r \in World |-> IF Returns(r) THEN latents[source] ELSE <<>>])
    /\ UNCHANGED <<setup, groups, owners, received, saved>>

----------------------------------------------------------------------------
(* The dedicated VAE ranks.                                                *)

\* execute: the rank the first VAE rank receives from.
SourceRank_First == 0

SourceRank == DitSize - 1

Parts == 3  \* the number of dimensions, the shape, the latents

\* One blocking send of send_to_vae_decode, and its receive.
Transfer ==
    /\ Dedicated /\ At({SourceRank}, "send") /\ At({DitSize}, "receive")
    /\ received' = (received + 1) % Parts
    /\ IF received + 1 < Parts
         THEN UNCHANGED <<pc, call, latents>>
         ELSE /\ latents' = [latents EXCEPT ![DitSize] = latents[SourceRank]]
              /\ pc' = [pc EXCEPT ![SourceRank] = "returned", ![DitSize] = "vae_broadcast"]
              /\ call' = [call EXCEPT ![SourceRank] = @ + 1]
    /\ UNCHANGED <<setup, groups, owners, images, saved>>

\* The other VAE ranks are in their broadcast from the start; all decode.
VaeBroadcast ==
    /\ Dedicated /\ At({DitSize}, "vae_broadcast") /\ At(VaeRanks \ {DitSize}, "receive")
    /\ latents' = [r \in World |-> IF r \in VaeRanks THEN latents[DitSize] ELSE latents[r]]
    /\ Return(VaeRanks, [r \in VaeRanks |-> latents[DitSize]])
    /\ UNCHANGED <<setup, groups, owners, received, saved>>

\* The Ray driver awaits all workers, then calls all of them again; it has the
\* images of all in the order of the ranks.
DriverReturns ==
    /\ setup.caller = "ray" /\ At(World, "returned")
    /\ IF call[0] < Calls(0)
         THEN /\ pc' = [r \in World |-> IF r \in VaeRanks THEN "receive" ELSE "denoise"]
              /\ owners' = [r \in World |-> <<>>]
              /\ UNCHANGED saved
         ELSE /\ Go(World, "end")
              /\ saved' = FlattenSeq([i \in 1 .. Cardinality(World) |-> images[i - 1]])
              /\ UNCHANGED owners
    /\ UNCHANGED <<setup, groups, call, latents, received, images>>

----------------------------------------------------------------------------
(* The end of the request under the runner.                                *)

\* _gather_dp_outputs: whose output counts.
Representative(r) ==
    IF setup.caller = "native"
      THEN RankInGroup(r, "sp") = 0 /\ RankInGroup(r, "cfg") = 0
      ELSE Returns(r)

\* gather_object to the last rank, the only one with an output after it.
GatherOutputs ==
    /\ At(World, "gather_outputs")
    /\ LET senders == InOrder({r \in World : Representative(r)})
       IN  images' = [r \in World |->
             IF r = DitSize - 1
               THEN FlattenSeq([i \in DOMAIN senders |-> images[senders[i]]])
               ELSE <<>>]
    /\ Go(World, "save")
    /\ UNCHANGED <<setup, groups, call, latents, owners, received, saved>>

\* _select_output_owner: the last rank that has an output saves it.
OutputOwner ==
    LET with == {r \in World : images[r] # <<>>}
    IN  IF with = {} THEN DitSize - 1 ELSE Max(with)

Save ==
    /\ At(World, "save")
    /\ saved' = images[OutputOwner]
    /\ Go(World, "end")
    /\ UNCHANGED <<setup, groups, call, latents, owners, received, images>>

Finished == \A r \in World : pc[r] \in {"end", "refused"}

Stop == Finished /\ UNCHANGED vars

Step ==
    \/ \E r \in DitRanks : Split(r) \/ Denoise(r)
    \/ Announce
    \/ Collect
    \/ Broadcast
    \/ Transfer
    \/ VaeBroadcast
    \/ DriverReturns
    \/ GatherOutputs
    \/ Save

Next == Step \/ Stop

Spec == Init /\ [][Next]_vars

FairSpec == Spec /\ WF_vars(Step)

----------------------------------------------------------------------------
(* Properties.                                                             *)

\* The groups of an axis are the ranks that differ in that axis only, in their
\* order; a replica is a run of neighbours, as the Ray path's split of the
\* prompts takes for granted.
GroupsOrthogonal ==
    LET coordinates == [r \in DitRanks |-> Decompose(r, Shape)]
    IN  /\ \A axis \in DOMAIN Axes : \A r \in DitRanks :
              ToSet(GroupOf(r, axis)) =
                  {q \in DitRanks : \A i \in ToSet(OtherAxes[axis]) :
                                        coordinates[q][i] = coordinates[r][i]}
        /\ \A axis \in DOMAIN Axes : \A g \in ToSet(groups[axis]) :
              \A k \in 1 .. Len(g) - 1 : g[k] < g[k + 1]
        /\ \A r, q \in DitRanks :
              q \in ToSet(GroupOf(r, "replica")) <=>
                  q \div (DitSize \div setup.dp) = r \div (DitSize \div setup.dp)

\* How often a prompt has to come out: a single prompt is made by every
\* replica, and the Ray driver hears every rank that decodes.
Copies == (IF setup.prompts = 1 THEN setup.dp ELSE 1) * (IF Dedicated THEN setup.vae ELSE 1)

Count(s, e) == Cardinality({i \in DOMAIN s : s[i] = e})

\* When all ranks are through, the rank that saves (or the VAE) has an image of
\* every prompt, once, whatever rank denoised and decoded it: no replica's
\* latents are lost, doubled or taken from a rank that does not have them.
\* This needs a tensor-parallel degree of one, the only one the runner allows.
EveryPromptSaved ==
    (\A r \in World : pc[r] = "end") /\ setup.tp = 1 =>
        \A p \in 1 .. setup.prompts : Count(saved, p) = Copies

\* Latents are gathered into equal buffers: all owners hold equally many.
EqualGather ==
    \A r \in DitRanks : owners[r] # <<>> /\ At(ToSet(owners[r]), "collect") =>
        \A q \in ToSet(owners[r]) : Len(latents[q]) = Len(latents[owners[r][1]])

\* Every rank gets through the request: no collective and no send waits for a
\* rank that never comes.
AllEnd == <>Finished
=============================================================================
