----------------------------- MODULE Fat32Layout -----------------------------
(***************************************************************************)
(* df_fat32_compute_layout (src/src/fat32.c): the size of the FATs depends *)
(* on the number of clusters and the number of clusters on what the FATs   *)
(* leave over, so the code computes one from the other in turn, starting   *)
(* with a FAT of one sector, until the FAT keeps its size or Rounds rounds *)
(* are over.  Sizes are counted in sectors of 512 bytes.                   *)
(***************************************************************************)
EXTENDS Integers

CONSTANTS
    PartitionStart,     \* first sector of the partition (2048)
    MinSectors,         \* least number of sectors after it (131072)
    MaxSectors,         \* greatest number (UINT32_MAX)
    MinClusters,        \* DF_FAT32_MIN_CLUSTERS
    MaxClusters         \* DF_FAT32_MAX_CLUSTERS

ASSUME LayoutAssumption ==
    /\ PartitionStart \in Nat \ {0}
    /\ MinSectors \in Nat /\ MinSectors >= 131072
    /\ MaxSectors \in Nat /\ MaxSectors \div 65536 < 65536
    /\ MinClusters \in Nat /\ MaxClusters \in Nat

VARIABLES
    step,               \* where the computation stands
    total_sectors, sectors_per_cluster, sectors_per_fat, previous, clusters,
    iteration           \* rounds completed

layout == <<step, total_sectors, sectors_per_cluster, sectors_per_fat, previous, clusters,
            iteration>>

-----------------------------------------------------------------------------
ReservedSectors == 32

\* Seeded defect: one round less.
RoundsLess == 63

\* The bound of the loop.
Rounds == 64

\* choose_sectors_per_cluster: up to 260 MiB, 8, 16 and 32 GiB, and beyond.
ChooseSectorsPerCluster(sectors) ==
    IF sectors <= 532480 THEN 1
    ELSE IF sectors <= 16777216 THEN 8
    ELSE IF sectors <= 33554432 THEN 16
    ELSE IF sectors <= 67108864 THEN 32 ELSE 64

\* Clusters of spc sectors in a volume of n sectors with two FATs of f sectors.
ClustersBeside(n, f, spc) == (n - ReservedSectors - 2 * f) \div spc

\* Sectors of a FAT with entries for c clusters and the two reserved entries.
FatFor(c) == ((c + 2) * 4 + 511) \div 512

-----------------------------------------------------------------------------
\* A call for a target of size sectors: the checks up to the loop.
Begin(size) ==
    LET sectors == size - PartitionStart
    IN  IF sectors < MinSectors \/ sectors > MaxSectors
        THEN /\ step' = "refused"
             /\ UNCHANGED <<total_sectors, sectors_per_cluster, sectors_per_fat, previous,
                            clusters, iteration>>
        ELSE /\ step' = "iterate"
             /\ total_sectors' = sectors
             /\ sectors_per_cluster' = ChooseSectorsPerCluster(sectors)
             /\ sectors_per_fat' = 1 /\ previous' = 0 /\ clusters' = 0 /\ iteration' = 0

\* Seeded defect: the rounds are not counted.
Uncounted == iteration

Counted == iteration + 1

\* The loop ends after this round.
LoopEnds == sectors_per_fat' = previous' \/ iteration' = Rounds

\* One round of the loop.
Iterate ==
    /\ step = "iterate"
    /\ IF total_sectors <= ReservedSectors + 2 * sectors_per_fat
       THEN /\ step' = "refused"
            /\ UNCHANGED <<clusters, previous, sectors_per_fat, iteration>>
       ELSE /\ clusters' = ClustersBeside(total_sectors, sectors_per_fat, sectors_per_cluster)
            /\ previous' = sectors_per_fat
            /\ sectors_per_fat' = FatFor(clusters')
            /\ iteration' = Counted
            /\ step' = IF LoopEnds THEN "limits" ELSE "iterate"
    /\ UNCHANGED <<total_sectors, sectors_per_cluster>>

\* The limits on the number of clusters, and the answer.
Limits ==
    /\ step = "limits"
    /\ step' = IF clusters < MinClusters \/ clusters >= MaxClusters THEN "refused" ELSE "ready"
    /\ UNCHANGED <<total_sectors, sectors_per_cluster, sectors_per_fat, previous, clusters,
                   iteration>>

InitLayout ==
    /\ step = "idle"
    /\ total_sectors = 0 /\ sectors_per_cluster = 1 /\ sectors_per_fat = 1
    /\ previous = 0 /\ clusters = 0 /\ iteration = 0

NextLayout == (\E size \in Nat : Begin(size)) \/ Iterate \/ Limits

SpecLayout == InitLayout /\ [][NextLayout]_layout

-----------------------------------------------------------------------------
(* Properties.                                                             *)

\* The number of clusters whoever reads the volume computes from what its boot
\* sector says.
VolumeClusters == ClustersBeside(total_sectors, sectors_per_fat, sectors_per_cluster)

\* The reserved sectors, both FATs and the clusters fit the partition, also
\* when the loop gave up on a FAT whose size still changed: the clusters were
\* then counted beside another FAT than the one that is returned, and only the
\* parity of the rounds makes the returned one the smaller.
\* (fat32.c:88-102 and what is written from it.)
RegionsFit ==
    step = "ready" =>
        ReservedSectors + 2 * sectors_per_fat + clusters * sectors_per_cluster <= total_sectors

\* A FAT misses at most the last two clusters of its volume.  (It misses some
\* for sizes at which the loop does not settle.)
FatShortByAtMostTwo == step = "ready" => VolumeClusters <= 128 * sectors_per_fat

\* Bounds on the change of the FAT in the last round.
Change(n) ==
    IF n <= 1 THEN 33554434 ELSE IF n = 2 THEN 524290 ELSE IF n = 3 THEN 8193
    ELSE IF n = 4 THEN 130 ELSE IF n = 5 THEN 4 ELSE 1

\* The values of ChooseSectorsPerCluster.
ClusterSizes == {1, 8, 16, 32, 64}

\* What the rounds have in common: after k of them, on a volume of n sectors, the
\* FAT f was computed from the clusters beside the FAT e of the round before; it
\* overshoots after odd rounds and undershoots after even ones, and changes less
\* and less.
Rounded(n, spc, e, f, k) ==
    IF k = 0 THEN f = 1
    ELSE /\ n > ReservedSectors + 2 * e
         /\ f = FatFor(ClustersBeside(n, e, spc))
         /\ k % 2 = 1 => f >= e
         /\ k % 2 = 0 => f <= e
         /\ f - e <= Change(k)
         /\ e - f <= Change(k)

\* The inductive invariant.
LayoutInv ==
    /\ step \in {"idle", "iterate", "limits", "ready", "refused"}
    /\ total_sectors \in Nat /\ sectors_per_fat \in Nat /\ previous \in Nat /\ clusters \in Nat
    /\ iteration \in 0..Rounds
    /\ sectors_per_cluster \in ClusterSizes
    /\ Rounded(total_sectors, sectors_per_cluster, previous, sectors_per_fat, iteration)
    /\ iteration > 0 => clusters = ClustersBeside(total_sectors, previous, sectors_per_cluster)
    /\ step \in {"iterate", "limits", "ready"} => total_sectors \in MinSectors..MaxSectors
    /\ step = "iterate" => iteration < Rounds
    /\ step \in {"limits", "ready"} =>
         iteration > 0 /\ (sectors_per_fat = previous \/ iteration = Rounds)
=============================================================================
