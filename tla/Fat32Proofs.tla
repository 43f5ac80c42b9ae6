----------------------------- MODULE Fat32Proofs -----------------------------
(* The layout computation for every size of the target. *)
EXTENDS Fat32Layout, TLAPS

-----------------------------------------------------------------------------
(* The two functions the loop composes.                                    *)

LEMMA SectorsPerCluster ==
    ASSUME NEW n \in Nat
    PROVE  ChooseSectorsPerCluster(n) \in ClusterSizes
  BY SMT DEF ChooseSectorsPerCluster, ClusterSizes

\* The clusters beside a FAT use what the FATs leave, short of one cluster.
LEMMA ClustersFit ==
    ASSUME NEW n \in Nat, NEW f \in Nat, NEW spc \in ClusterSizes,
           n > ReservedSectors + 2 * f
    PROVE  /\ ClustersBeside(n, f, spc) \in 0..n
           /\ ReservedSectors + 2 * f + ClustersBeside(n, f, spc) * spc <= n
           /\ n < ReservedSectors + 2 * f + ClustersBeside(n, f, spc) * spc + spc
  <1>1. CASE spc = 1
    BY <1>1 DEF ClustersBeside, ReservedSectors
  <1>2. CASE spc = 8
    BY <1>2 DEF ClustersBeside, ReservedSectors
  <1>3. CASE spc = 16
    BY <1>3 DEF ClustersBeside, ReservedSectors
  <1>4. CASE spc = 32
    BY <1>4 DEF ClustersBeside, ReservedSectors
  <1>5. CASE spc = 64
    BY <1>5 DEF ClustersBeside, ReservedSectors
  <1> QED
    BY <1>1, <1>2, <1>3, <1>4, <1>5 DEF ClusterSizes

\* A smaller FAT leaves at most two clusters more for each sector it saves.
LEMMA ClustersAntitone ==
    ASSUME NEW n \in Nat, NEW f \in Nat, NEW g \in Nat, NEW spc \in ClusterSizes,
           n > ReservedSectors + 2 * f, g <= f
    PROVE  /\ ClustersBeside(n, f, spc) <= ClustersBeside(n, g, spc)
           /\ ClustersBeside(n, g, spc) <= ClustersBeside(n, f, spc) + 2 * (f - g)
  <1>1. CASE spc = 1
    BY <1>1 DEF ClustersBeside, ReservedSectors
  <1>2. CASE spc = 8
    BY <1>2 DEF ClustersBeside, ReservedSectors
  <1>3. CASE spc = 16
    BY <1>3 DEF ClustersBeside, ReservedSectors
  <1>4. CASE spc = 32
    BY <1>4 DEF ClustersBeside, ReservedSectors
  <1>5. CASE spc = 64
    BY <1>5 DEF ClustersBeside, ReservedSectors
  <1> QED
    BY <1>1, <1>2, <1>3, <1>4, <1>5 DEF ClusterSizes

\* A FAT has an entry for every cluster it was computed from and two more, and
\* no sector more than that takes.
LEMMA FatCovers ==
    ASSUME NEW c \in Nat
    PROVE  /\ FatFor(c) \in Nat
           /\ FatFor(c) >= 1
           /\ c + 2 <= 128 * FatFor(c)
           /\ 128 * FatFor(c) < c + 2 + 128
  BY DEF FatFor

\* More clusters take a FAT as large or larger, and k more add at most
\* a 128th of that, rounded up.
LEMMA FatMonotone ==
    ASSUME NEW c \in Nat, NEW d \in Nat, c <= d
    PROVE  /\ FatFor(c) <= FatFor(d)
           /\ 128 * (FatFor(d) - FatFor(c)) < d - c + 128
  BY FatCovers DEF FatFor

\* What one round makes of the change of the round before.
LEMMA ChangeShrinks ==
    ASSUME NEW n \in Nat, n > 0, NEW d \in Int, NEW e \in Int,
           d <= Change(n), 128 * e < 2 * d + 128
    PROVE  e <= Change(n + 1)
  <1>1. n = 1 \/ n = 2 \/ n = 3 \/ n = 4 \/ n >= 5
    OBVIOUS
  <1>2. CASE n = 1
    BY SMT, <1>2 DEF Change
  <1>3. CASE n = 2
    BY SMT, <1>3 DEF Change
  <1>4. CASE n = 3
    BY SMT, <1>4 DEF Change
  <1>5. CASE n = 4
    BY SMT, <1>5 DEF Change
  <1>6. CASE n >= 5
    BY SMT, <1>6 DEF Change
  <1> QED
    BY <1>1, <1>2, <1>3, <1>4, <1>5, <1>6

-----------------------------------------------------------------------------
(* The rounds, on numbers.                                                 *)

\* The first round grows the FAT, and by no more than a partition can ask for.
LEMMA FirstRound ==
    ASSUME NEW n \in Nat, n <= MaxSectors, NEW spc \in ClusterSizes,
           n > ReservedSectors + 2 * 1
    PROVE  Rounded(n, spc, 1, FatFor(ClustersBeside(n, 1, spc)), 1)
  <1> DEFINE c == ClustersBeside(n, 1, spc)
             f == FatFor(c)
  <1>1. c \in 0..n
    BY ClustersFit
  <1>2. f \in Nat /\ f >= 1 /\ 128 * f < c + 130
    BY <1>1, FatCovers
  <1>3. f - 1 <= Change(1) /\ 1 - f <= Change(1)
    <2> HIDE DEF c, f
    <2>1. n <= 4294967295
      BY SMT, LayoutAssumption
    <2> QED
      BY SMT, <1>1, <1>2, <2>1 DEF Change
  <1> QED
    BY <1>2, <1>3 DEF Rounded

\* A round that follows a growth shrinks the FAT, by less.
LEMMA RoundAfterGrowth ==
    ASSUME NEW n \in Nat, NEW spc \in ClusterSizes, NEW e \in Nat, NEW f \in Nat,
           NEW k \in Nat, k > 0, Rounded(n, spc, e, f, k), n > ReservedSectors + 2 * f, f >= e
    PROVE  /\ FatFor(ClustersBeside(n, f, spc)) \in Nat
           /\ FatFor(ClustersBeside(n, f, spc)) <= f
           /\ f - FatFor(ClustersBeside(n, f, spc)) <= Change(k + 1)
  <1> DEFINE c == ClustersBeside(n, e, spc)
             d == ClustersBeside(n, f, spc)
             g == FatFor(d)
  <1>1. n > ReservedSectors + 2 * e /\ f = FatFor(c) /\ f - e <= Change(k)
    BY DEF Rounded
  <1>2. c \in Nat /\ d \in Nat /\ d <= c /\ c <= d + 2 * (f - e)
    <2>1. c \in Nat /\ d \in Nat
      BY <1>1, ClustersFit
    <2>2. e <= f
      OBVIOUS
    <2>3. d <= c /\ c <= d + 2 * (f - e)
      BY <1>1, <2>2, ClustersAntitone, Zenon
    <2> QED
      BY <2>1, <2>3
  <1>3. g \in Nat /\ g <= FatFor(c) /\ 128 * (FatFor(c) - g) < c - d + 128
    <2> HIDE DEF c, d
    <2> QED
      BY <1>2, FatCovers, FatMonotone
  <1> HIDE DEF c, d, g
  <1>4. 128 * (f - g) < 2 * (f - e) + 128
    BY <1>1, <1>2, <1>3
  <1>5. f - g <= Change(k + 1)
    BY <1>1, <1>3, <1>4, ChangeShrinks
  <1> QED
    BY <1>1, <1>3, <1>5 DEF g, d

\* A round that follows a shrinkage grows the FAT, by less.
LEMMA RoundAfterShrinkage ==
    ASSUME NEW n \in Nat, NEW spc \in ClusterSizes, NEW e \in Nat, NEW f \in Nat,
           NEW k \in Nat, k > 0, Rounded(n, spc, e, f, k), n > ReservedSectors + 2 * f, f <= e
    PROVE  /\ FatFor(ClustersBeside(n, f, spc)) \in Nat
           /\ f <= FatFor(ClustersBeside(n, f, spc))
           /\ FatFor(ClustersBeside(n, f, spc)) - f <= Change(k + 1)
  <1> DEFINE c == ClustersBeside(n, e, spc)
             d == ClustersBeside(n, f, spc)
             g == FatFor(d)
  <1>1. n > ReservedSectors + 2 * e /\ f = FatFor(c) /\ e - f <= Change(k)
    BY DEF Rounded
  <1>2. c \in Nat /\ d \in Nat /\ c <= d /\ d <= c + 2 * (e - f)
    <2>1. c \in Nat /\ d \in Nat
      BY <1>1, ClustersFit
    <2>2. f <= e
      OBVIOUS
    <2>3. c <= d /\ d <= c + 2 * (e - f)
      BY <1>1, <2>2, ClustersAntitone, Zenon
    <2> QED
      BY <2>1, <2>3
  <1>3. g \in Nat /\ FatFor(c) <= g /\ 128 * (g - FatFor(c)) < d - c + 128
    <2> HIDE DEF c, d
    <2> QED
      BY <1>2, FatCovers, FatMonotone
  <1> HIDE DEF c, d, g
  <1>4. 128 * (g - f) < 2 * (e - f) + 128
    BY <1>1, <1>2, <1>3
  <1>5. g - f <= Change(k + 1)
    BY <1>1, <1>3, <1>4, ChangeShrinks
  <1> QED
    BY <1>1, <1>3, <1>5 DEF g, d

\* Every round.
LEMMA AnyRound ==
    ASSUME NEW n \in Nat, n <= MaxSectors, NEW spc \in ClusterSizes, NEW e \in Nat,
           NEW f \in Nat, NEW k \in Nat, Rounded(n, spc, e, f, k), n > ReservedSectors + 2 * f
    PROVE  Rounded(n, spc, f, FatFor(ClustersBeside(n, f, spc)), k + 1)
  <1> DEFINE g == FatFor(ClustersBeside(n, f, spc))
  <1>1. CASE k = 0
    BY <1>1, FirstRound DEF Rounded
  <1>2. CASE k > 0 /\ k % 2 = 1
    <2>1. f >= e
      BY <1>2 DEF Rounded
    <2>2. g \in Nat /\ g <= f /\ f - g <= Change(k + 1)
      BY <1>2, <2>1, RoundAfterGrowth
    <2>3. Change(k + 1) \in Nat /\ (k + 1) % 2 = 0 /\ k + 1 # 0
      BY SMT, <1>2 DEF Change
    <2> HIDE DEF g
    <2>4. g - f <= Change(k + 1)
      BY <2>2, <2>3
    <2> QED
      BY <2>2, <2>3, <2>4 DEF Rounded, g
  <1>3. CASE k > 0 /\ k % 2 = 0
    <2>1. f <= e
      BY <1>3 DEF Rounded
    <2>2. g \in Nat /\ f <= g /\ g - f <= Change(k + 1)
      BY <1>3, <2>1, RoundAfterShrinkage
    <2>3. Change(k + 1) \in Nat /\ (k + 1) % 2 = 1 /\ k + 1 # 0
      BY SMT, <1>3 DEF Change
    <2> HIDE DEF g
    <2>4. f - g <= Change(k + 1)
      BY <2>2, <2>3
    <2> QED
      BY <2>2, <2>3, <2>4 DEF Rounded, g
  <1> QED
    BY <1>1, <1>2, <1>3

-----------------------------------------------------------------------------
(* The steps.                                                              *)

\* A round that is not refused.
LEMMA Round ==
    ASSUME Iterate, iteration \in Nat, iteration' # iteration
    PROVE  /\ step = "iterate"
           /\ ~(total_sectors <= ReservedSectors + 2 * sectors_per_fat)
           /\ clusters' = ClustersBeside(total_sectors, sectors_per_fat, sectors_per_cluster)
           /\ previous' = sectors_per_fat
           /\ sectors_per_fat' = FatFor(clusters')
           /\ iteration' = iteration + 1
           /\ step' = IF LoopEnds THEN "limits" ELSE "iterate"
           /\ total_sectors' = total_sectors /\ sectors_per_cluster' = sectors_per_cluster
  BY DEF Counted, Iterate

LEMMA IterateKeeps ==
    ASSUME LayoutInv, Iterate
    PROVE  LayoutInv'
  <1>1. CASE total_sectors <= ReservedSectors + 2 * sectors_per_fat
    BY <1>1 DEF LayoutInv, Iterate
  <1>2. CASE ~(total_sectors <= ReservedSectors + 2 * sectors_per_fat)
    <2>1. /\ iteration \in Nat /\ iteration < Rounds /\ iteration' = iteration + 1
          /\ iteration' \in 0..Rounds /\ iteration' > 0 /\ iteration' # iteration
      BY <1>2 DEF LayoutInv, Counted, Iterate, Rounds
    <2>2. /\ total_sectors \in Nat /\ sectors_per_fat \in Nat /\ previous \in Nat
          /\ sectors_per_cluster \in ClusterSizes
          /\ total_sectors \in MinSectors..MaxSectors
          /\ total_sectors > ReservedSectors + 2 * sectors_per_fat
          /\ Rounded(total_sectors, sectors_per_cluster, previous, sectors_per_fat, iteration)
      BY <1>2, <2>1, Round DEF LayoutInv, ReservedSectors
    <2>3. total_sectors <= MaxSectors
      BY SMT, <2>2, LayoutAssumption
    <2>4. ClustersBeside(total_sectors, sectors_per_fat, sectors_per_cluster) \in Nat
      BY <2>2, ClustersFit
    <2>5. FatFor(ClustersBeside(total_sectors, sectors_per_fat, sectors_per_cluster)) \in Nat
      BY <2>4, FatCovers
    <2>6. Rounded(total_sectors, sectors_per_cluster, sectors_per_fat,
                  FatFor(ClustersBeside(total_sectors, sectors_per_fat, sectors_per_cluster)),
                  iteration + 1)
      BY <2>1, <2>2, <2>3, AnyRound
    <2>7. /\ clusters' = ClustersBeside(total_sectors, sectors_per_fat, sectors_per_cluster)
          /\ previous' = sectors_per_fat
          /\ sectors_per_fat' = FatFor(clusters')
          /\ total_sectors' = total_sectors /\ sectors_per_cluster' = sectors_per_cluster
      BY <2>1, Round
    <2>8. Rounded(total_sectors, sectors_per_cluster, previous, sectors_per_fat, iteration)'
      BY <2>1, <2>6, <2>7 DEF Rounded
    <2>9. /\ step' \in {"iterate", "limits"}
          /\ step' = "limits" => sectors_per_fat' = previous' \/ iteration' = Rounds
          /\ step' = "iterate" => iteration' # Rounds
      BY <2>1, Round DEF LoopEnds
    <2>10. step' = "iterate" => iteration' < Rounds
      BY <2>1, <2>9 DEF Rounds
    <2> QED
      BY <2>1, <2>2, <2>4, <2>5, <2>7, <2>8, <2>9, <2>10 DEF LayoutInv
  <1> QED
    BY <1>1, <1>2

LEMMA BeginKeeps ==
    ASSUME LayoutInv, NEW size \in Nat, Begin(size)
    PROVE  LayoutInv'
  <1>1. CASE size - PartitionStart < MinSectors \/ size - PartitionStart > MaxSectors
    BY <1>1 DEF LayoutInv, Begin
  <1>2. CASE ~(size - PartitionStart < MinSectors \/ size - PartitionStart > MaxSectors)
    <2>1. size - PartitionStart \in MinSectors..MaxSectors /\ size - PartitionStart \in Nat
      BY SMT, <1>2, LayoutAssumption
    <2>2. ChooseSectorsPerCluster(size - PartitionStart) \in ClusterSizes
      BY <2>1, SectorsPerCluster
    <2> QED
      BY <1>2, <2>1, <2>2 DEF LayoutInv, Begin, Rounds, Rounded
  <1> QED
    BY <1>1, <1>2

LEMMA LimitsKeeps ==
    ASSUME LayoutInv, Limits
    PROVE  LayoutInv'
  BY DEF LayoutInv, Limits

LEMMA StutterKeeps ==
    ASSUME LayoutInv, UNCHANGED layout
    PROVE  LayoutInv'
  BY DEF LayoutInv, layout

\* The invariant of the rounds, for every sequence of calls with targets of any
\* size.
THEOREM LayoutCorrect == SpecLayout => []LayoutInv
  <1>1. InitLayout => LayoutInv
    BY DEF InitLayout, LayoutInv, Rounds, Rounded, ClusterSizes
  <1>2. LayoutInv /\ [NextLayout]_layout => LayoutInv'
    BY BeginKeeps, IterateKeeps, LimitsKeeps, StutterKeeps DEF NextLayout
  <1> QED
    BY <1>1, <1>2, PTL DEF SpecLayout

-----------------------------------------------------------------------------
(* What follows for the layout returned.                                   *)

\* After an even number of rounds the FAT returned is no larger than the one
\* the clusters were counted beside.
LEMMA ReturnedFatFits ==
    ASSUME LayoutInv, step = "ready"
    PROVE  /\ sectors_per_fat <= previous
           /\ previous <= sectors_per_fat + 1
  <1>1. sectors_per_fat = previous \/ iteration = 64
    BY DEF LayoutInv, Rounds
  <1>2. sectors_per_fat \in Nat /\ previous \in Nat
    BY DEF LayoutInv
  <1>3. CASE iteration = 64
    BY SMT, <1>2, <1>3 DEF LayoutInv, Rounded, Change
  <1> QED
    BY <1>1, <1>2, <1>3

LEMMA InvImpliesRegionsFit == LayoutInv => RegionsFit
  <1> SUFFICES ASSUME LayoutInv, step = "ready"
               PROVE  ReservedSectors + 2 * sectors_per_fat + clusters * sectors_per_cluster
                        <= total_sectors
    BY DEF RegionsFit
  <1>1. /\ total_sectors \in Nat /\ sectors_per_fat \in Nat /\ previous \in Nat
        /\ clusters \in Nat /\ sectors_per_cluster \in ClusterSizes
        /\ total_sectors > ReservedSectors + 2 * previous
        /\ clusters = ClustersBeside(total_sectors, previous, sectors_per_cluster)
    BY DEF LayoutInv, Rounded
  <1>2. ReservedSectors + 2 * previous + clusters * sectors_per_cluster <= total_sectors
    BY <1>1, ClustersFit
  <1>3. clusters * sectors_per_cluster \in Nat
    BY <1>1 DEF ClusterSizes
  <1> QED
    BY <1>1, <1>2, <1>3, ReturnedFatFits DEF ReservedSectors

LEMMA InvImpliesFatShort == LayoutInv => FatShortByAtMostTwo
  <1> SUFFICES ASSUME LayoutInv, step = "ready"
               PROVE  VolumeClusters <= 128 * sectors_per_fat
    BY DEF FatShortByAtMostTwo
  <1>1. /\ total_sectors \in Nat /\ sectors_per_fat \in Nat /\ previous \in Nat
        /\ clusters \in Nat /\ sectors_per_cluster \in ClusterSizes
        /\ total_sectors > ReservedSectors + 2 * previous
        /\ clusters = ClustersBeside(total_sectors, previous, sectors_per_cluster)
        /\ sectors_per_fat = FatFor(clusters)
    BY DEF LayoutInv, Rounded
  <1>2. ClustersBeside(total_sectors, sectors_per_fat, sectors_per_cluster)
          <= ClustersBeside(total_sectors, previous, sectors_per_cluster)
               + 2 * (previous - sectors_per_fat)
    BY <1>1, ReturnedFatFits, ClustersAntitone
  <1>3. clusters + 2 <= 128 * sectors_per_fat
    BY <1>1, FatCovers
  <1>4. VolumeClusters \in Nat
    <2>1. total_sectors > ReservedSectors + 2 * sectors_per_fat
      BY <1>1, ReturnedFatFits DEF ReservedSectors
    <2> QED
      BY <1>1, <2>1, ClustersFit DEF VolumeClusters
  <1> QED
    BY <1>1, <1>2, <1>3, <1>4, ReturnedFatFits DEF VolumeClusters

\* Every layout that is returned fits its partition.
THEOREM LayoutFits == SpecLayout => []RegionsFit
  BY LayoutCorrect, InvImpliesRegionsFit, PTL

\* For every size of the target, the FAT misses at most two clusters.
THEOREM LayoutNearlyCovers == SpecLayout => []FatShortByAtMostTwo
  BY LayoutCorrect, InvImpliesFatShort, PTL
=============================================================================
