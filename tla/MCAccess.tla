------------------------------- MODULE MCAccess -------------------------------
(* The archive records given to TLC for Access. *)
EXTENDS Access, TLC

CONSTANTS granule1, granule2, granule3, band1, band2, cog1, cog2, cog3

BandOrder == <<band1, band2>>

Cog(bucket, cog, levels) == [href |-> <<Host, bucket, cog>>, levels |-> levels]

\* A granule with two bands of different depths, one with a band in a public
\* bucket, which has an object of the same key, and one with one band.
Records ==
    granule1 :> (band1 :> Cog(Bucket, cog1, 2) @@ band2 :> Cog(Bucket, cog2, 1))
    @@ granule2 :> (band2 :> Cog("public", cog2, 1))
    @@ granule3 :> (band2 :> Cog(Bucket, cog3, 1))

WriterSymmetry == Permutations(Writers)
=============================================================================
