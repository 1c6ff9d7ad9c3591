--------------------------- MODULE MCGuardSearch ----------------------------
(* Two buckets; the Message-ID of 4 contains that of 1.                    *)
EXTENDS GuardSearch

MCBuckets == <<"dest", "archive">>
MCLonger == {<<4, 1>>}
=============================================================================
