------------------------- MODULE MCStorageProviders -------------------------
(***************************************************************************)
(* Values of the constants of StorageProviders for TLC: two visits of one  *)
(* crawl and one of the next.                                              *)
(***************************************************************************)
EXTENDS StorageProviders, TLC
CONSTANTS v1, v2, v3, h1, h2, b1, b2

MCProviders ==
    {<<"SQLite", "LevelDb">>, <<"SQLite", "LocalGzip">>, <<"SQLite", "Gcs">>, <<"SQLite", "S3">>,
     <<"Memory", "Memory">>}
MCVisits == {v1, v2, v3}
MCCrawlOf == v1 :> 1 @@ v2 :> 1 @@ v3 :> 2
Row(visit, n) == [visit |-> visit, n |-> n]
MCRecords == {Row(v1, 1), Row(v1, 2), Row(v1, 3), Row(v2, 1)}
MCUnsupported == {Row(v1, 2)}
Page(visit, filename, blob) == [visit |-> visit, filename |-> filename, blob |-> blob]
(* Two contents with one hash, in one crawl and in two.                    *)
MCContents == {Page(v1, h1, b1), Page(v2, h1, b2), Page(v2, h2, b1), Page(v3, h1, b2)}
=============================================================================
