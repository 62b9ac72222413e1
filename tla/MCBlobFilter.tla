---------------------------- MODULE MCBlobFilter ----------------------------
(* A small list of blobs: the cases filtered_entries tells apart.          *)
EXTENDS BlobFilter

I(p, n, k, a, s, m) ==
  [part |-> p, norm |-> n, kind |-> k, arch |-> a, stem |-> s, name |-> m]

\* 1: lib/a.so and 8: vendor/lib/a.so are the same place; 2, 3: other
\* partitions and word sizes; 4: a partition without priority; 5: a binary of
\* the same stem; 6: a manifest; 7: a config the device owns.
MCInfo == <<
  I("vendor", "v/lib/a", "shared_lib", "32", "a", "vendor_lib_a"),
  I("system_ext", "se/lib64/a", "shared_lib", "64", "a", "system_ext_lib_a"),
  I("vendor", "v/lib64/a", "shared_lib", "64", "a", "vendor_lib_a"),
  I("vendor_dlkm", "dlkm/lib/a", "shared_lib", "32", "a", "dlkm_lib_a"),
  I("odm", "odm/bin/a", "binary", "64", "a", "odm_bin_a"),
  I("odm", "odm/manifest", "vintf_manifest", "64", "m", "none"),
  I("vendor", "v/etc/owned", "copy_file", "64", "c", "none"),
  I("vendor", "v/lib/a", "shared_lib", "32", "a", "vendor_lib_a")>>
MCDests == DOMAIN MCInfo
MCNorms == {MCInfo[d].norm : d \in MCDests}
MCStems == {"a", "m", "c"}
MCNames == {MCInfo[d].name : d \in MCDests}
MCExcluded == {"v/etc/owned"}

\* The source of a blob is its own.
MCEntries == {[src |-> d, dest |-> d, optional |-> FALSE] : d \in MCDests}
MCRawLists == UNION {[1..n -> MCEntries] : n \in 0..4}
=============================================================================
