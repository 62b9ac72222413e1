---------------------------- MODULE MCVendorTree ----------------------------
(* A few blobs, and dumps that have them at home, elsewhere or not at all.  *)
EXTENDS VendorTree

I(p, n, k, a, s, m) ==
  [part |-> p, norm |-> n, kind |-> k, arch |-> a, stem |-> s, name |-> m]

\* The two halves of a library of vendor, one of system_ext that wins over them,
\* a binary, a config, manifests with and without a makefile variable, and a binary
\* of bin64 that shares its module name and word size with the one of bin.
MCInfo == <<
  I("vendor", "v/lib/a", "shared_lib", "32", "a", "vendor_lib_a"),
  I("vendor", "v/lib64/a", "shared_lib", "64", "a", "vendor_lib_a"),
  I("system_ext", "se/lib64/a", "shared_lib", "64", "a", "system_ext_lib_a"),
  I("odm", "odm/bin/a", "binary", "64", "a", "odm_bin_a"),
  I("vendor", "v/etc/c", "copy_file", "64", "c", "none"),
  I("vendor_dlkm", "dlkm/manifest", "vintf_manifest", "64", "m", "none"),
  I("odm", "odm/manifest", "vintf_manifest", "64", "m", "none"),
  I("odm", "odm/bin64/a", "binary", "64", "a", "odm_bin_a")>>
MCDests == DOMAIN MCInfo
MCNorms == {MCInfo[d].norm : d \in MCDests}
MCStems == {"a", "c", "m"}
MCNames == {MCInfo[d].name : d \in MCDests}

\* A source is the path inside the partition ("lib64/a"), except that the library of
\* system_ext and the manifests name their partition.
Paths == <<"lib/a", "lib64/a", "lib64/a", "bin/a", "etc/c", "manifest", "manifest",
           "bin64/a">>
MCRelDest == [d \in MCDests |-> Paths[d]]
SourceOf == [MCRelDest EXCEPT ![3] = "system_ext/lib64/a",
                              ![6] = "vendor_dlkm/manifest", ![7] = "odm/manifest"]
MCRooted == {SourceOf[d] : d \in {3, 6, 7}}
MCSources == {Paths[d] : d \in MCDests} \cup {SourceOf[d] : d \in MCDests} \cup {"stock/a"}

\* Two entries may be missing; one takes a library from another source path.
MCEntries ==
  {[src |-> SourceOf[d], dest |-> d, optional |-> FALSE] : d \in MCDests}
    \cup {[src |-> "stock/a", dest |-> 2, optional |-> TRUE],
          [src |-> "bin/a", dest |-> 4, optional |-> TRUE]}
MCRawLists == {<<e>> : e \in MCEntries} \cup {<<e, f, g>> : e, f, g \in MCEntries}

At(dir, path) == <<dir, path>>
Everything ==
  {At(<<"root">>, SourceOf[d]) : d \in {3, 6, 7}}
    \cup {At(<<MCInfo[d].part>>, Paths[d]) : d \in {1, 2, 4, 5, 8}}
MCDumps == {
  {}, Everything,
  \* copies of other partitions beside the blobs' own
  Everything \cup {At(<<"odm">>, "lib64/a"), At(<<"odm">>, "etc/c")},
  \* only in other partitions, or nested, or under the name of the destination
  {At(<<"odm">>, "lib/a"), At(<<"system", "system">>, "lib/a"),
   At(<<"vendor", "vendor">>, "lib64/a"), At(<<"odm", "odm">>, "bin/a"),
   At(<<"root">>, "etc/c"), At(<<"system">>, "system_ext/lib64/a")}}
=============================================================================
