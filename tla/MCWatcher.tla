------------------------------ MODULE MCWatcher ------------------------------
(* A directory c with a file f, a hidden file, and a directory d with a file *)
(* g; x is a file beside c.                                                  *)
EXTENDS Watcher

c == <<"c">>
cd == <<"c", "d">>
cf == <<"c", "f">>
ct == <<"c", ".t">>
cdg == <<"c", "d", "g">>
x == <<"x">>

MCPaths == {<<>>, c, cd, cf, ct, cdg, x}
MCDirs == {<<>>, c, cd}

Config(path, exclude, include, renames) ==
  [path |-> path, exclude |-> exclude, include |-> include, renames |-> renames]

\* The file does not exist, or is c/f.
FileConfig == Config(cf, {}, {}, {})

\* A directory whose files are renamed from hidden names by rsync, or within it
\* and into it; lists of either kind; a directory further down, whose file is
\* moved out; a file.
MCConfigs ==
  {Config(c, {}, {}, {<<ct, cf>>}), Config(c, {}, {}, {<<x, cf>>, <<cf, cdg>>}),
   Config(c, {cd}, {}, {}), Config(c, {}, {cd}, {}), Config(c, {}, {cf}, {}),
   Config(cd, {}, {}, {<<cdg, x>>}), FileConfig}

OnlyFile == {FileConfig}

\* Two neighbours of config/data_sync_list: PHYP-NVRAM and PHYP-NVRAM-CKSUM, in
\* the directory nvram.
nvram == <<"nvram">>
PHYP == <<"nvram", "PHYP-NVRAM">>
CKSUM == <<"nvram", "PHYP-NVRAM-CKSUM">>

NeighbourPaths == {<<>>, nvram, PHYP, CKSUM}
NeighbourDirs == {<<>>, nvram}
NeighbourPrefixes == {<<"PHYP-NVRAM", "PHYP-NVRAM-CKSUM">>}
OnlyCksum == {Config(CKSUM, {}, {}, {})}
=============================================================================
